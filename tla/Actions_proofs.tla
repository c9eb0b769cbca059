----------------------------- MODULE Actions_proofs -----------------------------
(***************************************************************************)
(* Proofs about the HTTP handlers: a request is carried out the same way on *)
(* every replica, and its answer is the one the client's books call for.    *)
(***************************************************************************)
EXTENDS Actions, NamedClient_proofs

-----------------------------------------------------------------------------
(* The invariant *)

\* The relationships of a triple, where both its nodes exist.
HeldAt(e) ==
  IF Source(e) # -1 /\ Target(e) # -1 THEN CountAt(e[1], <<Source(e), Target(e)>>) ELSE 0

\* The books of the client agree with the graph.
Books == posted = LiveNames /\ \A e \in Triples : held[e] = HeldAt(e)

TidyInv == NamedInv /\ NodeOwnRecord /\ Homed /\ Books

AnswerTyped == answer.status \in Statuses /\ answer.others \in {"idle", "done", "ended"}

LedgerTyped ==
  /\ alive \in BOOLEAN /\ tidy \in BOOLEAN
  /\ posted \subseteq Names /\ held \in [Triples -> Nat]

\* Every number up to the count of a pair leads to an id of the list as long as
\* a replica is alive, so the read-back of a write finds something there; what
\* the client's books rest on holds as long as it keeps them.
ActionsInv ==
  /\ TypeInv /\ IndexInv /\ NodeIdsSound /\ AnswerTyped /\ LedgerTyped
  /\ alive => KeysShaped /\ CountsKeyed
  /\ alive /\ tidy => TidyInv

\* What a request is answered with.
Together ==
  answer'.others # "idle" => (answer'.status = None <=> answer'.others = "ended")

Answered ==
  /\ answer'.status \in Statuses /\ answer'.others \in {"idle", "done", "ended"}
  /\ Together
  /\ alive' \in {alive, FALSE}

StepSound == ActionsInv' /\ Together

\* The steps of the graph under a request: a removal by a number below 1 is one
\* of them, and it throws.
RequestStep == NumberingStep \/ InsertRelStep \/ RemoveNumberStep

-----------------------------------------------------------------------------
(* The graph under a request *)

LEMMA CountsKept ==
  ASSUME TypeInv, KeysShaped, CountsKeyed, NumberingStep \/ InsertRelStep
  PROVE  KeysShaped' /\ CountsKeyed'
<1>1. RelsInv /\ NodesTyped BY TypeInvParts
<1>2. ListTyped /\ Len(relationships) \in Nat BY <1>1 DEF RelsInv, ListTyped
<1>3. ASSUME UNCHANGED <<relationshipKeys, relatedCounts>>, KnownTypes' = KnownTypes,
             Len(relationships)' \in Nat, Len(relationships)' >= Len(relationships)
      PROVE  KeysShaped' /\ CountsKeyed'
  <2>1. KeysShaped' BY <1>2, <1>3 DEF KeysShaped, Pairs
  <2>2. CountsKeyed' BY <1>2, <1>3 DEF CountsKeyed, Pairs
  <2>3. QED BY <2>1, <2>2
<1>4. \/ Nothing \/ AddNodeStep \/ NodePropsStep \/ InsertNodeStep \/ RemoveNodeStep
      \/ LinkStep \/ RemoveOneStep \/ RelPropsStep \/ InsertRelStep
  BY DEF NumberingStep
<1>5. CASE Nothing \/ AddNodeStep \/ NodePropsStep \/ InsertNodeStep
  <2>1. UNCHANGED relVars BY <1>5 DEF Nothing, AddNodeStep, NodePropsStep, InsertNodeStep
  <2>2. QED BY <1>2, <1>3, <2>1 DEF relVars, KnownTypes
<1>6. CASE RemoveNodeStep
  <2>c1. PICK name \in Names :
          \E call : RemoveNodeDone(call, name) \/ RemoveNodeThrows(call, name)
    BY <1>6 DEF RemoveNodeStep
  <2>1. PICK call : RemoveNodeDone(call, name) \/ RemoveNodeThrows(call, name) BY <2>c1
  <2>2. /\ UNCHANGED <<relationshipKeys, relatedCounts>> /\ KnownTypes' = KnownTypes
        /\ \E ids : relationships' = Nulled(ids)
    BY <2>1 DEF RemoveNodeDone, RemoveNodeThrows, DetachTypes, KnownTypes
  <2>3. PICK gone : Shrinks(gone) BY <1>2, <2>2, NulledShrinks
  <2>4. QED BY <1>2, <1>3, <2>2, <2>3 DEF Shrinks
<1>7. CASE RelPropsStep
  <2>1. Shrinks({}) BY <1>1, <1>7, RelsInvIs, RelPropsShrink
  <2>2. QED BY <1>2, <1>3, <1>7, <2>1 DEF RelPropsStep, KnownTypes, Shrinks
<1>8. CASE LinkStep
  <2>c1. PICK t \in Types, n1 \in NodeIds, n2 \in NodeIds, shown \in Int, props \in StoredMaps :
          \E call : Link(call, t, n1, n2, shown, props)
    BY <1>8 DEF LinkStep
  <2>1. PICK call : Link(call, t, n1, n2, shown, props) BY <2>c1
  <2>2. NumberAdded(t, <<n1, n2>>, NextNumber(t, n1, n2), Len(relationships))
    BY <1>1, <2>1, LinkAdds
  <2>3. QED BY <1>1, <2>2, AddedCounts
<1>9. CASE RemoveOneStep
  <2>c1. PICK t \in KnownTypes, n1 \in NodeIds, n2 \in NodeIds, k \in Int : \E call :
          k >= 1 /\ k <= relatedCounts[t][<<n1, n2>>] /\ RemoveNumber(call, t, n1, n2, k)
    BY <1>9 DEF RemoveOneStep
  <2>1. PICK call :
          k >= 1 /\ k <= relatedCounts[t][<<n1, n2>>] /\ RemoveNumber(call, t, n1, n2, k)
    BY <2>c1
  <2>2. NumberFreed(t, <<n1, n2>>, k, relatedCounts[t][<<n1, n2>>],
                    RelationshipKeyId(t, k, n1, n2))
    BY <1>1, <2>1, RemoveNumberFrees
  <2>3. QED BY <1>1, <2>2, FreedCounts
<1>10. CASE InsertRelStep
  <2>1. Len(relationships)' = Len(relationships) + 1 BY <1>1, <1>10, InsertRelTyped
  <2>2. QED BY <1>2, <1>3, <1>10, <2>1 DEF InsertRelStep, KnownTypes
<1>11. QED BY <1>4, <1>5, <1>6, <1>7, <1>8, <1>9, <1>10

\* What every write leaves true of the graph, whoever keeps books.
LEMMA GraphKept ==
  ASSUME ActionsInv, RequestStep, Said
  PROVE  TypeInv' /\ IndexInv' /\ NodeIdsSound'
<1>1. TypeInv /\ IndexInv /\ NodeIdsSound BY DEF ActionsInv
<1>2. \/ Nothing \/ AddNodeStep \/ NodePropsStep \/ InsertNodeStep \/ RemoveNodeStep
      \/ LinkStep \/ RemoveNumberStep \/ RelPropsStep \/ InsertRelStep
  BY DEF RequestStep, NumberingStep, RemoveOneStep, RemoveNumberStep
<1>3. GraphStep BY <1>2 DEF GraphStep
<1>4. TypeInv' BY <1>1, <1>3, TypeInvKeeps
<1>5. IndexInv' BY <1>1, <1>2, IndexInvKeeps
<1>6. NodeIdsSound' BY <1>1, <1>3, NodeIdsKeep
<1>7. QED BY <1>4, <1>5, <1>6

\* The steps of the graph while the client keeps its books.
BookedStep ==
  \/ Nothing \/ AddNodeStep \/ NodePropsStep \/ RemoveDetachedStep \/ LinkUsedStep
  \/ RemoveOneStep \/ RelPropsStep

LEMMA BookedKinds ==
  /\ BookedStep => NamedStep /\ NumberingStep /\ RequestStep
  /\ BookedStep => \/ Nothing \/ AddNodeStep \/ NodePropsStep \/ RemoveNodeStep \/ LinkStep
                   \/ RemoveNumberStep \/ RelPropsStep
<1>1. RemoveOneStep => RemoveNumberStep BY DEF RemoveOneStep, RemoveNumberStep
<1>2. RemoveDetachedStep => RemoveNodeStep BY DEF RemoveDetachedStep, RemoveNodeStep
<1>3. LinkUsedStep => LinkStep BY DEF LinkUsedStep, LinkStep
<1>4. QED BY <1>1, <1>2, <1>3 DEF BookedStep, NamedStep, NumberingStep, RequestStep

LEMMA TidyKept ==
  ASSUME ActionsInv, TidyInv, BookedStep, Said
  PROVE  NamedInv' /\ NodeOwnRecord' /\ Homed'
<1>1. TypeInv /\ IndexInv /\ NodeIdsSound BY DEF ActionsInv
<1>2. NamedInv /\ NodeOwnRecord /\ Homed BY DEF TidyInv
<1>3. NamedStep /\ NumberingStep /\ RequestStep BY BookedKinds
<1>4. \/ Nothing \/ AddNodeStep \/ NodePropsStep \/ RemoveNodeStep \/ LinkStep
      \/ RemoveNumberStep \/ RelPropsStep
  BY BookedKinds
<1>5. LiveInv /\ NumberInv BY <1>2 DEF NamedInv
<1>6. IndexInv' BY <1>3, GraphKept
<1>7. LiveInv' BY <1>1, <1>4, <1>5, LiveInvKeeps
<1>8. NumberInv' BY <1>1, <1>3, <1>5, NumberInvKeeps
<1>9. KeyInv' /\ ListInv' BY <1>1, <1>2, <1>3, NamedInvKeeps
<1>10. NodeOwnRecord' BY <1>1, <1>2, <1>4, NodeOwnKeeps
<1>11. Homed' BY <1>1, <1>2, HomedKeeps DEF BookedStep
<1>12. QED BY <1>6, <1>7, <1>8, <1>9, <1>10, <1>11 DEF NamedInv

-----------------------------------------------------------------------------
(* What a request has to keep *)

LEMMA StepKeeps ==
  ASSUME ActionsInv, alive, RequestStep, Said, Answered, LedgerTyped',
         alive' => NumberingStep \/ InsertRelStep,
         alive' /\ tidy' => TidyInv'
  PROVE  StepSound
<1>1. TypeInv /\ KeysShaped /\ CountsKeyed BY DEF ActionsInv
<1>2. TypeInv' /\ IndexInv' /\ NodeIdsSound' BY GraphKept
<1>3. alive' => KeysShaped' /\ CountsKeyed' BY <1>1, CountsKept
<1>4. AnswerTyped' BY DEF Answered, AnswerTyped
<1>5. ActionsInv' BY <1>2, <1>3, <1>4 DEF ActionsInv
<1>6. QED BY <1>5 DEF StepSound, Answered

LEMMA SameLedger ==
  ASSUME ActionsInv, Answered, UNCHANGED ledger
  PROVE  LedgerTyped'
BY DEF ActionsInv, LedgerTyped, Answered, ledger

\* No replica is left: nothing is asked of the graph any more.
LEMMA EndedSound ==
  ASSUME ActionsInv, alive, RequestStep, Said, Answered, UNCHANGED ledger, ~ alive'
  PROVE  StepSound
BY SameLedger, StepKeeps

\* The client has stopped keeping books.
LEMMA MuddledSound ==
  ASSUME ActionsInv, alive, NumberingStep \/ InsertRelStep, Said, Answered, Muddle
  PROVE  StepSound
<1>1. LedgerTyped' /\ ~ tidy' BY DEF Muddle, LedgerTyped, Answered, ActionsInv
<1>2. QED BY <1>1, StepKeeps DEF RequestStep

\* No replica is left, or the client keeps no books.
LEMMA UnbookedSound ==
  ASSUME ActionsInv, alive, RequestStep, Said, Answered, UNCHANGED ledger,
         alive' => NumberingStep \/ InsertRelStep, ~ alive' \/ ~ tidy
  PROVE  StepSound
<1>1. CASE ~ alive' BY <1>1, EndedSound
<1>2. CASE ~ tidy
  <2>1. LedgerTyped' BY SameLedger
  <2>2. ~ tidy' BY <1>2 DEF ledger
  <2>3. QED BY <2>1, <2>2, StepKeeps
<1>3. QED BY <1>1, <1>2

\* The client enters what the answer tells it.
LEMMA BookedSound ==
  ASSUME ActionsInv, alive, tidy, BookedStep, Said, Answered, LedgerTyped', Books'
  PROVE  StepSound
<1>1. TidyInv BY DEF ActionsInv
<1>2. NamedInv' /\ NodeOwnRecord' /\ Homed' BY <1>1, TidyKept
<1>3. TidyInv' BY <1>2 DEF TidyInv
<1>4. NumberingStep /\ RequestStep BY BookedKinds
<1>5. QED BY <1>3, <1>4, StepKeeps

\* No name, no count and no type changes.
Quiet == Nothing \/ NodePropsStep \/ RelPropsStep

LEMMA QuietIs ==
  ASSUME Quiet
  PROVE  UNCHANGED <<nodeKeys, relationshipKeys, relatedCounts>> /\ KnownTypes' = KnownTypes
BY DEF Quiet, Nothing, NodePropsStep, RelPropsStep, nodeVars, relVars, KnownTypes

LEMMA SameHeld ==
  ASSUME UNCHANGED <<nodeKeys, relatedCounts>>, KnownTypes' = KnownTypes
  PROVE  LiveNames' = LiveNames /\ \A e : HeldAt(e)' = HeldAt(e)
BY DEF LiveNames, HeldAt, Source, Target, CountAt

LEMMA QuietSound ==
  ASSUME ActionsInv, alive, Quiet, Said, Answered, UNCHANGED ledger
  PROVE  StepSound
<1>1. BookedStep BY DEF Quiet, BookedStep
<1>2. RequestStep /\ NumberingStep BY <1>1, BookedKinds
<1>3. ASSUME alive', tidy' PROVE TidyInv'
  <2>1. TidyInv BY <1>3 DEF ActionsInv, ledger
  <2>2. NamedInv' /\ NodeOwnRecord' /\ Homed' BY <1>1, <2>1, TidyKept
  <2>3. LiveNames' = LiveNames /\ \A e : HeldAt(e)' = HeldAt(e) BY QuietIs, SameHeld
  <2>4. Books' BY <2>1, <2>3 DEF TidyInv, Books, ledger
  <2>5. QED BY <2>2, <2>4 DEF TidyInv
<1>4. QED BY <1>2, <1>3, SameLedger, StepKeeps

-----------------------------------------------------------------------------
(* Answers *)

\* A read answers, and changes nothing.
LEMMA ReadIs ==
  ASSUME NEW action, NEW on, NEW k, NEW found, Read(action, on, k, found)
  PROVE  Answered /\ UNCHANGED <<vars, ledger>>
BY DEF Read, Answer, Answered, Together, Statuses

LEMMA ReadSound ==
  ASSUME ActionsInv, alive, NEW action, NEW on, NEW k, NEW found, Read(action, on, k, found)
  PROVE  StepSound
<1>1. Answered /\ UNCHANGED <<vars, ledger>> BY ReadIs
<1>2. Quiet BY <1>1 DEF Quiet, Nothing, vars, nodeVars, relVars
<1>3. Said BY <1>1, TypeInvParts DEF ActionsInv, Said, vars
<1>4. QED BY <1>1, <1>2, <1>3, QuietSound

\* A write that throws ends every replica, and the others are answered alike.
Sent(status, body) ==
  /\ Answered
  /\ result'.outcome = "threw" => answer'.status = None /\ alive' = FALSE
  /\ result'.outcome # "threw" =>
       answer'.status = status /\ answer'.body = body /\ alive' = alive

LEMMA WrittenIs ==
  ASSUME NEW action, NEW on, NEW k, NEW status, NEW back, Written(action, on, k, status, back),
         status \in {200, 201, 204, 304, 404} \/ result'.outcome = "threw",
         back.outcome = "threw" => result'.outcome = "threw"
  PROVE  Sent(status, back.map)
<1>1. CASE result'.outcome = "threw"
  <2>1. Answer(action, on, k, None, Null, "ended") /\ alive' = FALSE BY <1>1 DEF Written
  <2>2. answer'.status = None /\ answer'.others = "ended" BY <2>1 DEF Answer
  <2>3. QED BY <1>1, <2>1, <2>2 DEF Sent, Answered, Together, Statuses
<1>2. CASE result'.outcome # "threw"
  <2>1. Answer(action, on, k, status, back.map, "done") /\ alive' = alive
    BY <1>2 DEF Written
  <2>2. answer'.status = status /\ answer'.body = back.map /\ answer'.others = "done"
    BY <2>1 DEF Answer
  <2>3. status \in Statuses /\ status # None BY <1>2, NoneIsNoStatus DEF Statuses
  <2>4. QED BY <1>2, <2>1, <2>2, <2>3 DEF Sent, Answered, Together
<1>3. QED BY <1>1, <1>2

LEMMA NoWriteIs ==
  ASSUME NEW outcome \in Outcomes, NoWrite(outcome)
  PROVE  Nothing /\ Said /\ result'.outcome = outcome
BY DEF NoWrite, Unchanged, Return, Nothing, Said

LEMMA ThrowsIs ==
  ASSUME NEW action, NEW on, NEW k, Throws(action, on, k)
  PROVE  Nothing /\ Said /\ Answered /\ ~ alive' /\ answer'.status = None
<1>1. Nothing /\ Said /\ result'.outcome = "threw" BY NoWriteIs DEF Throws, Outcomes
<1>2. Sent(None, NotFound.map) BY <1>1, WrittenIs DEF Throws
<1>3. QED BY <1>1, <1>2 DEF Sent

LEMMA ThrowsSound ==
  ASSUME ActionsInv, alive, NEW action, NEW on, NEW k, Throws(action, on, k), UNCHANGED ledger
  PROVE  StepSound
<1>1. Nothing /\ Said /\ Answered /\ ~ alive' BY ThrowsIs
<1>2. RequestStep BY <1>1 DEF RequestStep, NumberingStep
<1>3. QED BY <1>1, <1>2, EndedSound

LEMMA ReturnsSound ==
  ASSUME ActionsInv, alive, NEW action, NEW on, NEW k, NEW status \in {304, 404},
         Returns(action, on, k, status), UNCHANGED ledger
  PROVE  StepSound
<1>1. Nothing /\ Said /\ result'.outcome = "refused" BY NoWriteIs DEF Returns, Outcomes
<1>2. NotFound.outcome = "done" BY DEF NotFound, Found
<1>3. Sent(status, NotFound.map) BY <1>1, <1>2, WrittenIs DEF Returns
<1>4. Answered BY <1>3 DEF Sent
<1>5. QED BY <1>1, <1>4, QuietSound DEF Quiet

-----------------------------------------------------------------------------
(* Requests that leave the names, the counts and the types alone *)

LEMMA InvTypes ==
  ASSUME ActionsInv
  PROVE  /\ TypeInv /\ TypeOK /\ NodesTyped /\ RelsInv /\ KeysTyped
         /\ \A n \in Names : nodeKeys[n] \in {-1} \cup NodeIds /\ nodeKeys[n] \in Int
         /\ \A e \in Triples :
              e[1] \in Types /\ Source(e) \in {-1} \cup NodeIds /\ Target(e) \in {-1} \cup NodeIds
<1>1. TypeInv /\ NodesTyped /\ RelsInv BY TypeInvParts DEF ActionsInv
<1>2. TypeOK /\ KeysTyped BY <1>1, KeysAllocatedTyped DEF TypeInv
<1>3. \A n \in Names : nodeKeys[n] \in {-1} \cup NodeIds /\ nodeKeys[n] \in Int
  BY <1>1 DEF NodesTyped, NodeIds
<1>4. \A e \in Triples : e[1] \in Types /\ e[2] \in Names /\ e[3] \in Names BY DEF Triples
<1>5. QED BY <1>1, <1>2, <1>3, <1>4 DEF Source, Target

LEMMA SentQuietly ==
  ASSUME ActionsInv, alive, Quiet, Said, UNCHANGED ledger,
         NEW action, NEW on, NEW k, NEW status, NEW back, Written(action, on, k, status, back),
         status \in {200, 201, 204, 304, 404}, back.outcome = "threw" => result'.outcome = "threw"
  PROVE  StepSound
<1>1. Sent(status, back.map) BY WrittenIs
<1>2. QED BY <1>1, QuietSound DEF Sent

LEMMA FoundIs == NotFound.outcome = "done" /\ \A m : Found(m).outcome = "done" /\ Found(m).map = m
BY DEF NotFound, Found

LEMMA BySuccessIs ==
  /\ BySuccess(201, 304) \in {200, 201, 204, 304, 404}
  /\ BySuccess(204, 404) \in {200, 201, 204, 304, 404}
BY DEF BySuccess

LEMMA PropsOfIs ==
  /\ \A body \in Bodies \cup PropMaps : body # Malformed => PropsOf(body) \in PropMaps
  /\ \A body \in Bodies \cup UserMaps : body # Malformed => PropsOf(body) \in UserMaps
<1>1. DOMAIN NoProps = {} /\ NoProps \in [{} -> Values] BY DEF NoProps
<1>2. NoProps \in PropMaps BY <1>1 DEF PropMaps
<1>3. NoProps \in UserMaps BY <1>1, <1>2 DEF UserMaps
<1>4. QED BY <1>2, <1>3 DEF PropsOf, Bodies

LEMMA PutNodePropertiesSound ==
  ASSUME ActionsInv, alive, NEW n \in Names, NEW body \in Bodies \cup PropMaps,
         HandlePutNodeProperties(n, body)
  PROVE  StepSound
<1>1. UNCHANGED ledger BY DEF HandlePutNodeProperties
<1>2. CASE Returns("PUT_NODE_PROPERTIES", n, 1, 404) BY <1>1, <1>2, ReturnsSound
<1>3. CASE Throws("PUT_NODE_PROPERTIES", n, 1) BY <1>1, <1>3, ThrowsSound
<1>4. CASE /\ body # Malformed
           /\ UpdateNodeProperties(nodeKeys[n], PropsOf(body))
           /\ Written("PUT_NODE_PROPERTIES", n, 1, BySuccess(201, 304),
                      IF result'.outcome = "done" THEN Found(GetNode(n)') ELSE NotFound)
  <2>1. PropsOf(body) \in PropMaps BY <1>4, PropsOfIs
  <2>2. (Nothing \/ NodePropsStep) /\ Said BY <1>4, <2>1, InvTypes, NodePropertyKinds
  <2>3. PICK back :
          back = IF result'.outcome = "done" THEN Found(GetNode(n)') ELSE NotFound
    OBVIOUS
  <2>4. back.outcome = "done" BY <2>3, FoundIs
  <2>5. Quiet BY <2>2 DEF Quiet
  <2>6. QED BY <1>1, <1>4, <2>2, <2>3, <2>4, <2>5, BySuccessIs, SentQuietly
<1>5. QED BY <1>2, <1>3, <1>4 DEF HandlePutNodeProperties

LEMMA NodePropertySound ==
  ASSUME ActionsInv, alive, NEW n \in Names, NEW p \in PropNames,
         \/ \E body \in Bodies \cup Values : HandlePutNodeProperty(n, p, body)
         \/ HandleDeleteNodeProperty(n, p)
  PROVE  StepSound
<1>1. CASE \E body \in Bodies \cup Values : HandlePutNodeProperty(n, p, body)
  <2>1. PICK body \in Bodies \cup Values : HandlePutNodeProperty(n, p, body) BY <1>1
  <2>2. UNCHANGED ledger BY <2>1 DEF HandlePutNodeProperty
  <2>3. CASE Returns("PUT_NODE_PROPERTY", n, 1, 304) BY <2>2, <2>3, ReturnsSound
  <2>4. CASE /\ body # Empty
             /\ UpdateNodeProperty(nodeKeys[n], p, IF body = Malformed THEN Null ELSE body)
             /\ Written("PUT_NODE_PROPERTY", n, 1, BySuccess(204, 404), NotFound)
    <3>1. PICK v : v = IF body = Malformed THEN Null ELSE body OBVIOUS
    <3>2. v \in Values \cup {Null} BY <2>4, <3>1 DEF Bodies
    <3>3. (Nothing \/ NodePropsStep) /\ Said
      BY <2>4, <3>1, <3>2, InvTypes, NodePropertyKinds
    <3>4. QED BY <2>2, <2>4, <3>3, BySuccessIs, FoundIs, SentQuietly DEF Quiet
  <2>5. QED BY <2>1, <2>3, <2>4 DEF HandlePutNodeProperty
<1>2. CASE HandleDeleteNodeProperty(n, p)
  <2>1. /\ DeleteNodeProperty(nodeKeys[n], p) /\ UNCHANGED ledger
        /\ Written("DELETE_NODE_PROPERTY", n, 1, BySuccess(204, 404), NotFound)
    BY <1>2 DEF HandleDeleteNodeProperty
  <2>2. (Nothing \/ NodePropsStep) /\ Said BY <2>1, InvTypes, NodePropertyKinds
  <2>3. QED BY <2>1, <2>2, BySuccessIs, FoundIs, SentQuietly DEF Quiet
<1>3. QED BY <1>1, <1>2

LEMMA RelationshipPropertySound ==
  ASSUME ActionsInv, alive, NEW e \in Triples, NEW k, NEW p \in PropNames,
         NEW numbered \in BOOLEAN,
         \/ \E body \in Bodies \cup Values : HandlePutRelationshipProperty(e, k, p, body)
         \/ HandleDeleteRelationshipProperty(e, k, numbered, p)
  PROVE  StepSound
<1>1. CASE \E body \in Bodies \cup Values : HandlePutRelationshipProperty(e, k, p, body)
  <2>1. PICK body \in Bodies \cup Values : HandlePutRelationshipProperty(e, k, p, body) BY <1>1
  <2>2. UNCHANGED ledger BY <2>1 DEF HandlePutRelationshipProperty
  <2>3. CASE Returns("PUT_RELATIONSHIP_PROPERTY", e, k, 304) BY <2>2, <2>3, ReturnsSound
  <2>4. CASE Throws("PUT_RELATIONSHIP_PROPERTY", e, k) BY <2>2, <2>4, ThrowsSound
  <2>5. CASE /\ body \notin {Empty, Malformed}
             /\ UpdateRelationshipProperty(e[1], Source(e), Target(e), k, p, body)
             /\ Written("PUT_RELATIONSHIP_PROPERTY", e, k, BySuccess(204, 404), NotFound)
    <3>1. body \in Values BY <2>5 DEF Bodies
    <3>2. (Nothing \/ RelPropsStep) /\ Said BY <2>5, <3>1, InvTypes, NamedPropertyKinds
    <3>3. QED BY <2>2, <2>5, <3>2, BySuccessIs, FoundIs, SentQuietly DEF Quiet
  <2>6. QED BY <2>1, <2>3, <2>4, <2>5 DEF HandlePutRelationshipProperty
<1>2. CASE HandleDeleteRelationshipProperty(e, k, numbered, p)
  <2>1. /\ DeleteRelationshipProperty(e[1], Source(e), Target(e), k, numbered, p)
        /\ Written("DELETE_RELATIONSHIP_PROPERTY", e, k, BySuccess(204, 404), NotFound)
        /\ UNCHANGED ledger
    BY <1>2 DEF HandleDeleteRelationshipProperty
  <2>2. (Nothing \/ RelPropsStep) /\ Said BY <2>1, InvTypes, NamedPropertyKinds
  <2>3. QED BY <2>1, <2>2, BySuccessIs, FoundIs, SentQuietly DEF Quiet
<1>3. QED BY <1>1, <1>2

-----------------------------------------------------------------------------
(* The read-back of a relationship *)

LEMMA SameOutcome ==
  ASSUME UNCHANGED <<nodeKeys, relationshipKeys, relatedCounts>>, KnownTypes' = KnownTypes,
         DOMAIN relationships' = DOMAIN relationships, NEW e, NEW k, NEW numbered
  PROVE  ReadRelationship(e, k, numbered)'.outcome = ReadRelationship(e, k, numbered).outcome
<1>1. \A id : FetchRel(id)'.outcome = FetchRel(id).outcome BY DEF FetchRel, Found, Threw
<1>2. Source(e)' = Source(e) /\ Target(e)' = Target(e) BY DEF Source, Target
<1>3. \A t, n1, n2, j : Checked(t, n1, n2, j)' = Checked(t, n1, n2, j) BY DEF Checked
<1>4. \A t, n1, n2, j : RelationshipKeyId(t, j, n1, n2)' = RelationshipKeyId(t, j, n1, n2)
  BY DEF RelationshipKeyId, KeyMap
<1>5. \A t, n1, n2, j : GetRelationshipNumber(t, n1, n2, j)'.outcome
                          = GetRelationshipNumber(t, n1, n2, j).outcome
  BY <1>1, <1>4 DEF GetRelationshipNumber, Found
<1>6. \A t, n1, n2 : GetRelationship(t, n1, n2)'.outcome = GetRelationship(t, n1, n2).outcome
  <2>1. SUFFICES ASSUME NEW t, NEW n1, NEW n2
                 PROVE  GetRelationship(t, n1, n2)'.outcome = GetRelationship(t, n1, n2).outcome
    OBVIOUS
  <2>2. FetchRel(RelationshipKeyId(t, 1, n1, n2))'.outcome
          = FetchRel(RelationshipKeyId(t, 1, n1, n2)).outcome
    BY <1>1, <1>4
  <2>3. QED BY <1>3, <2>2 DEF GetRelationship, Found, Threw
<1>7. QED BY <1>2, <1>5, <1>6 DEF ReadRelationship

LEMMA QuietList ==
  ASSUME Quiet
  PROVE  DOMAIN relationships' = DOMAIN relationships
BY DEF Quiet, Nothing, NodePropsStep, RelPropsStep, relVars

LEMMA PutRelationshipPropertiesSound ==
  ASSUME ActionsInv, alive, NEW e \in Triples, NEW k, NEW numbered \in BOOLEAN,
         NEW body \in Bodies \cup PropMaps,
         HandlePutRelationshipProperties(e, k, numbered, body)
  PROVE  StepSound
<1>f. PICK found : found = ReadRelationship(e, k, numbered) OBVIOUS
<1>1. UNCHANGED ledger BY DEF HandlePutRelationshipProperties
<1>2. CASE Returns("PUT_RELATIONSHIP_PROPERTIES", e, k, 404) BY <1>1, <1>2, ReturnsSound
<1>3. CASE Throws("PUT_RELATIONSHIP_PROPERTIES", e, k) BY <1>1, <1>3, ThrowsSound
<1>4. CASE /\ found.outcome # "threw" /\ body # Malformed
           /\ UpdateRelationshipProperties(e[1], Source(e), Target(e), k, PropsOf(body))
           /\ Written("PUT_RELATIONSHIP_PROPERTIES", e, k, BySuccess(201, 304),
                      IF result'.outcome = "done" THEN ReadRelationship(e, k, numbered)'
                      ELSE NotFound)
  <2>1. PropsOf(body) \in PropMaps BY <1>4, PropsOfIs
  <2>2. (Nothing \/ RelPropsStep) /\ Said BY <1>4, <2>1, InvTypes, NamedPropertyKinds
  <2>3. Quiet BY <2>2 DEF Quiet
  <2>4. DOMAIN relationships' = DOMAIN relationships BY <2>3, QuietList
  <2>5. ReadRelationship(e, k, numbered)'.outcome # "threw"
    BY <1>f, <1>4, <2>3, <2>4, QuietIs, SameOutcome
  <2>6. PICK back :
          back = IF result'.outcome = "done" THEN ReadRelationship(e, k, numbered)' ELSE NotFound
    OBVIOUS
  <2>7. back.outcome # "threw" BY <2>5, <2>6, FoundIs
  <2>8. QED BY <1>1, <1>4, <2>2, <2>3, <2>6, <2>7, BySuccessIs, SentQuietly
<1>5. found.outcome = "threw" => found.map = Null
  BY <1>f DEF ReadRelationship, GetRelationshipNumber, GetRelationship, FetchRel, Found, Threw
<1>6. QED BY <1>f, <1>2, <1>3, <1>4, <1>5 DEF HandlePutRelationshipProperties

-----------------------------------------------------------------------------
(* Requests the client's books cannot follow *)

LEMMA DeleteNodePropertiesSound ==
  ASSUME ActionsInv, alive, NEW n \in Names, HandleDeleteNodeProperties(n)
  PROVE  StepSound
<1>1. /\ DeleteNodeProperties(nodeKeys[n]) /\ Entered(Muddle)
      /\ Written("DELETE_NODE_PROPERTIES", n, 1, BySuccess(204, 404), NotFound)
  BY DEF HandleDeleteNodeProperties
<1>2. (Nothing \/ InsertNodeStep) /\ Said BY <1>1, InvTypes, DeleteNodePropertiesKind
<1>3. NumberingStep /\ RequestStep BY <1>2 DEF NumberingStep, RequestStep
<1>4. Sent(BySuccess(204, 404), NotFound.map) BY <1>1, FoundIs, BySuccessIs, WrittenIs
<1>5. CASE Muddle BY <1>2, <1>3, <1>4, <1>5, MuddledSound DEF Sent
<1>6. CASE UNCHANGED ledger
  <2>1. CASE tidy /\ answer'.status \in Success
    <3>1. Muddle BY <1>1, <2>1 DEF Entered
    <3>2. QED BY <1>5, <3>1
  <2>2. CASE alive' /\ answer'.status \notin Success
    <3>1. result'.outcome \notin {"done", "threw"}
      BY <1>4, <2>2 DEF Sent, BySuccess, Success
    <3>2. Unchanged(<<"deleteNodeProperties", nodeKeys[n]>>, "refused")
      BY <1>1, <3>1 DEF DeleteNodeProperties, Unchanged, Return
    <3>3. Quiet BY <3>2 DEF Unchanged, Quiet, Nothing
    <3>4. QED BY <1>2, <1>4, <1>6, <3>3, QuietSound DEF Sent
  <2>3. CASE ~ alive' \/ ~ tidy BY <1>2, <1>3, <1>4, <1>6, <2>3, UnbookedSound DEF Sent
  <2>4. QED BY <2>1, <2>2, <2>3
<1>7. QED BY <1>1, <1>5, <1>6 DEF Entered

LEMMA DeleteRelationshipPropertiesSound ==
  ASSUME ActionsInv, alive, NEW e \in Triples, NEW k, NEW numbered \in BOOLEAN,
         HandleDeleteRelationshipProperties(e, k, numbered)
  PROVE  StepSound
<1>1. /\ DeleteRelationshipProperties(e[1], Source(e), Target(e), k, numbered)
      /\ Written("DELETE_RELATIONSHIP_PROPERTIES", e, k, BySuccess(204, 404), NotFound)
      /\ Entered(Muddle)
  BY DEF HandleDeleteRelationshipProperties
<1>2. (Nothing \/ InsertRelStep) /\ Said BY <1>1, InvTypes, DeleteRelationshipPropertiesKind
<1>3. NumberingStep \/ InsertRelStep BY <1>2 DEF NumberingStep
<1>4. RequestStep BY <1>3 DEF RequestStep
<1>5. Sent(BySuccess(204, 404), NotFound.map) BY <1>1, FoundIs, BySuccessIs, WrittenIs
<1>6. CASE Muddle BY <1>2, <1>3, <1>5, <1>6, MuddledSound DEF Sent
<1>7. CASE UNCHANGED ledger
  <2>1. CASE tidy /\ answer'.status \in Success
    <3>1. Muddle BY <1>1, <2>1 DEF Entered
    <3>2. QED BY <1>6, <3>1
  <2>2. CASE alive' /\ answer'.status \notin Success
    <3>1. result'.outcome \notin {"done", "threw"}
      BY <1>5, <2>2 DEF Sent, BySuccess, Success
    <3>2. \E call, outcome : Unchanged(call, outcome)
      BY <1>1, <3>1 DEF DeleteRelationshipProperties, Return
    <3>3. Quiet BY <3>2 DEF Unchanged, Quiet, Nothing
    <3>4. QED BY <1>2, <1>5, <1>7, <3>3, QuietSound DEF Sent
  <2>3. CASE ~ alive' \/ ~ tidy
    BY <1>2, <1>3, <1>4, <1>5, <1>7, <2>3, UnbookedSound DEF Sent
  <2>4. QED BY <2>1, <2>2, <2>3
<1>8. QED BY <1>1, <1>6, <1>7 DEF Entered

-----------------------------------------------------------------------------
(* A node is created *)

\* The new node's id has no relationships.
NodeMade(n) ==
  \E id \in NodeIds :
    /\ nodeKeys[n] = -1 /\ nodeKeys' = [nodeKeys EXCEPT ![n] = id]
    /\ ~ Used(id) /\ UNCHANGED relVars

LEMMA AddNodeIs ==
  ASSUME ActionsInv, NEW n \in Names, NEW props, AddNode(n, props)
  PROVE  /\ result'.outcome # "threw"
         /\ NodeMade(n) \/ (nodeKeys[n] # -1 /\ Nothing)
<1>1. NodesTyped /\ NodeIdsSound BY InvTypes DEF ActionsInv
<1>2. result'.outcome # "threw"
  <2>1. \E call, outcome, id : outcome # "threw" /\ Return(call, outcome, id)
    BY DEF AddNode, Unchanged
  <2>2. QED BY <2>1 DEF Return
<1>3. ASSUME NEW id \in NodeIds, id = Len(nodes) \/ id \in deletedNodes PROVE ~ Used(id)
  <2>1. SUFFICES ASSUME NEW m \in Names, nodeKeys[m] = id PROVE FALSE BY DEF Used
  <2>2. m \in LiveNames BY <2>1 DEF LiveNames, NodeIds
  <2>3. nodeKeys[m] < Len(nodes) /\ nodeKeys[m] \notin deletedNodes
    BY <1>1, <2>2 DEF NodeIdsSound
  <2>4. QED BY <1>3, <2>1, <2>3 DEF NodeIds
<1>4. CASE Unchanged(<<"addNode", nodeKeys[n]>>, "refused") /\ nodeKeys[n] # -1
  BY <1>2, <1>4 DEF Unchanged, Nothing
<1>5. CASE /\ nodeKeys[n] = -1 /\ Len(nodes) < MaxNodes
           /\ nodeKeys' = [nodeKeys EXCEPT ![n] = Len(nodes)]
           /\ UNCHANGED <<deletedNodes, relVars>>
  <2>1. Len(nodes) \in NodeIds BY <1>1, <1>5, BoundsAssumption DEF NodesTyped, NodeIds
  <2>2. ~ Used(Len(nodes)) BY <1>3, <2>1
  <2>3. QED BY <1>2, <1>5, <2>1, <2>2 DEF NodeMade
<1>6. ASSUME nodeKeys[n] = -1, NEW id \in deletedNodes,
             nodeKeys' = [nodeKeys EXCEPT ![n] = id], UNCHANGED relVars
      PROVE  NodeMade(n)
  <2>1. id \in NodeIds BY <1>1 DEF NodesTyped
  <2>2. QED BY <1>3, <1>6, <2>1 DEF NodeMade
<1>7. QED BY <1>2, <1>4, <1>5, <1>6 DEF AddNode

LEMMA NodeMadeBooks ==
  ASSUME ActionsInv, TidyInv, NEW n \in Names, NodeMade(n),
         posted' = posted \cup {n}, held' = held
  PROVE  Books'
<1>1. NodesTyped /\ Homed /\ Books BY InvTypes DEF TidyInv
<1>2. PICK id \in NodeIds :
        /\ nodeKeys[n] = -1 /\ nodeKeys' = [nodeKeys EXCEPT ![n] = id]
        /\ ~ Used(id) /\ UNCHANGED relVars
  BY DEF NodeMade
<1>3. id # -1 /\ nodeKeys'[n] = id /\ \A m \in Names : m # n => nodeKeys'[m] = nodeKeys[m]
  BY <1>1, <1>2 DEF NodesTyped, NodeIds
<1>4. LiveNames' = LiveNames \cup {n} BY <1>2, <1>3 DEF LiveNames
<1>5. UNCHANGED relatedCounts /\ KnownTypes' = KnownTypes BY <1>2 DEF relVars, KnownTypes
<1>6. ASSUME NEW e \in Triples PROVE HeldAt(e)' = HeldAt(e)
  <2>1. e[2] \in Names /\ e[3] \in Names /\ e[1] \in Types BY DEF Triples
  <2>2. CASE e[2] # n /\ e[3] # n
    <3>1. Source(e)' = Source(e) /\ Target(e)' = Target(e)
      BY <1>3, <2>1, <2>2 DEF Source, Target
    <3>2. QED BY <1>5, <3>1 DEF HeldAt, CountAt
  <2>3. CASE e[2] = n \/ e[3] = n
    <3>1. HeldAt(e) = 0 BY <1>2, <2>3 DEF HeldAt, Source, Target
    <3>a. PICK a : a = nodeKeys'[e[2]] OBVIOUS
    <3>b. PICK b : b = nodeKeys'[e[3]] OBVIOUS
    <3>2. a \in {-1} \cup NodeIds /\ b \in {-1} \cup NodeIds
      BY <1>1, <1>2, <2>1, <3>a, <3>b DEF NodesTyped
    <3>3. a = id \/ b = id BY <1>3, <2>3, <3>a, <3>b
    <3>4. ASSUME a # -1, b # -1, e[1] \in KnownTypes PROVE relatedCounts[e[1]][<<a, b>>] = 0
      <4>1. a \in NodeIds /\ b \in NodeIds BY <3>2, <3>4
      <4>2. ~ (Used(a) /\ Used(b)) BY <1>2, <3>3
      <4>3. QED BY <1>1, <3>4, <4>1, <4>2 DEF Homed
    <3>5. HeldAt(e)' = 0 BY <1>5, <3>a, <3>b, <3>4 DEF HeldAt, CountAt, Source, Target
    <3>6. QED BY <3>1, <3>5
  <2>4. QED BY <2>2, <2>3
<1>7. QED BY <1>1, <1>4, <1>6 DEF Books

LEMMA PostNodeSound ==
  ASSUME ActionsInv, alive, NEW n \in Names, NEW body \in Bodies \cup UserMaps,
         HandlePostNode(n, body)
  PROVE  StepSound
<1>e. Entered(posted' = posted \cup {n} /\ UNCHANGED <<held, tidy>>) BY DEF HandlePostNode
<1>1. CASE Throws("POST_NODE", n, 1)
  <2>1. answer'.status = None BY <1>1, ThrowsIs
  <2>2. UNCHANGED ledger BY <1>e, <2>1, NoneIsNoStatus DEF Entered, Success
  <2>3. QED BY <1>1, <2>2, ThrowsSound
<1>2. CASE /\ body # Malformed /\ AddNode(n, PropsOf(body))
           /\ Written("POST_NODE", n, 1, 201, Found(GetNode(n)'))
  <2>1. PropsOf(body) \in UserMaps BY <1>2, PropsOfIs
  <2>2. (Nothing \/ AddNodeStep) /\ Said BY <1>2, <2>1, InvTypes, AddNodeKind
  <2>3. /\ result'.outcome # "threw"
        /\ NodeMade(n) \/ (nodeKeys[n] # -1 /\ Nothing)
    BY <1>2, AddNodeIs
  <2>b. PICK back : back = Found(GetNode(n)') OBVIOUS
  <2>4. Sent(201, back.map) BY <1>2, <2>b, FoundIs, WrittenIs
  <2>5. Answered /\ answer'.status \in Success BY <2>3, <2>4 DEF Sent, Success
  <2>6. BookedStep BY <2>2 DEF BookedStep
  <2>7. NumberingStep /\ RequestStep BY <2>6, BookedKinds
  <2>8. CASE ~ tidy
    <3>1. UNCHANGED ledger BY <1>e, <2>8 DEF Entered
    <3>2. QED BY <2>2, <2>5, <2>7, <2>8, <3>1, UnbookedSound
  <2>9. CASE tidy
    <3>1. posted' = posted \cup {n} /\ held' = held /\ tidy' = tidy
      BY <1>e, <2>5, <2>9 DEF Entered
    <3>2. LedgerTyped' BY <2>5, <3>1 DEF ActionsInv, LedgerTyped, Answered
    <3>3. TidyInv BY <2>9 DEF ActionsInv
    <3>4. CASE NodeMade(n)
      <4>1. Books' BY <3>1, <3>3, <3>4, NodeMadeBooks
      <4>2. QED BY <2>2, <2>5, <2>6, <2>9, <3>2, <4>1, BookedSound
    <3>5. CASE nodeKeys[n] # -1 /\ Nothing
      <4>1. n \in posted BY <3>3, <3>5 DEF TidyInv, Books, LiveNames
      <4>2. UNCHANGED ledger BY <3>1, <4>1 DEF ledger
      <4>3. QED BY <2>2, <2>5, <3>5, <4>2, QuietSound DEF Quiet
    <3>6. QED BY <2>3, <3>4, <3>5
  <2>10. QED BY <2>8, <2>9
<1>3. QED BY <1>1, <1>2 DEF HandlePostNode

-----------------------------------------------------------------------------
(* A node is deleted *)

LEMMA RemoveNodeIs ==
  ASSUME ActionsInv, NEW n \in Names, NEW call, RemoveNode(call, n)
  PROVE  \/ nodeKeys[n] = -1 /\ Nothing /\ result'.outcome = "refused"
         \/ nodeKeys[n] \in NodeIds /\ RemoveNodeDone(call, n) /\ result'.outcome = "done"
<1>1. NodesTyped /\ IndexTyped /\ IndexInv BY InvTypes DEF ActionsInv, TypeInv
<1>2. nodeKeys[n] # -1 => nodeKeys[n] \in NodeIds BY <1>1 DEF NodesTyped
<1>3. CASE nodeKeys[n] = -1 /\ Unchanged(call, "refused")
  BY <1>3 DEF Unchanged, Nothing, Return
<1>4. CASE RemoveNodeDone(call, n) BY <1>2, <1>4 DEF RemoveNodeDone, Return
<1>5. CASE RemoveNodeThrows(call, n)
  <2>1. nodeKeys[n] \in NodeIds BY <1>2, <1>5 DEF RemoveNodeThrows
  <2>2. PICK ends : Ends(ends) BY <1>1 DEF IndexInv
  <2>3. \A t \in KnownTypes : ~ RemoveAllOverruns(related[t], nodeKeys[n])
    BY <1>1, <2>1, <2>2, RelsInvIs, EndsIs, NeverOverruns
  <2>4. QED BY <1>5, <2>3 DEF RemoveNodeThrows
<1>6. QED BY <1>3, <1>4, <1>5 DEF RemoveNode

\* No pair with a node has relationships, so its lists are empty.
LEMMA CountsDetached ==
  ASSUME RelsInv, IndexInv, ListInv, NEW id \in NodeIds, NEW t \in KnownTypes,
         \A x \in NodeIds : relatedCounts[t][<<id, x>>] = 0 /\ relatedCounts[t][<<x, id>>] = 0
  PROVE  FromSize(related[t], id) = 0 /\ ToSize(related[t], id) = 0
<1>m. PICK m : m = related[t] OBVIOUS
<1>1. m \in Index(NodeIds, RelIds) BY <1>m DEF RelsInv, IndexTyped
<1>2. Paired(NodeIds, m, relatedCounts[t]) BY <1>m DEF ListInv, ListsPaired
<1>3. BothWays(NodeIds, m) BY <1>m DEF IndexInv, Ends, IndicesSound
<1>4. m.from2to[id] \in Seq(NodeIds) /\ m.to2from[id] \in Seq(NodeIds) BY <1>1 DEF Index
<1>5. ASSUME NEW x \in NodeIds
      PROVE  Times(m.from2to[id], x) = 0 /\ Times(m.to2from[id], x) = 0
  <2>1. /\ Times(m.from2to[id], x) = relatedCounts[t][<<id, x>>]
        /\ Times(m.from2to[x], id) = relatedCounts[t][<<x, id>>]
    BY <1>2 DEF Paired
  <2>2. Times(m.to2from[id], x) = Times(m.from2to[x], id) BY <1>3 DEF BothWays, Mirrored
  <2>3. QED BY <2>1, <2>2
<1>6. ASSUME NEW s \in Seq(NodeIds), \A x \in NodeIds : Times(s, x) = 0 PROVE Len(s) = 0
  <2>1. SUFFICES ASSUME Len(s) # 0 PROVE FALSE OBVIOUS
  <2>2. 1 \in 1 .. Len(s) /\ s[1] \in NodeIds BY <2>1
  <2>3. Holds(s, s[1]) BY <2>2 DEF Holds
  <2>4. Times(s, s[1]) # 0 BY <2>3, TimesTyped
  <2>5. QED BY <1>6, <2>2, <2>4
<1>7. Len(m.from2to[id]) = 0 /\ Len(m.to2from[id]) = 0 BY <1>4, <1>5, <1>6
<1>8. QED BY <1>m, <1>7 DEF FromSize, ToSize

\* A node none of whose triples is in the books has no relationships.
LEMMA LonelyDetached ==
  ASSUME ActionsInv, TidyInv, NEW n \in Names, nodeKeys[n] \in NodeIds,
         \A e \in Triples : Belongs(n, e) => held[e] = 0
  PROVE  Detached(n)
<1>id. PICK id : id = nodeKeys[n] OBVIOUS
<1>1. RelsInv /\ NodesTyped /\ IndexInv /\ ListInv /\ Homed /\ Books
  BY InvTypes DEF TidyInv, NamedInv
<1>2. KnownTypes \subseteq Types BY <1>1 DEF RelsInv, CountsTyped
<1>3. ASSUME NEW t \in KnownTypes, NEW x \in NodeIds
      PROVE  relatedCounts[t][<<id, x>>] = 0 /\ relatedCounts[t][<<x, id>>] = 0
  <2>1. CASE ~ Used(x) BY <1>1, <1>id, <2>1 DEF Homed
  <2>2. CASE Used(x)
    <3>1. PICK m \in Names : nodeKeys[m] = x BY <2>2 DEF Used
    <3>a. PICK a : a = <<t, n, m>> OBVIOUS
    <3>b. PICK b : b = <<t, m, n>> OBVIOUS
    <3>2. a \in Triples /\ b \in Triples BY <1>2, <3>a, <3>b DEF Triples
    <3>3. Belongs(n, a) /\ Belongs(n, b) BY <3>a, <3>b DEF Belongs
    <3>4. HeldAt(a) = 0 /\ HeldAt(b) = 0 BY <1>1, <3>2, <3>3 DEF Books
    <3>5. id # -1 /\ x # -1 BY <1>id DEF NodeIds
    <3>6. /\ Source(a) = id /\ Target(a) = x /\ Source(b) = x /\ Target(b) = id
          /\ a[1] = t /\ b[1] = t
      BY <1>id, <3>1, <3>a, <3>b DEF Source, Target
    <3>7. QED BY <3>4, <3>5, <3>6 DEF HeldAt, CountAt
  <2>3. QED BY <2>1, <2>2
<1>4. \A t \in KnownTypes : FromSize(related[t], id) = 0 /\ ToSize(related[t], id) = 0
  BY <1>1, <1>3, <1>id, CountsDetached
<1>5. QED BY <1>4, <1>id DEF Detached

LEMMA NodeGoneBooks ==
  ASSUME ActionsInv, TidyInv, NEW n \in Names, nodeKeys' = ForgetKey(n),
         UNCHANGED relatedCounts, KnownTypes' = KnownTypes,
         \A e \in Triples : Belongs(n, e) => held[e] = 0,
         posted' = posted \ {n}, held' = held
  PROVE  Books'
<1>1. NodesTyped /\ Books BY InvTypes DEF TidyInv
<1>2. nodeKeys'[n] = -1 /\ \A m \in Names : m # n => nodeKeys'[m] = nodeKeys[m]
  BY <1>1 DEF NodesTyped, ForgetKey
<1>3. LiveNames' = LiveNames \ {n} BY <1>2 DEF LiveNames
<1>4. ASSUME NEW e \in Triples PROVE held[e] = HeldAt(e)'
  <2>1. e[2] \in Names /\ e[3] \in Names BY DEF Triples
  <2>2. CASE ~ Belongs(n, e)
    <3>1. Source(e)' = Source(e) /\ Target(e)' = Target(e)
      BY <1>2, <2>1, <2>2 DEF Source, Target, Belongs
    <3>2. HeldAt(e)' = HeldAt(e) BY <3>1 DEF HeldAt, CountAt
    <3>3. QED BY <1>1, <3>2 DEF Books
  <2>3. CASE Belongs(n, e)
    <3>1. HeldAt(e)' = 0 BY <1>2, <2>3 DEF HeldAt, Source, Target, Belongs
    <3>2. QED BY <2>3, <3>1
  <2>4. QED BY <2>2, <2>3
<1>5. QED BY <1>1, <1>3, <1>4 DEF Books

LEMMA DeleteNodeSound ==
  ASSUME ActionsInv, alive, NEW n \in Names, HandleDeleteNode(n)
  PROVE  StepSound
<1>c. PICK call : call = <<"removeNode", nodeKeys[n]>> OBVIOUS
<1>1. /\ RemoveNode(call, n)
      /\ Written("DELETE_NODE", n, 1, BySuccess(204, 404), NotFound)
      /\ Entered(IF \E e \in Triples : Belongs(n, e) /\ held[e] > 0 THEN Muddle
                 ELSE posted' = posted \ {n} /\ UNCHANGED <<held, tidy>>)
  BY <1>c DEF HandleDeleteNode
<1>2. "removeNode" \in Ops BY <1>1, <1>c DEF RemoveNode
<1>3. (Nothing \/ RemoveNodeStep) /\ Said BY <1>1, <1>2, RemoveNodeKind
<1>4. NumberingStep /\ RequestStep BY <1>3 DEF NumberingStep, RequestStep
<1>5. Sent(BySuccess(204, 404), NotFound.map) BY <1>1, FoundIs, BySuccessIs, WrittenIs
<1>6. Answered BY <1>5 DEF Sent
<1>7. CASE nodeKeys[n] = -1 /\ Nothing /\ result'.outcome = "refused"
  <2>1. answer'.status \notin Success BY <1>5, <1>7 DEF Sent, BySuccess, Success
  <2>2. UNCHANGED ledger BY <1>1, <2>1 DEF Entered
  <2>3. QED BY <1>3, <1>6, <1>7, <2>2, QuietSound DEF Quiet
<1>8. CASE nodeKeys[n] \in NodeIds /\ RemoveNodeDone(call, n) /\ result'.outcome = "done"
  <2>1. answer'.status \in Success BY <1>5, <1>8 DEF Sent, BySuccess, Success
  <2>2. CASE ~ tidy
    <3>1. UNCHANGED ledger BY <1>1, <2>2 DEF Entered
    <3>2. QED BY <1>3, <1>4, <1>6, <2>2, <3>1, UnbookedSound
  <2>3. CASE tidy /\ \E e \in Triples : Belongs(n, e) /\ held[e] > 0
    <3>1. Muddle BY <1>1, <2>1, <2>3 DEF Entered
    <3>2. QED BY <1>3, <1>4, <1>6, <3>1, MuddledSound
  <2>4. CASE tidy /\ ~ \E e \in Triples : Belongs(n, e) /\ held[e] > 0
    <3>1. posted' = posted \ {n} /\ held' = held /\ tidy' = tidy
      BY <1>1, <2>1, <2>4 DEF Entered
    <3>2. TidyInv BY <2>4 DEF ActionsInv
    <3>3. \A e \in Triples : Belongs(n, e) => held[e] = 0
      BY <2>4 DEF ActionsInv, LedgerTyped
    <3>4. Detached(n) BY <1>8, <3>2, <3>3, LonelyDetached
    <3>5. RemoveDetachedStep BY <1>8, <3>4 DEF RemoveDetachedStep
    <3>6. UNCHANGED relatedCounts /\ nodeKeys' = ForgetKey(n) /\ KnownTypes' = KnownTypes
      BY <1>8 DEF RemoveNodeDone, DetachTypes, KnownTypes
    <3>7. Books' BY <3>1, <3>2, <3>3, <3>6, NodeGoneBooks
    <3>8. LedgerTyped' BY <1>6, <3>1 DEF ActionsInv, LedgerTyped, Answered
    <3>9. BookedStep BY <3>5 DEF BookedStep
    <3>10. QED BY <1>3, <1>6, <2>4, <3>7, <3>8, <3>9, BookedSound
  <2>5. QED BY <2>2, <2>3, <2>4
<1>9. QED BY <1>1, <1>7, <1>8, RemoveNodeIs

-----------------------------------------------------------------------------
(* What the read-back of a new relationship finds *)

\* A read of number 1 throws for a type without relationships only.
ReadsOne ==
  \A e \in Triples :
    /\ Source(e) = -1 \/ Target(e) = -1 => ReadRelationship(e, 1, FALSE) = Found(Null)
    /\ e[1] \in KnownTypes => ReadRelationship(e, 1, FALSE).outcome # "threw"

LEMMA ReadsOneHolds == NodesTyped /\ RelsInv /\ CountsKeyed => ReadsOne
<1>1. SUFFICES ASSUME NodesTyped, RelsInv, CountsKeyed, NEW e \in Triples
               PROVE  /\ Source(e) = -1 \/ Target(e) = -1 =>
                           ReadRelationship(e, 1, FALSE) = Found(Null)
                      /\ e[1] \in KnownTypes => ReadRelationship(e, 1, FALSE).outcome # "threw"
  BY DEF ReadsOne
<1>s. PICK s : s = Source(e) OBVIOUS
<1>d. PICK d : d = Target(e) OBVIOUS
<1>t. PICK t : t = e[1] OBVIOUS
<1>2. ReadRelationship(e, 1, FALSE) = GetRelationship(t, s, d)
  BY <1>s, <1>d, <1>t DEF ReadRelationship
<1>3. CASE s = -1 \/ d = -1
  <2>1. Checked(t, s, d, 1) = "refused" BY <1>3 DEF Checked
  <2>2. GetRelationship(t, s, d) = Found(Null) BY <2>1 DEF GetRelationship
  <2>3. Found(Null).outcome # "threw" BY FoundIs
  <2>4. QED BY <1>2, <2>2, <2>3
<1>4. CASE s # -1 /\ d # -1 /\ t \in KnownTypes
  <2>p. PICK pair : pair = <<s, d>> OBVIOUS
  <2>1. s \in NodeIds /\ d \in NodeIds
    BY <1>1, <1>4, <1>s, <1>d DEF NodesTyped, Source, Target, Triples
  <2>2. pair \in Pairs BY <2>1, <2>p DEF Pairs
  <2>3. Checked(t, s, d, 1) # "threw" BY <1>4 DEF Checked
  <2>4. CASE Checked(t, s, d, 1) = "refused"
    <3>1. GetRelationship(t, s, d) = Found(Null) BY <2>4 DEF GetRelationship
    <3>2. Found(Null).outcome # "threw" BY FoundIs
    <3>3. QED BY <1>2, <1>4, <1>s, <1>d, <3>1, <3>2
  <2>5. CASE Checked(t, s, d, 1) # "refused"
    <3>1. relatedCounts[t][pair] \in Nat /\ ~ (relatedCounts[t][pair] < 1)
      BY <1>1, <1>4, <2>2, <2>5, <2>p DEF Checked, RelsInv, CountsTyped, Pairs
    <3>2. Has(relationshipKeys, <<t, 1>>, pair) BY <1>1, <1>4, <2>2, <3>1 DEF CountsKeyed
    <3>i. PICK id : id = RelationshipKeyId(t, 1, s, d) OBVIOUS
    <3>3. id \in RelIds BY <1>1, <2>p, <3>2, <3>i, KeyIdIs DEF RelsInv, KeysAllocated, Has
    <3>4. id + 1 \in DOMAIN relationships BY <1>1, <3>3 DEF RelIds, RelsInv, ListTyped
    <3>5. GetRelationship(t, s, d) = FetchRel(id) BY <2>3, <2>5, <3>i DEF GetRelationship
    <3>6. FetchRel(id).outcome = "done" BY <3>4 DEF FetchRel, Found
    <3>7. QED BY <1>2, <1>4, <1>s, <1>d, <3>5, <3>6
  <2>6. QED BY <2>4, <2>5
<1>5. QED BY <1>3, <1>4, <1>s, <1>d, <1>t

LEMMA ReadsOneNext == (NodesTyped /\ RelsInv /\ CountsKeyed)' => ReadsOne'
BY ReadsOneHolds, PTL

\* A read finds a relationship of the triple exactly when its number is one the
\* triple has.
ReadsHeld ==
  \A e \in Triples : \A k \in Int : \A numbered \in BOOLEAN :
    numbered \/ k = 1 =>
      /\ ReadRelationship(e, k, numbered).map # Null <=> k \in 1 .. HeldAt(e)
      /\ ReadRelationship(e, k, numbered).map # Null =>
           /\ ReadRelationship(e, k, numbered).outcome = "done"
           /\ ReadRelationship(e, k, numbered).map.type = e[1]
           /\ ReadRelationship(e, k, numbered).map.from = Source(e)
           /\ ReadRelationship(e, k, numbered).map.to = Target(e)

\* What the key of a number leads to.
LeadsTo(found, t, s, d, k, count) ==
  /\ found.map # Null <=> k \in 1 .. count
  /\ found.map # Null =>
       /\ found.outcome = "done" /\ found.map.type = t
       /\ found.map.from = s /\ found.map.to = d

LEMMA KeyLeads ==
  ASSUME RelsInv, NumberInv, KeyInv, NEW t, NEW s \in NodeIds, NEW d \in NodeIds, NEW k \in Int
  PROVE  LeadsTo(FetchRel(RelationshipKeyId(t, k, s, d)), t, s, d, k, CountAt(t, <<s, d>>))
<1>p. PICK pair : pair = <<s, d>> OBVIOUS
<1>i. PICK id : id = RelationshipKeyId(t, k, s, d) OBVIOUS
<1>1. pair \in Pairs /\ pair[1] = s /\ pair[2] = d BY <1>p DEF Pairs
<1>2. CASE Has(relationshipKeys, <<t, k>>, pair)
  <2>1. id = relationshipKeys[<<t, k>>][pair] BY <1>2, <1>i, <1>p, KeyIdIs
  <2>2. t \in KnownTypes /\ k \in 1 .. relatedCounts[t][pair] /\ IsOf(id, t, pair)
    BY <1>2, <2>1 DEF KeyInv, KeysLead
  <2>3. FetchRel(id) = Found(RelRec(id)) /\ RelRec(id) # Null
    BY <2>2 DEF IsOf, RelUsable, FetchRel
  <2>4. FetchRel(id).map = RelRec(id) /\ FetchRel(id).outcome = "done" BY <2>3 DEF Found
  <2>5. CountAt(t, pair) = relatedCounts[t][pair] BY <2>2 DEF CountAt
  <2>6. QED BY <1>1, <1>i, <1>p, <2>2, <2>3, <2>4, <2>5 DEF LeadsTo, IsOf
<1>3. CASE ~ Has(relationshipKeys, <<t, k>>, pair)
  <2>1. id = -1 BY <1>3, <1>i, <1>p, KeyIdIs
  <2>2. id + 1 \notin DOMAIN relationships BY <2>1 DEF RelsInv, ListTyped
  <2>3. FetchRel(id).map = Null BY <2>2 DEF FetchRel, Threw
  <2>4. t \in KnownTypes => ~ (k \in 1 .. relatedCounts[t][pair])
    BY <1>1, <1>3 DEF NumberInv, CountsKeyed
  <2>5. k \notin 1 .. CountAt(t, pair) BY <2>4 DEF CountAt
  <2>6. QED BY <1>i, <1>p, <2>3, <2>5 DEF LeadsTo
<1>4. QED BY <1>2, <1>3

LEMMA ReadsHeldHolds == NodesTyped /\ RelsInv /\ NumberInv /\ KeyInv => ReadsHeld
<1>1. SUFFICES ASSUME NodesTyped, RelsInv, NumberInv, KeyInv, NEW e \in Triples, NEW k \in Int,
                      NEW numbered \in BOOLEAN, numbered \/ k = 1
               PROVE  LeadsTo(ReadRelationship(e, k, numbered), e[1], Source(e), Target(e), k,
                              HeldAt(e))
  BY DEF ReadsHeld, LeadsTo
<1>s. PICK s : s = Source(e) OBVIOUS
<1>d. PICK d : d = Target(e) OBVIOUS
<1>t. PICK t : t = e[1] OBVIOUS
<1>c. PICK c : c = HeldAt(e) OBVIOUS
<1>f. PICK found : found = ReadRelationship(e, k, numbered) OBVIOUS
<1>2. found = IF numbered THEN GetRelationshipNumber(t, s, d, k) ELSE GetRelationship(t, s, d)
  BY <1>f, <1>s, <1>d, <1>t DEF ReadRelationship
<1>3. CASE s = -1 \/ d = -1
  <2>1. c = 0 BY <1>3, <1>s, <1>d, <1>c DEF HeldAt
  <2>2. Checked(t, s, d, 1) = "refused" BY <1>3 DEF Checked
  <2>3. found = Found(Null)
    BY <1>2, <1>3, <2>2 DEF GetRelationshipNumber, GetRelationship
  <2>4. found.map = Null BY <2>3 DEF Found
  <2>5. LeadsTo(found, t, s, d, k, c) BY <2>1, <2>4 DEF LeadsTo
  <2>6. QED BY <1>s, <1>d, <1>t, <1>c, <1>f, <2>5
<1>4. CASE s # -1 /\ d # -1
  <2>p. PICK pair : pair = <<s, d>> OBVIOUS
  <2>1. s \in NodeIds /\ d \in NodeIds
    BY <1>1, <1>4, <1>s, <1>d DEF NodesTyped, Source, Target, Triples
  <2>2. c = CountAt(t, pair) BY <1>4, <1>s, <1>d, <1>t, <1>c, <2>p DEF HeldAt
  <2>3. LeadsTo(FetchRel(RelationshipKeyId(t, k, s, d)), t, s, d, k, c)
    BY <1>1, <2>1, <2>2, <2>p, KeyLeads
  <2>4. CASE numbered
    <3>1. found = FetchRel(RelationshipKeyId(t, k, s, d))
      BY <1>2, <1>4, <2>4 DEF GetRelationshipNumber
    <3>2. QED BY <1>s, <1>d, <1>t, <1>c, <1>f, <2>3, <3>1
  <2>5. CASE ~ numbered
    <3>1. k = 1 /\ found = GetRelationship(t, s, d) BY <1>1, <1>2, <2>5
    <3>2. pair \in Pairs BY <2>1, <2>p DEF Pairs
    <3>3. t \in KnownTypes => c = relatedCounts[t][pair] /\ c \in Nat
      BY <1>1, <2>2, <3>2 DEF CountAt, RelsInv, CountsTyped, Pairs
    <3>4. CASE t \notin KnownTypes
      <4>1. c = 0 BY <2>2, <3>4 DEF CountAt
      <4>2. Checked(t, s, d, 1) = "threw" BY <1>4, <3>4 DEF Checked
      <4>3. found = Threw BY <3>1, <4>2 DEF GetRelationship
      <4>4. found.map = Null BY <4>3 DEF Threw
      <4>5. LeadsTo(found, t, s, d, k, c) BY <4>1, <4>4 DEF LeadsTo
      <4>6. QED BY <1>s, <1>d, <1>t, <1>c, <1>f, <4>5
    <3>5. CASE t \in KnownTypes /\ c = 0
      <4>1. Checked(t, s, d, 1) = "refused" BY <1>4, <2>p, <3>3, <3>5 DEF Checked
      <4>2. found = Found(Null) BY <3>1, <4>1 DEF GetRelationship
      <4>3. found.map = Null BY <4>2 DEF Found
      <4>4. LeadsTo(found, t, s, d, k, c) BY <3>5, <4>3 DEF LeadsTo
      <4>5. QED BY <1>s, <1>d, <1>t, <1>c, <1>f, <4>4
    <3>6. CASE t \in KnownTypes /\ c # 0
      <4>1. Checked(t, s, d, 1) = "found" BY <1>4, <2>p, <3>3, <3>6 DEF Checked
      <4>2. found = FetchRel(RelationshipKeyId(t, 1, s, d))
        BY <3>1, <4>1 DEF GetRelationship
      <4>3. QED BY <1>s, <1>d, <1>t, <1>c, <1>f, <2>3, <3>1, <4>2
    <3>7. QED BY <3>4, <3>5, <3>6
  <2>6. QED BY <2>4, <2>5
<1>5. QED BY <1>3, <1>4

LEMMA ReadsHeldNext == (NodesTyped /\ RelsInv /\ NumberInv /\ KeyInv)' => ReadsHeld'
BY ReadsHeldHolds, PTL

-----------------------------------------------------------------------------
(* A relationship is created *)

\* The triple has change more relationships, and no other pair another count.
PairChange(e, change) ==
  /\ UNCHANGED nodeKeys /\ KnownTypes' = KnownTypes \cup {e[1]}
  /\ HeldAt(e) \in Nat /\ HeldAt(e)' = HeldAt(e) + change
  /\ \A u \in KnownTypes', q \in Pairs :
       relatedCounts'[u][q] = IF u = e[1] /\ q = <<Source(e), Target(e)>>
                              THEN HeldAt(e) + change ELSE CountAt(u, q)

LEMMA PairBooks ==
  ASSUME ActionsInv, TidyInv, NEW e \in Triples, NEW change \in Int,
         Source(e) \in NodeIds, Target(e) \in NodeIds, PairChange(e, change), Book(e, change)
  PROVE  Books'
<1>c. PICK c : c = HeldAt(e) + change OBVIOUS
<1>a. /\ UNCHANGED nodeKeys /\ KnownTypes' = KnownTypes \cup {e[1]} /\ HeldAt(e)' = c
      /\ \A u \in KnownTypes', q \in Pairs :
           relatedCounts'[u][q] = IF u = e[1] /\ q = <<Source(e), Target(e)>> THEN c
                                  ELSE CountAt(u, q)
  BY <1>c DEF PairChange
<1>b. posted' = posted /\ held' = [held EXCEPT ![e] = @ + change] BY DEF Book
<1>1. NodesTyped /\ NodeIdsSound /\ Books BY InvTypes DEF TidyInv, ActionsInv
<1>2. held \in [Triples -> Nat] BY DEF ActionsInv, LedgerTyped
<1>3. LiveNames' = LiveNames BY <1>a DEF LiveNames
<1>4. \A f : Source(f)' = Source(f) /\ Target(f)' = Target(f) BY <1>a DEF Source, Target
<1>5. ASSUME NEW f \in Triples PROVE held'[f] = HeldAt(f)'
  <2>1. /\ f[1] \in Types /\ f[2] \in Names /\ f[3] \in Names /\ f = <<f[1], f[2], f[3]>>
        /\ e[2] \in Names /\ e[3] \in Names /\ e = <<e[1], e[2], e[3]>>
    BY DEF Triples
  <2>q. PICK q : q = <<Source(f), Target(f)>> OBVIOUS
  <2>2. CASE Source(f) = -1 \/ Target(f) = -1
    <3>1. HeldAt(f) = 0 /\ HeldAt(f)' = 0 BY <1>4, <2>2 DEF HeldAt
    <3>2. f # e BY <2>2 DEF NodeIds
    <3>3. QED BY <1>1, <1>2, <1>b, <3>1, <3>2 DEF Books
  <2>3. CASE Source(f) # -1 /\ Target(f) # -1
    <3>1. Source(f) \in NodeIds /\ Target(f) \in NodeIds
      BY <1>1, <2>1, <2>3 DEF NodesTyped, Source, Target
    <3>2. q \in Pairs BY <2>q, <3>1 DEF Pairs
    <3>3. HeldAt(f) = CountAt(f[1], q) BY <2>3, <2>q DEF HeldAt
    <3>4. HeldAt(f)' = IF f[1] \in KnownTypes' THEN relatedCounts'[f[1]][q] ELSE 0
      BY <1>4, <2>3, <2>q DEF HeldAt, CountAt
    <3>5. CASE f = e
      <4>1. HeldAt(f)' = c BY <1>a, <3>5
      <4>2. held'[f] = held[e] + change BY <1>2, <1>b, <3>5
      <4>3. QED BY <1>1, <1>c, <3>5, <4>1, <4>2 DEF Books
    <3>6. CASE f # e
      <4>1. ~ (f[1] = e[1] /\ q = <<Source(e), Target(e)>>)
        <5>1. SUFFICES ASSUME f[1] = e[1], q = <<Source(e), Target(e)>> PROVE FALSE OBVIOUS
        <5>2. Source(f) = Source(e) /\ Target(f) = Target(e) BY <2>q, <5>1
        <5>3. e[2] \in LiveNames /\ e[3] \in LiveNames /\ f[2] \in LiveNames /\ f[3] \in LiveNames
          BY <2>1, <2>3, <5>2 DEF LiveNames, Source, Target
        <5>4. f[2] = e[2] /\ f[3] = e[3] BY <1>1, <5>2, <5>3 DEF NodeIdsSound, Source, Target
        <5>5. QED BY <2>1, <3>6, <5>1, <5>4
      <4>2. HeldAt(f)' = CountAt(f[1], q)
        <5>1. CASE f[1] \in KnownTypes' BY <1>a, <3>2, <3>4, <4>1, <5>1
        <5>2. CASE f[1] \notin KnownTypes' BY <1>a, <3>4, <5>2 DEF CountAt
        <5>3. QED BY <5>1, <5>2
      <4>3. held'[f] = held[f] BY <1>2, <1>b, <2>1, <3>6
      <4>4. QED BY <1>1, <3>3, <4>2, <4>3 DEF Books
    <3>7. QED BY <3>5, <3>6
  <2>4. QED BY <2>2, <2>3
<1>6. QED BY <1>1, <1>3, <1>5, <1>b DEF Books

LinkOf(e) ==
  \E shown \in Int, props \in StoredMaps :
    \E call : Link(call, e[1], Source(e), Target(e), shown, props)

PostsTo(e, body, sent) ==
  IF body = Empty THEN AddRelationship(e[1], Source(e), Target(e))
  ELSE AddRelationshipWithProperties(e[1], Source(e), Target(e), body, sent)

LEMMA LinkIs ==
  ASSUME ActionsInv, NEW e \in Triples, NEW body \in Bodies \cup UserMaps, body # Malformed,
         NEW sent \in {0} \cup SentCounts, PostsTo(e, body, sent)
  PROVE  /\ result'.outcome # "threw"
         /\ \/ (Source(e) = -1 \/ Target(e) = -1) /\ Nothing
            \/ Source(e) \in NodeIds /\ Target(e) \in NodeIds /\ LinkOf(e)
<1>s. PICK n1 : n1 = Source(e) OBVIOUS
<1>d. PICK n2 : n2 = Target(e) OBVIOUS
<1>t. PICK t : t = e[1] OBVIOUS
<1>1. n1 \in {-1} \cup NodeIds /\ n2 \in {-1} \cup NodeIds /\ t \in Types /\ TypeOK
  BY <1>s, <1>d, <1>t, InvTypes
<1>2. sent \in Int BY BoundsAssumption
<1>3. CASE \E call : (n1 = -1 \/ n2 = -1) /\ Unchanged(call, "refused")
  BY <1>3, <1>s, <1>d DEF Unchanged, Return, Nothing
<1>4. ASSUME NEW shown \in Int, NEW props \in StoredMaps, NEW call,
             n1 # -1, n2 # -1, Link(call, t, n1, n2, shown, props)
      PROVE  result'.outcome # "threw" /\ n1 \in NodeIds /\ n2 \in NodeIds /\ LinkOf(e)
  <2>1. result'.outcome = "done" BY <1>4 DEF Link, Return
  <2>2. LinkOf(e) BY <1>4, <1>s, <1>d, <1>t DEF LinkOf
  <2>3. QED BY <1>1, <1>4, <2>1, <2>2
<1>5. CASE body = Empty
  <2>1. AddRelationship(t, n1, n2) BY <1>5, <1>s, <1>d, <1>t DEF PostsTo
  <2>2. QED BY <2>1, <1>3, <1>4, <1>s, <1>d, NoPropsStored DEF AddRelationship
<1>6. CASE body # Empty
  <2>1. AddRelationshipWithProperties(t, n1, n2, body, sent)
    BY <1>6, <1>s, <1>d, <1>t DEF PostsTo
  <2>2. body \in StoredMaps BY <1>6, UserMapsStored DEF Bodies
  <2>c. PICK next : next = NextNumber(t, n1, n2) OBVIOUS
  <2>h. PICK shown : shown = IF next > 1 THEN next ELSE sent OBVIOUS
  <2>3. n1 # -1 /\ n2 # -1 => next \in Int BY <1>1, <2>c DEF TypeOK, NextNumber, PairCounts
  <2>4. n1 # -1 /\ n2 # -1 => shown \in Int BY <1>2, <2>3, <2>h
  <2>5. \/ \E call : (n1 = -1 \/ n2 = -1) /\ Unchanged(call, "refused")
        \/ \E call : n1 # -1 /\ n2 # -1 /\ Link(call, t, n1, n2, shown, body)
    BY <2>1, <2>c, <2>h DEF AddRelationshipWithProperties
  <2>6. QED BY <1>3, <1>4, <1>s, <1>d, <2>2, <2>4, <2>5
<1>7. QED BY <1>5, <1>6

LEMMA LinkHeld ==
  ASSUME ActionsInv, TidyInv, NEW e \in Triples, Source(e) \in NodeIds, Target(e) \in NodeIds,
         LinkOf(e)
  PROVE  PairChange(e, 1) /\ LinkUsedStep
<1>s. PICK s : s = Source(e) OBVIOUS
<1>d. PICK d : d = Target(e) OBVIOUS
<1>t. PICK t : t = e[1] OBVIOUS
<1>1. RelsInv /\ CountsKeyed /\ t \in Types BY <1>t, InvTypes DEF TidyInv, NamedInv, NumberInv
<1>2. s \in NodeIds /\ d \in NodeIds BY <1>s, <1>d
<1>3. PICK shown \in Int, props \in StoredMaps :
        \E call : Link(call, e[1], Source(e), Target(e), shown, props)
  BY DEF LinkOf
<1>4. PICK call : Link(call, t, s, d, shown, props) BY <1>3, <1>s, <1>d, <1>t
<1>p. PICK pair : pair = <<s, d>> OBVIOUS
<1>c. PICK c : c = NextNumber(t, s, d) OBVIOUS
<1>5. NumberAdded(t, pair, c, Len(relationships)) BY <1>1, <1>2, <1>4, <1>p, <1>c, LinkAdds
<1>6. /\ KnownTypes' = KnownTypes \cup {t} /\ pair \in Pairs
      /\ c = CountAt(t, pair) + 1 /\ CountAt(t, pair) \in Nat
      /\ \A u \in KnownTypes', q \in Pairs :
           relatedCounts'[u][q] = IF u = t /\ q = pair THEN c ELSE CountAt(u, q)
  BY <1>1, <1>5 DEF NumberAdded, CountAt, CountsKeyed
<1>7. s # -1 /\ d # -1 BY <1>2 DEF NodeIds
<1>8. HeldAt(e) = CountAt(t, pair) BY <1>7, <1>s, <1>d, <1>t, <1>p DEF HeldAt
<1>9. UNCHANGED nodeKeys BY <1>4 DEF Link, nodeVars
<1>10. HeldAt(e)' = relatedCounts'[t][pair]
  BY <1>6, <1>7, <1>9, <1>s, <1>d, <1>t, <1>p DEF HeldAt, CountAt, Source, Target
<1>11. HeldAt(e)' = c BY <1>6, <1>10
<1>12. PairChange(e, 1)
  <2>1. \A u \in KnownTypes', q \in Pairs :
          relatedCounts'[u][q] = IF u = e[1] /\ q = <<Source(e), Target(e)>>
                                 THEN HeldAt(e) + 1 ELSE CountAt(u, q)
    BY <1>6, <1>8, <1>s, <1>d, <1>t, <1>p
  <2>2. QED BY <1>6, <1>8, <1>9, <1>11, <1>t, <2>1 DEF PairChange
<1>13. Used(s) /\ Used(d) BY <1>s, <1>d DEF Used, Source, Target, Triples
<1>14. LinkUsedStep
  <2>1. \E c2 : Used(s) /\ Used(d) /\ Link(c2, t, s, d, shown, props) BY <1>4, <1>13
  <2>2. QED BY <1>1, <1>2, <2>1 DEF LinkUsedStep
<1>15. QED BY <1>12, <1>14

LEMMA PostRelationshipSound ==
  ASSUME ActionsInv, alive, NEW e \in Triples, NEW body \in Bodies \cup UserMaps,
         NEW sent \in {0} \cup SentCounts, HandlePostRelationship(e, body, sent)
  PROVE  StepSound
<1>e. Entered(IF answer'.body = Null THEN UNCHANGED ledger ELSE Book(e, 1))
  BY DEF HandlePostRelationship
<1>1. CASE Throws("POST_RELATIONSHIP", e, 1)
  <2>1. answer'.status = None BY <1>1, ThrowsIs
  <2>2. UNCHANGED ledger BY <1>e, <2>1, NoneIsNoStatus DEF Entered, Success
  <2>3. QED BY <1>1, <2>2, ThrowsSound
<1>2. CASE /\ body # Malformed /\ PostsTo(e, body, sent)
           /\ Written("POST_RELATIONSHIP", e, 1, 201, ReadRelationship(e, 1, FALSE)')
  <2>b. PICK back : back = ReadRelationship(e, 1, FALSE)' OBVIOUS
  <2>1. \/ AddRelationship(e[1], Source(e), Target(e))
        \/ \E m \in UserMaps, c \in {0} \cup SentCounts :
             AddRelationshipWithProperties(e[1], Source(e), Target(e), m, c)
    BY <1>2 DEF PostsTo, Bodies
  <2>2. (Nothing \/ LinkStep) /\ Said BY <2>1, InvTypes, LinkKinds
  <2>3. /\ result'.outcome # "threw"
        /\ \/ (Source(e) = -1 \/ Target(e) = -1) /\ Nothing
           \/ Source(e) \in NodeIds /\ Target(e) \in NodeIds /\ LinkOf(e)
    BY <1>2, LinkIs
  <2>4. NumberingStep /\ RequestStep BY <2>2 DEF NumberingStep, RequestStep
  <2>5. TypeInv' BY <2>2, <2>4, GraphKept
  <2>6. CountsKeyed' BY <2>4, CountsKept DEF ActionsInv
  <2>7. NodesTyped' /\ RelsInv' BY <2>5, TypeInvPartsNext
  <2>8. ReadsOne' BY <2>6, <2>7, ReadsOneNext
  <2>9. CASE (Source(e) = -1 \/ Target(e) = -1) /\ Nothing
    <3>1. Source(e)' = -1 \/ Target(e)' = -1 BY <2>9 DEF Nothing, nodeVars, Source, Target
    <3>2. back = Found(Null)' BY <2>8, <2>b, <3>1 DEF ReadsOne
    <3>3. back = Found(Null) BY <3>2 DEF Found
    <3>4. back.outcome = "done" /\ back.map = Null BY <3>3, FoundIs
    <3>5. Sent(201, Null) BY <1>2, <2>b, <3>4, WrittenIs
    <3>6. Answered /\ answer'.body = Null BY <2>3, <3>5 DEF Sent
    <3>7. UNCHANGED ledger BY <1>e, <3>6 DEF Entered
    <3>8. QED BY <2>2, <2>9, <3>6, <3>7, QuietSound DEF Quiet
  <2>10. CASE Source(e) \in NodeIds /\ Target(e) \in NodeIds /\ LinkOf(e)
    <3>1. e[1] \in KnownTypes'
      <4>1. PICK shown \in Int, props \in StoredMaps :
              \E call : Link(call, e[1], Source(e), Target(e), shown, props)
        BY <2>10 DEF LinkOf
      <4>2. related' = MapPut(related, e[1],
                              Put(RelatedOf(e[1]), Source(e), Target(e), NextRelId))
        BY <4>1 DEF Link
      <4>3. QED BY <4>2 DEF MapPut, KnownTypes
    <3>2. back.outcome # "threw" BY <2>8, <2>b, <3>1 DEF ReadsOne
    <3>3. Sent(201, back.map) BY <1>2, <2>b, <3>2, WrittenIs
    <3>4. Answered /\ answer'.status = 201 /\ answer'.body = back.map BY <2>3, <3>3 DEF Sent
    <3>5. CASE ~ tidy
      <4>1. UNCHANGED ledger BY <1>e, <3>5 DEF Entered
      <4>2. QED BY <2>2, <2>4, <3>4, <3>5, <4>1, UnbookedSound
    <3>6. CASE tidy
      <4>1. TidyInv BY <3>6 DEF ActionsInv
      <4>2. back.map # Null => Book(e, 1) BY <1>e, <3>4, <3>6 DEF Entered, Success
      <4>3. back.map # Null
        <5>1. LinkUsedStep BY <2>10, <4>1, LinkHeld
        <5>2. BookedStep BY <5>1 DEF BookedStep
        <5>3. NamedInv' BY <2>2, <4>1, <5>2, TidyKept
        <5>4. NumberInv' /\ KeyInv' BY <5>3 DEF NamedInv
        <5>5. ReadsHeld' BY <2>7, <5>4, ReadsHeldNext
        <5>6. HeldAt(e)' = HeldAt(e) + 1 /\ HeldAt(e) \in Nat
          BY <2>10, <4>1, LinkHeld DEF PairChange
        <5>7. 1 \in 1 .. HeldAt(e)' BY <5>6
        <5>8. 1 \in Int /\ FALSE \in BOOLEAN OBVIOUS
        <5>9. ReadRelationship(e, 1, FALSE)'.map # Null <=> 1 \in 1 .. HeldAt(e)'
          BY <5>5, <5>8 DEF ReadsHeld
        <5>10. QED BY <2>b, <5>7, <5>9
      <4>4. Book(e, 1) BY <4>2, <4>3
      <4>5. PairChange(e, 1) /\ LinkUsedStep BY <2>10, <4>1, LinkHeld
      <4>9. Books' BY <2>10, <4>1, <4>4, <4>5, PairBooks
      <4>6. BookedStep BY <4>5 DEF BookedStep
      <4>7. LedgerTyped'
        <5>1. held \in [Triples -> Nat] /\ posted \subseteq Names /\ alive' \in BOOLEAN
          BY <3>4 DEF ActionsInv, LedgerTyped, Answered
        <5>2. held' = [held EXCEPT ![e] = @ + 1] /\ posted' = posted /\ tidy' = tidy
          BY <4>4 DEF Book
        <5>3. held' \in [Triples -> Nat] BY <5>1, <5>2
        <5>4. QED BY <3>6, <5>1, <5>2, <5>3 DEF LedgerTyped
      <4>8. QED BY <2>2, <3>4, <3>6, <4>6, <4>7, <4>9, BookedSound
    <3>7. QED BY <3>5, <3>6
  <2>11. QED BY <2>3, <2>9, <2>10
<1>3. QED BY <1>1, <1>2 DEF HandlePostRelationship, PostsTo
-----------------------------------------------------------------------------
(* A relationship is deleted *)

\* A request names number k; without a number in the path it means 1.
Asked(k, numbered) == k \in Int /\ (numbered => k \in Numbers) /\ (~ numbered => k = 1)

Removes(e, k, numbered) ==
  IF numbered THEN RemoveRelationshipNumber(e[1], Source(e), Target(e), k)
  ELSE RemoveRelationship(e[1], Source(e), Target(e))

\* Number j of the triple goes: the last one if the path has no number.
Removal(e, k, numbered) ==
  /\ e[1] \in KnownTypes /\ Source(e) \in NodeIds /\ Target(e) \in NodeIds
  /\ HeldAt(e) = relatedCounts[e[1]][<<Source(e), Target(e)>>]
  /\ HeldAt(e) \in Nat \ {0} /\ k <= HeldAt(e)
  /\ \E j \in Int : \E call :
       /\ j = IF numbered THEN k ELSE HeldAt(e)
       /\ RemoveNumber(call, e[1], Source(e), Target(e), j)

LEMMA RemoveIs ==
  ASSUME ActionsInv, NEW e \in Triples, NEW numbered \in BOOLEAN, NEW k, Asked(k, numbered),
         Removes(e, k, numbered)
  PROVE  \/ Nothing /\ result'.outcome = "refused" /\ k \notin 1 .. HeldAt(e)
         \/ Removal(e, k, numbered)
<1>s. PICK s : s = Source(e) OBVIOUS
<1>d. PICK d : d = Target(e) OBVIOUS
<1>t. PICK t : t = e[1] OBVIOUS
<1>h. PICK h : h = HeldAt(e) OBVIOUS
<1>c. PICK c : c = relatedCounts[t][<<s, d>>] OBVIOUS
<1>1. s \in {-1} \cup NodeIds /\ d \in {-1} \cup NodeIds /\ t \in Types /\ TypeOK
  BY <1>s, <1>d, <1>t, InvTypes
<1>2. k \in Int BY DEF Asked
<1>3. h = IF s # -1 /\ d # -1 /\ t \in KnownTypes THEN c ELSE 0
  BY <1>s, <1>d, <1>t, <1>h, <1>c DEF HeldAt, CountAt
<1>4. s # -1 /\ d # -1 /\ t \in KnownTypes => c \in Nat BY <1>1, <1>c DEF TypeOK
<1>5. Removable(t, s, d, k) <=>
        s # -1 /\ d # -1 /\ t \in KnownTypes /\ ~ (c = 0 \/ c < k)
  BY <1>c DEF Removable, Checked
<1>6. CASE ~ Removable(t, s, d, k)
  <2>1. k \notin 1 .. h BY <1>2, <1>3, <1>4, <1>5, <1>6
  <2>2. \E call : Unchanged(call, "refused")
    BY <1>6, <1>s, <1>d, <1>t DEF Removes, RemoveRelationship, RemoveRelationshipNumber, Asked
  <2>3. QED BY <1>h, <2>1, <2>2 DEF Unchanged, Return, Nothing
<1>7. CASE Removable(t, s, d, k)
  <2>1. s \in NodeIds /\ d \in NodeIds /\ t \in KnownTypes /\ h = c /\ h \in Nat \ {0} /\ k <= h
    BY <1>1, <1>2, <1>3, <1>4, <1>5, <1>7
  <2>2. \E call : RemoveNumber(call, t, s, d, IF numbered THEN k ELSE h)
    BY <1>7, <1>s, <1>d, <1>t, <1>c, <2>1
    DEF Removes, RemoveRelationship, RemoveRelationshipNumber, Asked
  <2>3. \E j \in Int : \E call :
          j = (IF numbered THEN k ELSE h) /\ RemoveNumber(call, t, s, d, j)
    BY <1>2, <2>1, <2>2
  <2>4. QED BY <1>s, <1>d, <1>t, <1>h, <1>c, <2>1, <2>3 DEF Removal
<1>8. QED BY <1>6, <1>7

\* No number below 1 has a key, so removing one throws at the lookup.
LEMMA RemovalThrows ==
  ASSUME ActionsInv, alive, NEW e \in Triples, NEW numbered \in BOOLEAN, NEW k,
         Asked(k, numbered), Removal(e, k, numbered), k < 1
  PROVE  result'.outcome = "threw"
<1>s. PICK s : s = Source(e) OBVIOUS
<1>d. PICK d : d = Target(e) OBVIOUS
<1>t. PICK t : t = e[1] OBVIOUS
<1>1. KeysShaped /\ RelsInv BY InvTypes DEF ActionsInv
<1>2. numbered /\ k \in Int BY DEF Asked
<1>3. PICK call : RemoveNumber(call, t, s, d, k)
  BY <1>2, <1>s, <1>d, <1>t DEF Removal
<1>4. ~ Has(relationshipKeys, <<t, k>>, <<s, d>>)
  <2>1. SUFFICES ASSUME Has(relationshipKeys, <<t, k>>, <<s, d>>) PROVE FALSE OBVIOUS
  <2>2. PICK u \in KnownTypes, j \in 1 .. Len(relationships) : <<t, k>> = <<u, j>>
    BY <1>1, <2>1 DEF KeysShaped
  <2>3. QED BY <1>2, <2>2
<1>i. PICK id : id = RelationshipKeyId(t, k, s, d) OBVIOUS
<1>5. id = -1 BY <1>4, <1>i, KeyIdIs
<1>6. id + 1 \notin DOMAIN relationships BY <1>1, <1>5 DEF RelsInv, ListTyped
<1>7. Return(call, "threw", -1) BY <1>3, <1>6, <1>i DEF RemoveNumber
<1>8. QED BY <1>7 DEF Return

\* Any other removal takes a number the triple has, and throws for a client
\* without books only.
LEMMA RemovalTakes ==
  ASSUME ActionsInv, NEW e \in Triples, NEW numbered \in BOOLEAN, NEW k,
         Asked(k, numbered), Removal(e, k, numbered), k >= 1
  PROVE  /\ RemoveOneStep
         /\ TidyInv => result'.outcome = "done" /\ PairChange(e, -1)
<1>s. PICK s : s = Source(e) OBVIOUS
<1>d. PICK d : d = Target(e) OBVIOUS
<1>t. PICK t : t = e[1] OBVIOUS
<1>p. PICK pair : pair = <<s, d>> OBVIOUS
<1>c. PICK c : c = relatedCounts[t][pair] OBVIOUS
<1>1. /\ t \in KnownTypes /\ s \in NodeIds /\ d \in NodeIds
      /\ HeldAt(e) = c /\ c \in Nat \ {0} /\ k <= c /\ k \in Int /\ (numbered => k \in Numbers)
  BY <1>s, <1>d, <1>t, <1>p, <1>c DEF Removal, Asked
<1>j. PICK j \in Int : \E call : j = (IF numbered THEN k ELSE c) /\ RemoveNumber(call, t, s, d, j)
  BY <1>1, <1>s, <1>d, <1>t DEF Removal
<1>2. PICK call : j = (IF numbered THEN k ELSE c) /\ RemoveNumber(call, t, s, d, j) BY <1>j
<1>3. j >= 1 /\ j <= c /\ j \in Numbers \cup {c} BY <1>1, <1>2
<1>4. RemoveOneStep BY <1>1, <1>2, <1>3, <1>p, <1>c DEF RemoveOneStep
<1>5. ASSUME TidyInv PROVE result'.outcome = "done" /\ PairChange(e, -1)
  <2>1. RelsInv /\ NumberInv /\ KeyInv /\ CountsKeyed
    BY <1>5, InvTypes DEF TidyInv, NamedInv, NumberInv
  <2>2. /\ Return(call, "done", -1) /\ UNCHANGED nodeKeys /\ KnownTypes' = KnownTypes
    BY <1>1, <1>2, <1>3, <1>p, <1>c, <2>1, RemoveNumberDone
  <2>i. PICK id : id = RelationshipKeyId(t, j, s, d) OBVIOUS
  <2>3. NumberFreed(t, pair, j, c, id)
    BY <1>1, <1>2, <1>3, <1>p, <1>c, <2>1, <2>i, RemoveNumberFrees
  <2>4. \A u \in KnownTypes', q \in Pairs :
          relatedCounts'[u][q] = IF u = t /\ q = pair THEN c - 1 ELSE CountAt(u, q)
    BY <2>2, <2>3 DEF NumberFreed, CountAt
  <2>5. s # -1 /\ d # -1 /\ pair \in Pairs BY <1>1, <1>p DEF NodeIds, Pairs
  <2>6. HeldAt(e)' = c - 1
    BY <1>1, <1>s, <1>d, <1>t, <1>p, <2>2, <2>4, <2>5 DEF HeldAt, CountAt, Source, Target
  <2>7. \A u \in KnownTypes', q \in Pairs :
          relatedCounts'[u][q] = IF u = e[1] /\ q = <<Source(e), Target(e)>>
                                 THEN HeldAt(e) + (-1) ELSE CountAt(u, q)
    BY <1>1, <1>s, <1>d, <1>t, <1>p, <2>4
  <2>8. KnownTypes' = KnownTypes \cup {e[1]} /\ HeldAt(e)' = HeldAt(e) + (-1) /\ HeldAt(e) \in Nat
    BY <1>1, <1>t, <2>2, <2>6
  <2>9. QED BY <2>2, <2>7, <2>8 DEF PairChange, Return
<1>6. QED BY <1>4, <1>5

LEMMA DeleteRelationshipSound ==
  ASSUME ActionsInv, alive, NEW e \in Triples, NEW numbered \in BOOLEAN, NEW k,
         Asked(k, numbered), HandleDeleteRelationship(e, k, numbered)
  PROVE  StepSound
<1>1. /\ Removes(e, k, numbered) /\ Entered(Book(e, -1))
      /\ Written("DELETE_RELATIONSHIP", e, k, BySuccess(204, 404), NotFound)
  BY DEF HandleDeleteRelationship, Removes
<1>2. (Nothing \/ RemoveNumberStep) /\ Said
  BY <1>1, InvTypes, RemoveNumberKinds DEF Removes, Asked
<1>3. RequestStep BY <1>2 DEF RequestStep, NumberingStep
<1>4. Sent(BySuccess(204, 404), NotFound.map) BY <1>1, FoundIs, BySuccessIs, WrittenIs
<1>5. Answered BY <1>4 DEF Sent
<1>6. CASE Nothing /\ result'.outcome = "refused"
  <2>1. answer'.status \notin Success BY <1>4, <1>6 DEF Sent, BySuccess, Success
  <2>2. UNCHANGED ledger BY <1>1, <2>1 DEF Entered
  <2>3. QED BY <1>2, <1>5, <1>6, <2>2, QuietSound DEF Quiet
<1>7. CASE Removal(e, k, numbered) /\ k < 1
  <2>1. result'.outcome = "threw" BY <1>7, RemovalThrows
  <2>2. answer'.status = None /\ ~ alive' BY <1>4, <2>1 DEF Sent
  <2>3. UNCHANGED ledger BY <1>1, <2>2, NoneIsNoStatus DEF Entered, Success
  <2>4. QED BY <1>2, <1>3, <1>5, <2>2, <2>3, EndedSound
<1>8. CASE Removal(e, k, numbered) /\ k >= 1
  <2>1. RemoveOneStep BY <1>8, RemovalTakes
  <2>2. NumberingStep BY <2>1 DEF NumberingStep
  <2>3. CASE ~ tidy
    <3>1. UNCHANGED ledger BY <1>1, <2>3 DEF Entered
    <3>2. QED BY <1>2, <1>3, <1>5, <2>2, <2>3, <3>1, UnbookedSound
  <2>4. CASE tidy
    <3>1. TidyInv BY <2>4 DEF ActionsInv
    <3>2. result'.outcome = "done" /\ PairChange(e, -1) BY <1>8, <3>1, RemovalTakes
    <3>3. answer'.status \in Success BY <1>4, <3>2 DEF Sent, BySuccess, Success
    <3>4. Book(e, -1) BY <1>1, <2>4, <3>3 DEF Entered
    <3>5. Source(e) \in NodeIds /\ Target(e) \in NodeIds BY <1>8 DEF Removal
    <3>6. -1 \in Int OBVIOUS
    <3>7. Books' BY <3>1, <3>2, <3>4, <3>5, <3>6, PairBooks
    <3>8. LedgerTyped'
      <4>1. held \in [Triples -> Nat] /\ posted \subseteq Names /\ alive' \in BOOLEAN
        BY <1>5 DEF ActionsInv, LedgerTyped, Answered
      <4>2. held' = [held EXCEPT ![e] = @ + (-1)] /\ posted' = posted /\ tidy' = tidy
        BY <3>4 DEF Book
      <4>3. held[e] \in Nat \ {0} BY <1>8, <3>1 DEF TidyInv, Books, Removal
      <4>4. held' \in [Triples -> Nat] BY <4>1, <4>2, <4>3
      <4>5. QED BY <2>4, <4>1, <4>2, <4>4 DEF LedgerTyped
    <3>9. BookedStep BY <2>1 DEF BookedStep
    <3>10. QED BY <1>2, <1>5, <2>4, <3>7, <3>8, <3>9, BookedSound
  <2>5. QED BY <2>3, <2>4
<1>9. k \in Int BY DEF Asked
<1>10. QED BY <1>1, <1>6, <1>7, <1>8, <1>9, RemoveIs

-----------------------------------------------------------------------------
(* Every request *)

LEMMA NodeRequestSound ==
  ASSUME ActionsInv, alive, NodeRequest
  PROVE  StepSound
<1>1. PICK n \in Names :
        \/ \E body \in Bodies \cup UserMaps : HandlePostNode(n, body)
        \/ HandleDeleteNode(n)
        \/ HandleGetNode(n)
        \/ \E body \in Bodies \cup PropMaps : HandlePutNodeProperties(n, body)
        \/ HandleDeleteNodeProperties(n)
        \/ \E p \in PropNames :
             \/ \E body \in Bodies \cup Values : HandlePutNodeProperty(n, p, body)
             \/ HandleDeleteNodeProperty(n, p)
        \/ \E p \in UserNames : HandleGetNodeProperty(n, p)
  BY DEF NodeRequest
<1>2. CASE \E body \in Bodies \cup UserMaps : HandlePostNode(n, body) BY <1>2, PostNodeSound
<1>3. CASE HandleDeleteNode(n) BY <1>3, DeleteNodeSound
<1>4. CASE HandleGetNode(n) BY <1>4, ReadSound DEF HandleGetNode
<1>5. CASE \E body \in Bodies \cup PropMaps : HandlePutNodeProperties(n, body)
  BY <1>5, PutNodePropertiesSound
<1>6. CASE HandleDeleteNodeProperties(n) BY <1>6, DeleteNodePropertiesSound
<1>7. CASE \E p \in PropNames :
             \/ \E body \in Bodies \cup Values : HandlePutNodeProperty(n, p, body)
             \/ HandleDeleteNodeProperty(n, p)
  BY <1>7, NodePropertySound
<1>8. CASE \E p \in UserNames : HandleGetNodeProperty(n, p)
  BY <1>8, ReadSound DEF HandleGetNodeProperty
<1>9. QED BY <1>1, <1>2, <1>3, <1>4, <1>5, <1>6, <1>7, <1>8

LEMMA NumberRequestSound ==
  ASSUME ActionsInv, alive, NEW e \in Triples, NEW numbered \in BOOLEAN, NEW k,
         Asked(k, numbered), NumberRequest(e, k, numbered)
  PROVE  StepSound
<1>1. CASE HandleDeleteRelationship(e, k, numbered) BY <1>1, DeleteRelationshipSound
<1>2. CASE HandleGetRelationship(e, k, numbered) BY <1>2, ReadSound DEF HandleGetRelationship
<1>3. CASE \E body \in Bodies \cup PropMaps :
             HandlePutRelationshipProperties(e, k, numbered, body)
  BY <1>3, PutRelationshipPropertiesSound
<1>4. CASE HandleDeleteRelationshipProperties(e, k, numbered)
  BY <1>4, DeleteRelationshipPropertiesSound
<1>5. CASE \E p \in PropNames :
             \/ \E body \in Bodies \cup Values : HandlePutRelationshipProperty(e, k, p, body)
             \/ HandleDeleteRelationshipProperty(e, k, numbered, p)
  BY <1>5, RelationshipPropertySound
<1>6. CASE \E p \in UserNames : HandleGetRelationshipProperty(e, k, p)
  BY <1>6, ReadSound DEF HandleGetRelationshipProperty
<1>7. QED BY <1>1, <1>2, <1>3, <1>4, <1>5, <1>6 DEF NumberRequest

LEMMA RelationshipRequestSound ==
  ASSUME ActionsInv, alive, RelationshipRequest
  PROVE  StepSound
<1>1. PICK e \in Triples :
        \/ \E body \in Bodies \cup UserMaps, sent \in {0} \cup SentCounts :
             HandlePostRelationship(e, body, sent)
        \/ NumberRequest(e, 1, FALSE)
        \/ \E k \in Numbers : NumberRequest(e, k, TRUE)
        \/ HandleGetRelatedByType(e)
  BY DEF RelationshipRequest
<1>2. CASE \E body \in Bodies \cup UserMaps, sent \in {0} \cup SentCounts :
             HandlePostRelationship(e, body, sent)
  BY <1>2, PostRelationshipSound
<1>3. CASE NumberRequest(e, 1, FALSE)
  <2>1. Asked(1, FALSE) BY DEF Asked
  <2>2. QED BY <1>3, <2>1, NumberRequestSound
<1>4. CASE \E k \in Numbers : NumberRequest(e, k, TRUE)
  <2>1. \A k \in Numbers : Asked(k, TRUE) BY BoundsAssumption DEF Asked
  <2>2. QED BY <1>4, <2>1, NumberRequestSound
<1>5. CASE HandleGetRelatedByType(e) BY <1>5, ReadSound DEF HandleGetRelatedByType
<1>6. QED BY <1>1, <1>2, <1>3, <1>4, <1>5

LEMMA OtherRequestSound ==
  ASSUME ActionsInv, alive, OtherRequest
  PROVE  StepSound
<1>1. \E action, on, k, found : Read(action, on, k, found)
  BY DEF OtherRequest, HandleGetRelated, HandleGetRelationshipTypeCount,
         HandleGetRelationshipTypes, HandleGetRelationshipTypesCount, HandleNoOp
<1>2. QED BY <1>1, ReadSound

LEMMA ActionsStep == ActionsInv /\ ActionsNext => StepSound
BY NodeRequestSound, RelationshipRequestSound, OtherRequestSound DEF ActionsNext

LEMMA ActionsInvInit == ActionsInit => ActionsInv
<1> SUFFICES ASSUME ActionsInit PROVE ActionsInv OBVIOUS
<1>1. Init BY DEF ActionsInit
<1>2. TypeInv /\ IndexInv /\ KeyInv /\ ListInv
  BY <1>1, TypeInvInit, IndexInvInit, NamedInvInit
<1>3. LiveNames = {} /\ NodeIdsSound /\ NodeOwnRecord
  BY <1>1 DEF Init, LiveNames, NodeIdsSound, NodeOwnRecord
<1>4. /\ relationshipKeys = <<>> /\ relationships = <<>> /\ KnownTypes = {}
  BY <1>1 DEF Init, KnownTypes
<1>5. DOMAIN relationshipKeys = {} /\ Len(relationships) = 0 /\ DOMAIN relationships = {}
  BY <1>4
<1>h. \A key, pair : ~ Has(relationshipKeys, key, pair) BY <1>5 DEF Has
<1>6. NumberInv /\ LiveInv
  <2>1. KeysShaped /\ SpareKeysDead BY <1>h DEF KeysShaped, SpareKeysDead
  <2>2. CountsKeyed /\ LiveInv BY <1>4, <1>5 DEF CountsKeyed, LiveInv
  <2>3. ListBounded BY <1>5, BoundsAssumption DEF ListBounded
  <2>4. QED BY <2>1, <2>2, <2>3 DEF NumberInv
<1>7. Homed /\ \A e \in Triples : HeldAt(e) = 0 BY <1>4 DEF Homed, HeldAt, CountAt
<1>8. Books BY <1>3, <1>7 DEF ActionsInit, Books
<1>9. TidyInv BY <1>2, <1>3, <1>6, <1>7, <1>8 DEF TidyInv, NamedInv
<1>10. AnswerTyped /\ LedgerTyped BY DEF ActionsInit, AnswerTyped, Statuses, LedgerTyped
<1>11. QED BY <1>2, <1>3, <1>6, <1>9, <1>10 DEF ActionsInv, NumberInv

LEMMA ActionsStutter == ActionsInv /\ UNCHANGED actionVars => ActionsInv'
<1> SUFFICES ASSUME ActionsInv, UNCHANGED actionVars PROVE ActionsInv' OBVIOUS
<1>1. UNCHANGED <<vars, answer, alive, posted, held, tidy>> BY DEF actionVars, ledger
<1>2. Nothing /\ Said BY <1>1, InvTypes, TypeInvParts DEF Nothing, Said, vars, nodeVars, relVars
<1>3. BookedStep BY <1>2 DEF BookedStep
<1>4. NumberingStep /\ RequestStep BY <1>3, BookedKinds
<1>5. TypeInv' /\ IndexInv' /\ NodeIdsSound' BY <1>2, <1>4, GraphKept
<1>6. alive' => KeysShaped' /\ CountsKeyed' BY <1>1, <1>4, CountsKept DEF ActionsInv
<1>7. ASSUME alive', tidy' PROVE TidyInv'
  <2>1. TidyInv BY <1>1, <1>7 DEF ActionsInv
  <2>2. NamedInv' /\ NodeOwnRecord' /\ Homed' BY <1>2, <1>3, <2>1, TidyKept
  <2>3. LiveNames' = LiveNames /\ \A e : HeldAt(e)' = HeldAt(e)
    BY <1>2, QuietIs, SameHeld DEF Quiet
  <2>4. Books' BY <1>1, <2>1, <2>3 DEF TidyInv, Books
  <2>5. QED BY <2>2, <2>4 DEF TidyInv
<1>8. AnswerTyped' /\ LedgerTyped' BY <1>1 DEF ActionsInv, AnswerTyped, LedgerTyped
<1>9. QED BY <1>5, <1>6, <1>7, <1>8 DEF ActionsInv

LEMMA ActionsInvHolds == ActionsSpec => []ActionsInv
<1>1. ActionsInv /\ [ActionsNext]_actionVars => ActionsInv'
  BY ActionsStep, ActionsStutter DEF StepSound
<1>2. QED BY <1>1, ActionsInvInit, PTL DEF ActionsSpec

-----------------------------------------------------------------------------
(* A sum that counts a set *)

\* Where every element of a finite set belongs to one summand, and each summand
\* is the number of its elements, the sum is the number of elements.
LEMMA SumCounts ==
  ASSUME NEW S, IsFiniteSet(S), NEW All, IsFiniteSet(All), NEW f, NEW of \in [All -> S],
         \A x \in S : f[x] = Cardinality({a \in All : of[a] = x})
  PROVE  SumFunctionOnSet(f, S) = Cardinality(All)
<1> DEFINE Under(s) == {a \in All : of[a] \in s}
<1> DEFINE Body(g, s) ==
      IF s = {} THEN 0 ELSE f[CHOOSE y \in s : TRUE] + g[s \ {CHOOSE y \in s : TRUE}]
<1> DEFINE IsSum(g) == g = [s \in SUBSET S |-> Body(g, s)]
<1>1. SumFunctionOnSet(f, S) = (CHOOSE g : IsSum(g))[S]
  BY DEF SumFunctionOnSet, FoldFunctionOnSet, MapThenFoldSet
<1>2. ASSUME NEW s \in SUBSET S, NEW x \in s
      PROVE  /\ Cardinality(Under(s)) = f[x] + Cardinality(Under(s \ {x}))
             /\ f[x] \in Nat
  <2>o. PICK own : own = {a \in All : of[a] = x} OBVIOUS
  <2>r. PICK rest : rest = Under(s \ {x}) OBVIOUS
  <2>1. IsFiniteSet(own) /\ IsFiniteSet(rest)
    <3>1. own \in SUBSET All /\ rest \in SUBSET All BY <2>o, <2>r
    <3>2. QED BY <3>1, FS_Subset
  <2>2. own \cap rest = {} /\ own \cup rest = Under(s) BY <2>o, <2>r
  <2>3. Cardinality(own \cup rest)
          = Cardinality(own) + Cardinality(rest) - Cardinality(own \cap rest)
    BY <2>1, FS_Union
  <2>4. Cardinality(own) \in Nat /\ Cardinality(rest) \in Nat BY <2>1, FS_CardinalityType
  <2>5. Cardinality(own \cap rest) = 0 BY <2>2, FS_EmptySet
  <2>6. f[x] = Cardinality(own) BY <2>o
  <2>7. Cardinality(own \cup rest) = Cardinality(own) + Cardinality(rest)
    BY <2>3, <2>4, <2>5
  <2>8. Cardinality(Under(s)) = Cardinality(own \cup rest) BY <2>2
  <2>9. Cardinality(Under(s \ {x})) = Cardinality(rest) BY <2>r
  <2> HIDE DEF Under
  <2>10. QED BY <2>4, <2>6, <2>7, <2>8, <2>9
<1>3. Cardinality(Under({})) = 0
  <2>1. Under({}) = {} OBVIOUS
  <2> HIDE DEF Under
  <2>2. QED BY <2>1, FS_EmptySet
<1>4. \E g : IsSum(g)
  <2> DEFINE g == [s \in SUBSET S |-> Cardinality(Under(s))]
  <2>1. ASSUME NEW s \in SUBSET S PROVE g[s] = Body(g, s)
    <3>1. CASE s = {} BY <1>3, <3>1
    <3>2. CASE s # {}
      <4>x. PICK x : x = CHOOSE y \in s : TRUE OBVIOUS
      <4>1. x \in s BY <3>2, <4>x
      <4>2. Cardinality(Under(s)) = f[x] + Cardinality(Under(s \ {x})) BY <1>2, <4>1
      <4>3. s \ {x} \in SUBSET S OBVIOUS
      <4> HIDE DEF Under
      <4>4. QED BY <3>2, <4>x, <4>2, <4>3
    <3>3. QED BY <3>1, <3>2
  <2> HIDE DEF Body
  <2>2. IsSum(g)
    <3>1. g = [s \in SUBSET S |-> g[s]] OBVIOUS
    <3> HIDE DEF g
    <3>2. QED BY <2>1, <3>1
  <2> HIDE DEF IsSum
  <2>3. QED BY <2>2
<1>g. PICK g : g = (CHOOSE h : IsSum(h)) OBVIOUS
<1>5. IsSum(g)
  <2> HIDE DEF IsSum
  <2>1. QED BY <1>4, <1>g
<1>6. \A s \in SUBSET S : g[s] = Body(g, s)
  <2> HIDE DEF Body
  <2>1. QED BY <1>5
<1> DEFINE Bad == {n \in Nat : \E s \in SUBSET S :
                     Cardinality(s) = n /\ g[s] # Cardinality(Under(s))}
<1>7. Bad = {}
  <2>1. SUFFICES ASSUME Bad # {} PROVE FALSE OBVIOUS
  <2>2. Bad \subseteq Nat OBVIOUS
  <2>3. PICK n \in Bad : \A m \in Bad : n <= m
    <3> HIDE DEF Bad
    <3>1. QED BY <2>1, <2>2, Least
  <2>4. PICK s \in SUBSET S : Cardinality(s) = n /\ g[s] # Cardinality(Under(s))
    <3> HIDE DEF Under
    <3>1. QED BY <2>3
  <2>5. s # {} BY <1>3, <1>6, <2>4
  <2>x. PICK x : x = CHOOSE y \in s : TRUE OBVIOUS
  <2>6. x \in s BY <2>5, <2>x
  <2>7. IsFiniteSet(s) BY FS_Subset
  <2>8. n \in Nat /\ Cardinality(s \ {x}) = n - 1 /\ n - 1 \in Nat
    <3>1. Cardinality(s \ {x}) = Cardinality(s) - 1 BY <2>6, <2>7, FS_RemoveElement
    <3>2. IsFiniteSet(s \ {x}) BY <2>7, FS_RemoveElement
    <3>3. Cardinality(s \ {x}) \in Nat BY <3>2, FS_CardinalityType
    <3>4. Cardinality(s) \in Nat BY <2>7, FS_CardinalityType
    <3>5. QED BY <2>4, <3>1, <3>3, <3>4
  <2>9. s \ {x} \in SUBSET S OBVIOUS
  <2>10. g[s \ {x}] = Cardinality(Under(s \ {x}))
    <3>1. n - 1 \notin Bad
      <4> HIDE DEF Bad
      <4>1. QED BY <2>3, <2>8
    <3> HIDE DEF Under
    <3>2. QED BY <2>8, <2>9, <3>1
  <2>11. Cardinality(Under(s)) = f[x] + Cardinality(Under(s \ {x})) BY <1>2, <2>6
  <2>12. g[s] = f[x] + g[s \ {x}] BY <1>6, <2>5, <2>x
  <2>13. QED BY <2>4, <2>10, <2>11, <2>12
<1>8. g[S] = Cardinality(Under(S))
  <2>1. Cardinality(S) \in Nat BY FS_CardinalityType
  <2> HIDE DEF Under
  <2>2. QED BY <1>7, <2>1
<1>9. Under(S) = All OBVIOUS
<1> HIDE DEF Under, IsSum
<1>10. QED BY <1>1, <1>g, <1>8, <1>9

\* The triple a relationship belongs to.
Owns(e, id) ==
  Source(e) \in NodeIds /\ Target(e) \in NodeIds /\ IsOf(id, e[1], <<Source(e), Target(e)>>)

OfTriples(t) == {e \in Triples : e[1] = t}

LEMMA LiveOwned ==
  ASSUME ActionsInv, TidyInv, NEW t \in Types, NEW id \in LiveOf(t)
  PROVE  \E e \in OfTriples(t) : Owns(e, id)
<1>1. NumberInv /\ KeyInv /\ Homed /\ NodesTyped BY InvTypes DEF TidyInv, NamedInv
<1>2. PICK pair \in Pairs : id \in RelIds /\ IsOf(id, t, pair) BY DEF LiveOf, OfType
<1>3. PICK k : Has(relationshipKeys, <<t, k>>, pair) /\ relationshipKeys[<<t, k>>][pair] = id
  BY <1>1, <1>2 DEF KeyInv, LiveKeyed, HasNumber
<1>4. t \in KnownTypes /\ k \in 1 .. relatedCounts[t][pair] BY <1>1, <1>3 DEF KeyInv, KeysLead
<1>5. pair[1] \in NodeIds /\ pair[2] \in NodeIds /\ pair = <<pair[1], pair[2]>>
  BY <1>2 DEF Pairs
<1>6. relatedCounts[t][<<pair[1], pair[2]>>] # 0 BY <1>4, <1>5
<1>7. Used(pair[1]) /\ Used(pair[2]) BY <1>1, <1>4, <1>5, <1>6 DEF Homed
<1>8. PICK n \in Names, m \in Names : nodeKeys[n] = pair[1] /\ nodeKeys[m] = pair[2]
  BY <1>7 DEF Used
<1>e. PICK e : e = <<t, n, m>> OBVIOUS
<1>9. e \in OfTriples(t) BY <1>e DEF OfTriples, Triples
<1>10. e[1] = t /\ Source(e) = pair[1] /\ Target(e) = pair[2] BY <1>8, <1>e DEF Source, Target
<1>11. Owns(e, id) BY <1>2, <1>5, <1>10 DEF Owns
<1>12. QED BY <1>9, <1>11

LEMMA OwnedOnce ==
  ASSUME ActionsInv, NEW t \in Types, NEW e \in OfTriples(t), NEW f \in OfTriples(t),
         NEW id, Owns(e, id), Owns(f, id)
  PROVE  e = f
<1>1. /\ e[1] = t /\ e[2] \in Names /\ e[3] \in Names /\ e = <<e[1], e[2], e[3]>>
      /\ f[1] = t /\ f[2] \in Names /\ f[3] \in Names /\ f = <<f[1], f[2], f[3]>>
  BY DEF OfTriples, Triples
<1>2. Source(e) = Source(f) /\ Target(e) = Target(f) BY DEF Owns, IsOf
<1>3. e[2] \in LiveNames /\ e[3] \in LiveNames /\ f[2] \in LiveNames /\ f[3] \in LiveNames
  BY <1>1 DEF LiveNames, Owns, Source, Target, NodeIds
<1>4. e[2] = f[2] /\ e[3] = f[3]
  BY <1>2, <1>3 DEF ActionsInv, NodeIdsSound, Source, Target
<1>5. QED BY <1>1, <1>4

LEMMA OwnedCount ==
  ASSUME ActionsInv, TidyInv, NEW t \in Types, NEW e \in OfTriples(t)
  PROVE  held[e] = Cardinality({id \in LiveOf(t) : Owns(e, id)})
<1>s. PICK s : s = Source(e) OBVIOUS
<1>d. PICK d : d = Target(e) OBVIOUS
<1>p. PICK pair : pair = <<s, d>> OBVIOUS
<1>i. PICK ids : ids = {id \in LiveOf(t) : Owns(e, id)} OBVIOUS
<1>1. RelsInv /\ NumberInv /\ KeyInv /\ Books BY InvTypes DEF TidyInv, NamedInv
<1>2. e \in Triples /\ e[1] = t BY DEF OfTriples
<1>3. s \in {-1} \cup NodeIds /\ d \in {-1} \cup NodeIds BY <1>2, <1>s, <1>d, InvTypes
<1>4. held[e] = HeldAt(e) BY <1>1, <1>2 DEF Books
<1>5. CASE s = -1 \/ d = -1
  <2>1. HeldAt(e) = 0 BY <1>5, <1>s, <1>d DEF HeldAt
  <2>2. ids = {} BY <1>5, <1>s, <1>d, <1>i DEF Owns, NodeIds
  <2>3. QED BY <1>4, <1>i, <2>1, <2>2, FS_EmptySet
<1>6. CASE s \in NodeIds /\ d \in NodeIds
  <2>1. s # -1 /\ d # -1 /\ pair \in Pairs BY <1>6, <1>p DEF NodeIds, Pairs
  <2>2. HeldAt(e) = CountAt(t, pair) BY <1>2, <1>s, <1>d, <1>p, <2>1 DEF HeldAt
  <2>3. \A id : Owns(e, id) <=> IsOf(id, t, pair)
    BY <1>2, <1>6, <1>s, <1>d, <1>p DEF Owns
  <2>4. ids = {id \in RelIds : IsOf(id, t, pair)}
    BY <1>i, <2>1, <2>3 DEF LiveOf, OfType
  <2>5. CASE t \in KnownTypes
    <3>1. Cardinality(ids) = relatedCounts[t][pair] BY <1>1, <2>1, <2>4, <2>5, NumbersCount
    <3>2. QED BY <1>4, <1>i, <2>2, <2>5, <3>1 DEF CountAt
  <2>6. CASE t \notin KnownTypes
    <3>1. CountAt(t, pair) = 0 BY <2>6 DEF CountAt
    <3>2. ASSUME NEW id \in ids PROVE FALSE
      <4>1. id \in RelIds /\ IsOf(id, t, pair) BY <2>4
      <4>2. HasNumber(id, t, pair) BY <1>1, <2>1, <4>1 DEF KeyInv, LiveKeyed
      <4>3. QED BY <1>1, <2>6, <4>2 DEF HasNumber, KeyInv, KeysLead
    <3>3. ids = {} BY <3>2
    <3>4. QED BY <1>4, <1>i, <2>2, <3>1, <3>3, FS_EmptySet
  <2>7. QED BY <2>5, <2>6
<1>7. QED BY <1>3, <1>5, <1>6

LEMMA TriplesFinite ==
  ASSUME IsFiniteSet(Names), NEW t \in Types
  PROVE  IsFiniteSet(OfTriples(t))
<1>1. IsFiniteSet(Names \X Names) BY FS_Product
<1>2. PICK f : f = [e \in OfTriples(t) |-> <<e[2], e[3]>>] OBVIOUS
<1>3. \A e \in OfTriples(t) :
        e[1] = t /\ e[2] \in Names /\ e[3] \in Names /\ e = <<e[1], e[2], e[3]>>
  BY DEF OfTriples, Triples
<1>4. \A e \in OfTriples(t) : f[e] = <<e[2], e[3]>> /\ f[e] \in Names \X Names BY <1>2, <1>3
<1>5. f \in [OfTriples(t) -> Names \X Names] BY <1>2, <1>4
<1>6. ASSUME NEW a \in OfTriples(t), NEW b \in OfTriples(t), f[a] = f[b] PROVE a = b
  <2>1. a[2] = b[2] /\ a[3] = b[3] BY <1>4, <1>6
  <2>2. QED BY <1>3, <2>1
<1>7. f \in Injection(OfTriples(t), Names \X Names)
  BY <1>2, <1>5, <1>6 DEF Injection, IsInjective
<1>8. QED BY <1>1, <1>7, FS_Injection

\* The count of a type is what the client's books add up to.
LEMMA BooksTotal ==
  ASSUME ActionsInv, TidyInv, IsFiniteSet(Names), NEW t \in Types
  PROVE  TypeCount(t) = SumFunctionOnSet(held, OfTriples(t))
<1>S. PICK S : S = OfTriples(t) OBVIOUS
<1>a. PICK all : all = LiveOf(t) OBVIOUS
<1>1. RelsInv /\ KeyInv /\ ListInv BY InvTypes DEF TidyInv, NamedInv
<1>2. IsFiniteSet(S) /\ IsFiniteSet(all) BY <1>1, <1>S, <1>a, TriplesFinite, LiveOfFinite
<1>o. PICK of : of = [id \in all |-> CHOOSE e \in S : Owns(e, id)] OBVIOUS
<1>3. \A id \in all : of[id] \in S /\ Owns(of[id], id)
  <2>1. SUFFICES ASSUME NEW id \in all PROVE of[id] \in S /\ Owns(of[id], id) OBVIOUS
  <2>2. \E e \in S : Owns(e, id) BY <1>S, <1>a, LiveOwned
  <2>3. of[id] = CHOOSE e \in S : Owns(e, id) BY <1>o
  <2>4. QED BY <2>2, <2>3
<1>4. of \in [all -> S] BY <1>3, <1>o
<1>5. \A e \in S : held[e] = Cardinality({id \in all : of[id] = e})
  <2>1. SUFFICES ASSUME NEW e \in S PROVE held[e] = Cardinality({id \in all : of[id] = e})
    OBVIOUS
  <2>2. \A id \in all : Owns(e, id) => of[id] = e BY <1>3, <1>S, OwnedOnce
  <2>3. \A id \in all : of[id] = e => Owns(e, id) BY <1>3
  <2>4. {id \in all : of[id] = e} = {id \in all : Owns(e, id)} BY <2>2, <2>3
  <2>5. held[e] = Cardinality({id \in LiveOf(t) : Owns(e, id)}) BY <1>S, OwnedCount
  <2>6. QED BY <1>a, <2>4, <2>5
<1>6. SumFunctionOnSet(held, S) = Cardinality(all) BY <1>2, <1>4, <1>5, SumCounts
<1>7. TypeCount(t) = Cardinality(all)
  <2>1. CASE t \in KnownTypes BY <1>1, <1>a, <2>1 DEF TypeCount, ListInv, TypesCounted
  <2>2. CASE t \notin KnownTypes
    <3>1. ASSUME NEW id \in all PROVE FALSE
      <4>1. PICK pair \in Pairs : id \in RelIds /\ IsOf(id, t, pair) BY <1>a DEF LiveOf, OfType
      <4>2. HasNumber(id, t, pair) BY <1>1, <4>1 DEF KeyInv, LiveKeyed
      <4>3. QED BY <1>1, <2>2, <4>2 DEF HasNumber, KeyInv, KeysLead
    <3>2. all = {} BY <3>1
    <3>3. QED BY <2>2, <3>2, FS_EmptySet DEF TypeCount
  <2>3. QED BY <2>1, <2>2
<1>8. QED BY <1>S, <1>6, <1>7

-----------------------------------------------------------------------------
(* What the books say *)

LEMMA ReadAnswer ==
  ASSUME NEW action, NEW on, NEW k, NEW found, Read(action, on, k, found),
         NEW a, a = answer'
  PROVE  /\ a.action = action /\ a.on = on /\ a.k = k
         /\ a.status \in Success <=> found.outcome # "threw" /\ found.map # Null
         /\ a.status = None => found.outcome = "threw"
         /\ found.outcome # "threw" => a.body = found.map
BY NoneIsNoStatus DEF Read, Answer, Success

\* A success of a write is its own status, and shows what was read back.
LEMMA WrittenAnswer ==
  ASSUME NEW action, NEW on, NEW k, NEW status, NEW back,
         Written(action, on, k, status, back), NEW a, a = answer'
  PROVE  /\ a.action = action /\ a.on = on /\ a.k = k
         /\ a.status \in Success =>
              a.status = status /\ a.body = back.map /\ result'.outcome # "threw"
         /\ a.status # None => a.status = status
BY NoneIsNoStatus DEF Written, Answer, Success

LEMMA NoWriteAnswer ==
  ASSUME NEW action, NEW on, NEW k, NEW a, a = answer',
         \/ Throws(action, on, k)
         \/ Returns(action, on, k, 304) \/ Returns(action, on, k, 404)
  PROVE  a.action = action /\ a.on = on /\ a.k = k /\ a.status \notin Success
<1>1. \A status : Written(action, on, k, status, NotFound) =>
        /\ a.action = action /\ a.on = on /\ a.k = k
        /\ a.status \in Success => a.status = status
  BY WrittenAnswer
<1>2. CASE Throws(action, on, k) BY <1>1, <1>2, NoneIsNoStatus DEF Throws, Success
<1>3. CASE Returns(action, on, k, 304) BY <1>1, <1>3 DEF Returns, Success
<1>4. CASE Returns(action, on, k, 404) BY <1>1, <1>4 DEF Returns, Success
<1>5. QED BY <1>2, <1>3, <1>4

\* The books say nothing of these requests.
LEMMA FitsAnyway ==
  ASSUME NEW a,
         a.action \in {"POST_NODE", "PUT_NODE_PROPERTIES", "DELETE_NODE_PROPERTIES",
                       "PUT_NODE_PROPERTY", "DELETE_NODE_PROPERTY", "GET_NODE_PROPERTY",
                       "GET_RELATIONSHIP_TYPES", "GET_RELATIONSHIP_TYPES_COUNT", "NOOP"}
  PROVE  Fits(a)
BY DEF Fits, OnNode, OnNumber, OnNumberProperties, Bodiless

LEMMA FitsNode ==
  ASSUME NEW a, a.action \in OnNode, a.status \in Success <=> a.on \in posted
  PROVE  Fits(a)
BY DEF Fits, OnNode, OnNumber, OnNumberProperties, Bodiless

LEMMA FitsPut ==
  ASSUME NEW a, a.action \in {"PUT_RELATIONSHIP_PROPERTIES", "PUT_RELATIONSHIP_PROPERTY"},
         a.status \in Success => a.k \in 1 .. held[a.on],
         a.action = "PUT_RELATIONSHIP_PROPERTIES" /\ a.status = 404 => a.k \notin 1 .. held[a.on]
  PROVE  Fits(a)
BY DEF Fits, OnNode, OnNumber, OnNumberProperties, Bodiless

\* The relationship an answer shows is one of the triple asked for.
Shows(a) ==
  a.status \in Success /\ a.body # Null =>
    a.body.type = a.on[1] /\ a.body.from = Source(a.on) /\ a.body.to = Target(a.on)

LEMMA FitsPost ==
  ASSUME NEW a, Shows(a), a.action = "POST_RELATIONSHIP",
         a.status \in Success => (a.body # Null <=> {a.on[2], a.on[3]} \subseteq posted)
  PROVE  Fits(a)
BY DEF Fits, Shows, OnNode, OnNumber, OnNumberProperties, Bodiless

\* A request without a body is left unanswered only where both nodes exist and the
\* books do not count its number.
LEMMA FitsBodiless ==
  ASSUME NEW a, a.action \in Bodiless, a.action = "GET_RELATIONSHIP" => Shows(a),
         a.status \in Success => a.k \in 1 .. held[a.on],
         a.action \in OnNumber /\ a.k \in 1 .. held[a.on] => a.status \in Success,
         a.status = None => {a.on[2], a.on[3]} \subseteq posted /\ a.k \notin 1 .. held[a.on]
  PROVE  Fits(a)
BY DEF Fits, Shows, OnNode, OnNumber, OnNumberProperties, Bodiless

\* A key of the triple has a number the books count.
LEMMA KeyHeld ==
  ASSUME ActionsInv, TidyInv, NEW e \in Triples, NEW k,
         Has(relationshipKeys, <<e[1], k>>, <<Source(e), Target(e)>>)
  PROVE  e[1] \in KnownTypes /\ Source(e) # -1 /\ Target(e) # -1 /\ k \in 1 .. held[e]
<1>t. PICK t : t = e[1] OBVIOUS
<1>p. PICK pair : pair = <<Source(e), Target(e)>> OBVIOUS
<1>1. KeyInv /\ Books BY DEF TidyInv, NamedInv
<1>2. t \in KnownTypes /\ pair \in Pairs /\ k \in 1 .. relatedCounts[t][pair]
  BY <1>1, <1>t, <1>p DEF KeyInv, KeysLead
<1>3. Source(e) # -1 /\ Target(e) # -1 BY <1>2, <1>p DEF Pairs, NodeIds
<1>4. HeldAt(e) = relatedCounts[t][pair]
  BY <1>2, <1>3, <1>t, <1>p DEF HeldAt, CountAt
<1>5. QED BY <1>1, <1>2, <1>3, <1>4, <1>t DEF Books

LEMMA KeyIdHeld ==
  ASSUME ActionsInv, TidyInv, NEW e \in Triples, NEW k,
         RelationshipKeyId(e[1], k, Source(e), Target(e)) # -1
  PROVE  k \in 1 .. held[e]
BY KeyIdIs, KeyHeld

\* A number the books count passes the checks, and its key leads to a map.
LEMMA HeldFound ==
  ASSUME ActionsInv, TidyInv, NEW e \in Triples, NEW k \in 1 .. held[e],
         NEW id, id = RelationshipKeyId(e[1], k, Source(e), Target(e))
  PROVE  /\ Checked(e[1], Source(e), Target(e), k) = "found"
         /\ RelUsable(id) /\ id \in 0 .. Len(relationships)
<1>s. PICK s : s = Source(e) OBVIOUS
<1>d. PICK d : d = Target(e) OBVIOUS
<1>t. PICK t : t = e[1] OBVIOUS
<1>p. PICK pair : pair = <<s, d>> OBVIOUS
<1>1. RelsInv /\ KeyInv /\ CountsKeyed /\ Books BY InvTypes DEF TidyInv, NamedInv, NumberInv
<1>2. held[e] \in Nat /\ held[e] = HeldAt(e) BY <1>1 DEF ActionsInv, LedgerTyped, Books
<1>3. HeldAt(e) # 0 BY <1>2
<1>4. s # -1 /\ d # -1 /\ t \in KnownTypes /\ HeldAt(e) = relatedCounts[t][pair]
  BY <1>3, <1>s, <1>d, <1>t, <1>p DEF HeldAt, CountAt
<1>5. s \in NodeIds /\ d \in NodeIds BY <1>4, <1>s, <1>d, InvTypes
<1>6. pair \in Pairs BY <1>5, <1>p DEF Pairs
<1>7. k \in 1 .. relatedCounts[t][pair] /\ relatedCounts[t][pair] \in Nat BY <1>2, <1>4
<1>8. Checked(t, s, d, k) = "found" BY <1>4, <1>7, <1>p DEF Checked
<1>9. Has(relationshipKeys, <<t, k>>, pair) BY <1>1, <1>4, <1>6, <1>7 DEF CountsKeyed
<1>10. id = relationshipKeys[<<t, k>>][pair] BY <1>9, <1>s, <1>d, <1>t, <1>p, KeyIdIs
<1>11. id \in RelIds BY <1>1, <1>9, <1>10 DEF RelsInv, KeysAllocated, Has
<1>12. RelUsable(id) BY <1>1, <1>9, <1>10 DEF KeyInv, KeysLead, IsOf
<1>13. id \in 0 .. Len(relationships) BY <1>11 DEF RelIds
<1>14. QED BY <1>8, <1>12, <1>13, <1>s, <1>d, <1>t

LEMMA UsableIsNoMinusOne ==
  ASSUME ActionsInv, NEW id, RelUsable(id)
  PROVE  id # -1
<1>1. ListTyped BY InvTypes DEF RelsInv
<1>2. -1 + 1 \notin DOMAIN relationships BY <1>1 DEF ListTyped
<1>3. QED BY <1>2 DEF RelUsable

\* Number 1 of a pair has a key exactly when the books count a relationship.
LEMMA KeyedIsHeld ==
  ASSUME ActionsInv, TidyInv, NEW e \in Triples
  PROVE  /\ Source(e) # -1 /\ Target(e) # -1 /\ e[1] \in KnownTypes
         /\ <<Source(e), Target(e)>> \in DOMAIN KeyMap(e[1], 1)
         <=> InLedger(e)
<1>t. PICK t : t = e[1] OBVIOUS
<1>p. PICK pair : pair = <<Source(e), Target(e)>> OBVIOUS
<1>1. pair \in DOMAIN KeyMap(t, 1) <=> Has(relationshipKeys, <<t, 1>>, pair)
  <2>1. DOMAIN <<>> = {} OBVIOUS
  <2>2. QED BY <2>1 DEF KeyMap, Has
<1>2. held[e] \in Nat BY DEF ActionsInv, LedgerTyped
<1>3. ASSUME pair \in DOMAIN KeyMap(t, 1) PROVE InLedger(e)
  <2>1. 1 \in 1 .. held[e] BY <1>1, <1>3, <1>t, <1>p, KeyHeld
  <2>2. QED BY <1>2, <2>1 DEF InLedger
<1>4. ASSUME InLedger(e)
      PROVE  Source(e) # -1 /\ Target(e) # -1 /\ t \in KnownTypes /\ pair \in DOMAIN KeyMap(t, 1)
  <2>1. CountsKeyed /\ Books BY DEF TidyInv, NamedInv, NumberInv
  <2>2. HeldAt(e) \in Nat \ {0} BY <1>2, <1>4, <2>1 DEF Books, InLedger
  <2>3. Source(e) # -1 /\ Target(e) # -1 /\ t \in KnownTypes
        /\ HeldAt(e) = relatedCounts[t][pair]
    BY <2>2, <1>t, <1>p DEF HeldAt, CountAt
  <2>4. Source(e) \in NodeIds /\ Target(e) \in NodeIds BY <2>3, InvTypes
  <2>5. pair \in Pairs BY <2>4, <1>p DEF Pairs
  <2>6. 1 \in 1 .. relatedCounts[t][pair] BY <2>2, <2>3
  <2>7. Has(relationshipKeys, <<t, 1>>, pair) BY <2>1, <2>3, <2>5, <2>6 DEF CountsKeyed
  <2>8. QED BY <1>1, <2>3, <2>7
<1>5. QED BY <1>t, <1>p, <1>3, <1>4

LEMMA NodesPosted ==
  ASSUME TidyInv
  PROVE  /\ \A n \in Names : n \in posted <=> nodeKeys[n] # -1
         /\ \A e \in Triples :
              {e[2], e[3]} \subseteq posted <=> Source(e) # -1 /\ Target(e) # -1
BY DEF TidyInv, Books, LiveNames, Triples, Source, Target

\* The checks and the reads do not throw before both nodes are found.
LEMMA ThrowsAreJoined ==
  ASSUME TidyInv, NEW e \in Triples, NEW k, NEW numbered,
         \/ Checked(e[1], Source(e), Target(e), k) # "refused"
         \/ ReadRelationship(e, k, numbered).outcome = "threw"
  PROVE  {e[2], e[3]} \subseteq posted
<1>s. PICK s : s = Source(e) OBVIOUS
<1>d. PICK d : d = Target(e) OBVIOUS
<1>1. ASSUME s = -1 \/ d = -1 PROVE FALSE
  <2>1. Checked(e[1], s, d, k) = "refused" /\ Checked(e[1], s, d, 1) = "refused"
    BY <1>1 DEF Checked
  <2>2. ReadRelationship(e, k, numbered) = Found(Null)
    BY <1>1, <1>s, <1>d, <2>1 DEF ReadRelationship, GetRelationship, GetRelationshipNumber
  <2>3. QED BY <1>s, <1>d, <2>1, <2>2, FoundIs
<1>2. QED BY <1>1, <1>s, <1>d, NodesPosted

\* What a read of the triple shows, in terms of the books.
LEMMA ReadsBooked ==
  ASSUME ActionsInv, TidyInv, NEW e \in Triples, NEW numbered \in BOOLEAN, NEW k,
         Asked(k, numbered), NEW found, found = ReadRelationship(e, k, numbered)
  PROVE  LeadsTo(found, e[1], Source(e), Target(e), k, held[e])
<1>1. NodesTyped /\ RelsInv /\ NumberInv /\ KeyInv /\ Books
  BY InvTypes DEF TidyInv, NamedInv
<1>2. ReadsHeld BY <1>1, ReadsHeldHolds
<1>3. k \in Int /\ (numbered \/ k = 1) BY DEF Asked
<1>4. held[e] = HeldAt(e) BY <1>1 DEF Books
<1>5. QED BY <1>2, <1>3, <1>4 DEF ReadsHeld, LeadsTo

-----------------------------------------------------------------------------
(* Every answer fits the books *)

LEMMA GetNodeFits ==
  ASSUME TidyInv, NEW n \in Names, HandleGetNode(n)
  PROVE  Fits(answer')
<1>a. PICK a : a = answer' OBVIOUS
<1>1. /\ a.action = "GET_NODE" /\ a.on = n
      /\ a.status \in Success <=>
           Found(GetNode(n)).outcome # "threw" /\ Found(GetNode(n)).map # Null
  BY <1>a, ReadAnswer DEF HandleGetNode
<1>2. a.status \in Success <=> GetNode(n) # Null BY <1>1, FoundIs
<1>3. GetNode(n) # Null <=> n \in posted
  BY DEF TidyInv, NodeOwnRecord, Books, LiveNames, GetNode
<1>4. QED BY <1>a, <1>1, <1>2, <1>3, FitsNode DEF OnNode

LEMMA DeleteNodeFits ==
  ASSUME ActionsInv, TidyInv, NEW n \in Names, HandleDeleteNode(n)
  PROVE  Fits(answer')
<1>a. PICK a : a = answer' OBVIOUS
<1>c. PICK call : call = <<"removeNode", nodeKeys[n]>> OBVIOUS
<1>1. RemoveNode(call, n) /\ Written("DELETE_NODE", n, 1, BySuccess(204, 404), NotFound)
  BY <1>c DEF HandleDeleteNode
<1>2. a.action = "DELETE_NODE" /\ a.on = n BY <1>1, <1>a, WrittenAnswer
<1>3. Sent(BySuccess(204, 404), NotFound.map) BY <1>1, FoundIs, BySuccessIs, WrittenIs
<1>4. a.status \in Success <=> n \in posted
  <2>1. CASE nodeKeys[n] = -1 /\ result'.outcome = "refused"
    BY <1>3, <1>a, <2>1, NodesPosted DEF Sent, BySuccess, Success
  <2>2. CASE nodeKeys[n] \in NodeIds /\ result'.outcome = "done"
    <3>1. n \in posted BY <2>2, NodesPosted DEF NodeIds
    <3>2. QED BY <1>3, <1>a, <2>2, <3>1 DEF Sent, BySuccess, Success
  <2>3. QED BY <1>1, <2>1, <2>2, RemoveNodeIs
<1>5. QED BY <1>a, <1>2, <1>4, FitsNode DEF OnNode

LEMMA NodeRequestFits ==
  ASSUME ActionsInv, TidyInv, NodeRequest
  PROVE  Fits(answer')
<1>a. PICK a : a = answer' OBVIOUS
<1>1. PICK n \in Names :
        \/ \E body \in Bodies \cup UserMaps : HandlePostNode(n, body)
        \/ HandleDeleteNode(n)
        \/ HandleGetNode(n)
        \/ \E body \in Bodies \cup PropMaps : HandlePutNodeProperties(n, body)
        \/ HandleDeleteNodeProperties(n)
        \/ \E p \in PropNames :
             \/ \E body \in Bodies \cup Values : HandlePutNodeProperty(n, p, body)
             \/ HandleDeleteNodeProperty(n, p)
        \/ \E p \in UserNames : HandleGetNodeProperty(n, p)
  BY DEF NodeRequest
<1>2. ASSUME NEW body, HandlePostNode(n, body) PROVE a.action = "POST_NODE"
  BY <1>2, <1>a, NoWriteAnswer, WrittenAnswer DEF HandlePostNode
<1>3. ASSUME NEW body, HandlePutNodeProperties(n, body) PROVE a.action = "PUT_NODE_PROPERTIES"
  BY <1>3, <1>a, NoWriteAnswer, WrittenAnswer DEF HandlePutNodeProperties
<1>4. HandleDeleteNodeProperties(n) => a.action = "DELETE_NODE_PROPERTIES"
  BY <1>a, WrittenAnswer DEF HandleDeleteNodeProperties
<1>5. ASSUME NEW p, NEW body, HandlePutNodeProperty(n, p, body)
      PROVE  a.action = "PUT_NODE_PROPERTY"
  BY <1>5, <1>a, NoWriteAnswer, WrittenAnswer DEF HandlePutNodeProperty
<1>6. \A p : HandleDeleteNodeProperty(n, p) => a.action = "DELETE_NODE_PROPERTY"
  BY <1>a, WrittenAnswer DEF HandleDeleteNodeProperty
<1>7. \A p : HandleGetNodeProperty(n, p) => a.action = "GET_NODE_PROPERTY"
  BY <1>a, ReadAnswer DEF HandleGetNodeProperty
<1>8. CASE HandleDeleteNode(n) BY <1>8, DeleteNodeFits
<1>9. CASE HandleGetNode(n) BY <1>9, GetNodeFits
<1>10. QED BY <1>a, <1>1, <1>2, <1>3, <1>4, <1>5, <1>6, <1>7, <1>8, <1>9, FitsAnyway

LEMMA GetRelationshipFits ==
  ASSUME ActionsInv, TidyInv, NEW e \in Triples, NEW numbered \in BOOLEAN, NEW k,
         Asked(k, numbered), HandleGetRelationship(e, k, numbered)
  PROVE  Fits(answer')
<1>a. PICK a : a = answer' OBVIOUS
<1>f. PICK found : found = ReadRelationship(e, k, numbered) OBVIOUS
<1>1. /\ a.action = "GET_RELATIONSHIP" /\ a.on = e /\ a.k = k
      /\ a.status \in Success <=> found.outcome # "threw" /\ found.map # Null
      /\ a.status = None => found.outcome = "threw"
      /\ found.outcome # "threw" => a.body = found.map
  BY <1>a, <1>f, ReadAnswer DEF HandleGetRelationship
<1>2. LeadsTo(found, e[1], Source(e), Target(e), k, held[e]) BY <1>f, ReadsBooked
<1>3. a.status \in Success <=> a.k \in 1 .. held[a.on] BY <1>1, <1>2 DEF LeadsTo
<1>4. Shows(a) BY <1>1, <1>2 DEF LeadsTo, Shows
<1>5. a.status = None => {e[2], e[3]} \subseteq posted BY <1>1, <1>f, ThrowsAreJoined
<1>6. a.status = None => a.status \notin Success BY NoneIsNoStatus DEF Success
<1>7. a.action \in Bodiless BY <1>1 DEF Bodiless, OnNumber
<1>8. Fits(a) BY <1>1, <1>3, <1>4, <1>5, <1>6, <1>7, FitsBodiless
<1>9. QED BY <1>a, <1>8

LEMMA DeleteRelationshipFits ==
  ASSUME ActionsInv, alive, TidyInv, NEW e \in Triples, NEW numbered \in BOOLEAN, NEW k,
         Asked(k, numbered), HandleDeleteRelationship(e, k, numbered)
  PROVE  Fits(answer')
<1>a. PICK a : a = answer' OBVIOUS
<1>1. /\ Removes(e, k, numbered)
      /\ Written("DELETE_RELATIONSHIP", e, k, BySuccess(204, 404), NotFound)
  BY DEF HandleDeleteRelationship, Removes
<1>2. a.action = "DELETE_RELATIONSHIP" /\ a.on = e /\ a.k = k BY <1>1, <1>a, WrittenAnswer
<1>3. Sent(BySuccess(204, 404), NotFound.map) BY <1>1, FoundIs, BySuccessIs, WrittenIs
<1>4. held[e] = HeldAt(e) /\ k \in Int BY DEF TidyInv, Books, Asked
<1>5. /\ a.status \in Success <=> k \in 1 .. held[e]
      /\ a.status = None => {e[2], e[3]} \subseteq posted /\ k \notin 1 .. held[e]
  <2>1. CASE result'.outcome = "refused" /\ k \notin 1 .. HeldAt(e)
    BY <1>3, <1>4, <1>a, <2>1, NoneIsNoStatus DEF Sent, BySuccess, Success
  <2>2. CASE Removal(e, k, numbered) /\ k < 1
    <3>1. result'.outcome = "threw" BY <2>2, RemovalThrows
    <3>2. a.status \notin Success BY <1>3, <1>a, <3>1, NoneIsNoStatus DEF Sent, Success
    <3>3. Source(e) # -1 /\ Target(e) # -1 BY <2>2 DEF Removal, NodeIds
    <3>4. {e[2], e[3]} \subseteq posted BY <3>3, NodesPosted
    <3>5. QED BY <1>4, <2>2, <3>2, <3>4
  <2>3. CASE Removal(e, k, numbered) /\ k >= 1
    <3>1. result'.outcome = "done" BY <2>3, RemovalTakes
    <3>2. a.status \in Success /\ a.status # None
      BY <1>3, <1>a, <3>1, NoneIsNoStatus DEF Sent, BySuccess, Success
    <3>3. HeldAt(e) \in Nat /\ k <= HeldAt(e) BY <2>3 DEF Removal
    <3>4. QED BY <1>4, <2>3, <3>2, <3>3
  <2>4. QED BY <1>1, <1>4, <2>1, <2>2, <2>3, RemoveIs
<1>6. a.action \in Bodiless BY <1>2 DEF Bodiless, OnNumber
<1>7. Fits(a) BY <1>2, <1>5, <1>6, FitsBodiless
<1>8. QED BY <1>a, <1>7

LEMMA PutRelationshipPropertiesFits ==
  ASSUME ActionsInv, TidyInv, NEW e \in Triples, NEW numbered \in BOOLEAN, NEW k,
         Asked(k, numbered), NEW body, HandlePutRelationshipProperties(e, k, numbered, body)
  PROVE  Fits(answer')
<1>a. PICK a : a = answer' OBVIOUS
<1>f. PICK found : found = ReadRelationship(e, k, numbered) OBVIOUS
<1>b. PICK back : back = IF result'.outcome = "done" THEN ReadRelationship(e, k, numbered)'
                         ELSE NotFound
  OBVIOUS
<1>1. \/ Throws("PUT_RELATIONSHIP_PROPERTIES", e, k)
      \/ found.map = Null /\ Returns("PUT_RELATIONSHIP_PROPERTIES", e, k, 404)
      \/ /\ found.map # Null
         /\ Written("PUT_RELATIONSHIP_PROPERTIES", e, k, BySuccess(201, 304), back)
  BY <1>f, <1>b DEF HandlePutRelationshipProperties, NotFound, Found
<1>2. a.action = "PUT_RELATIONSHIP_PROPERTIES" /\ a.on = e /\ a.k = k
  BY <1>1, <1>a, NoWriteAnswer, WrittenAnswer
<1>3. a.status \in Success => found.map # Null BY <1>1, <1>a, NoWriteAnswer
<1>4. a.status = 404 => found.map = Null
  <2>1. CASE Throws("PUT_RELATIONSHIP_PROPERTIES", e, k)
    BY <2>1, <1>a, ThrowsIs, NoneIsNoStatus
  <2>2. CASE Written("PUT_RELATIONSHIP_PROPERTIES", e, k, BySuccess(201, 304), back)
    <3>1. a.status # None => a.status = BySuccess(201, 304) BY <2>2, <1>a, WrittenAnswer
    <3>2. QED BY <3>1, NoneIsNoStatus DEF BySuccess
  <2>3. QED BY <1>1, <2>1, <2>2
<1>5. LeadsTo(found, e[1], Source(e), Target(e), k, held[e]) BY <1>f, ReadsBooked
<1>6. QED BY <1>a, <1>2, <1>3, <1>4, <1>5, FitsPut DEF LeadsTo

LEMMA CheckedAnswers ==
  ASSUME NEW t, NEW n1, NEW n2, NEW k
  PROVE  Checked(t, n1, n2, k) \in {"refused", "threw", "found"}
BY DEF Checked

LEMMA DeleteRelationshipPropertiesFits ==
  ASSUME ActionsInv, TidyInv, NEW e \in Triples, NEW numbered \in BOOLEAN, NEW k,
         HandleDeleteRelationshipProperties(e, k, numbered)
  PROVE  Fits(answer')
<1>a. PICK a : a = answer' OBVIOUS
<1>i. PICK id : id = RelationshipKeyId(e[1], k, Source(e), Target(e)) OBVIOUS
<1>c. PICK check : check = Checked(e[1], Source(e), Target(e), k) OBVIOUS
<1>1. /\ DeleteRelationshipProperties(e[1], Source(e), Target(e), k, numbered)
      /\ Written("DELETE_RELATIONSHIP_PROPERTIES", e, k, BySuccess(204, 404), NotFound)
  BY DEF HandleDeleteRelationshipProperties
<1>2. /\ a.action = "DELETE_RELATIONSHIP_PROPERTIES" /\ a.on = e /\ a.k = k
      /\ a.status \in Success => a.status = BySuccess(204, 404)
  BY <1>1, <1>a, WrittenAnswer
<1>3. Sent(BySuccess(204, 404), NotFound.map) BY <1>1, FoundIs, BySuccessIs, WrittenIs
<1>4. \/ result'.outcome = check /\ check \in {"refused", "threw"}
      \/ check = "found" /\ id \notin 0 .. Len(relationships) /\ result'.outcome = "threw"
      \/ check = "found" /\ id \in 0 .. Len(relationships) /\ result'.outcome = "done"
  <2>1. \/ check # "found" /\ \E call : Unchanged(call, check)
        \/ /\ check = "found" /\ id \notin 0 .. Len(relationships)
           /\ \E call : Unchanged(call, "threw")
        \/ /\ check = "found" /\ id \in 0 .. Len(relationships)
           /\ \E call : Return(call, "done", -1)
    BY <1>1, <1>i, <1>c DEF DeleteRelationshipProperties
  <2>2. check \in {"refused", "threw", "found"} BY <1>c, CheckedAnswers
  <2>3. QED BY <2>1, <2>2 DEF Unchanged, Return
<1>5. k \in 1 .. held[e] => check = "found" /\ id \in 0 .. Len(relationships)
  BY <1>i, <1>c, HeldFound
<1>6. a.status \in Success => k \in 1 .. held[e]
  <2>1. -1 \notin 0 .. Len(relationships) OBVIOUS
  <2>2. a.status \in Success => result'.outcome = "done" BY <1>2 DEF BySuccess, Success
  <2>3. QED BY <1>4, <1>i, <2>1, <2>2, KeyIdHeld
<1>7. k \in 1 .. held[e] => a.status = 204
  BY <1>3, <1>4, <1>5, <1>a DEF Sent, BySuccess
<1>8. a.status = None => check # "refused"
  BY <1>3, <1>4, <1>a, NoneIsNoStatus DEF Sent, BySuccess
<1>9. a.status = None => {e[2], e[3]} \subseteq posted BY <1>8, <1>c, ThrowsAreJoined
<1>10. a.action \in Bodiless BY <1>2 DEF Bodiless, OnNumber
<1>11. Fits(a) BY <1>2, <1>6, <1>7, <1>9, <1>10, NoneIsNoStatus, FitsBodiless DEF Success
<1>12. QED BY <1>a, <1>11

LEMMA ChangePropsDone ==
  ASSUME NEW call, NEW id, NEW outcome \in {"done", "refused"}, NEW props,
         ChangeProps(call, id, outcome, props)
  PROVE  IF RelUsable(id) THEN result'.outcome = outcome ELSE result'.outcome = "threw"
BY DEF ChangeProps, SetRelProps, Unchanged, Return

LEMMA PutRelationshipPropertyFits ==
  ASSUME ActionsInv, TidyInv, NEW e \in Triples, NEW k, NEW p, NEW body,
         HandlePutRelationshipProperty(e, k, p, body)
  PROVE  Fits(answer')
<1>a. PICK a : a = answer' OBVIOUS
<1>i. PICK id : id = RelationshipKeyId(e[1], k, Source(e), Target(e)) OBVIOUS
<1>1. \/ Throws("PUT_RELATIONSHIP_PROPERTY", e, k)
      \/ Returns("PUT_RELATIONSHIP_PROPERTY", e, k, 304)
      \/ /\ UpdateRelationshipProperty(e[1], Source(e), Target(e), k, p, body)
         /\ Written("PUT_RELATIONSHIP_PROPERTY", e, k, BySuccess(204, 404), NotFound)
  BY DEF HandlePutRelationshipProperty
<1>2. a.action = "PUT_RELATIONSHIP_PROPERTY" /\ a.on = e /\ a.k = k
  BY <1>1, <1>a, NoWriteAnswer, WrittenAnswer
<1>3. a.status \in Success => RelUsable(id)
  <2>1. SUFFICES ASSUME a.status \in Success PROVE RelUsable(id) OBVIOUS
  <2>2. /\ UpdateRelationshipProperty(e[1], Source(e), Target(e), k, p, body)
        /\ Written("PUT_RELATIONSHIP_PROPERTY", e, k, BySuccess(204, 404), NotFound)
    BY <1>1, <1>a, <2>1, NoWriteAnswer
  <2>3. a.status = BySuccess(204, 404) BY <2>1, <2>2, <1>a, WrittenAnswer
  <2>4. result'.outcome = "done" BY <2>1, <2>3 DEF BySuccess, Success
  <2>5. \/ \E call, outcome : outcome \in {"refused", "threw"} /\ Unchanged(call, outcome)
        \/ \E call, props : ChangeProps(call, id, "done", props)
    BY <2>2, <1>i, CheckedAnswers DEF UpdateRelationshipProperty
  <2>6. QED BY <2>4, <2>5, ChangePropsDone DEF Unchanged, Return
<1>4. a.status \in Success => k \in 1 .. held[e] BY <1>3, <1>i, UsableIsNoMinusOne, KeyIdHeld
<1>5. QED BY <1>a, <1>2, <1>4, FitsPut

LEMMA DeleteRelationshipPropertyFits ==
  ASSUME ActionsInv, TidyInv, NEW e \in Triples, NEW numbered \in BOOLEAN, NEW k, NEW p,
         HandleDeleteRelationshipProperty(e, k, numbered, p)
  PROVE  Fits(answer')
<1>a. PICK a : a = answer' OBVIOUS
<1>i. PICK id : id = RelationshipKeyId(e[1], k, Source(e), Target(e)) OBVIOUS
<1>c. PICK check : check = Checked(e[1], Source(e), Target(e), k) OBVIOUS
<1>1. /\ DeleteRelationshipProperty(e[1], Source(e), Target(e), k, numbered, p)
      /\ Written("DELETE_RELATIONSHIP_PROPERTY", e, k, BySuccess(204, 404), NotFound)
  BY DEF HandleDeleteRelationshipProperty
<1>2. /\ a.action = "DELETE_RELATIONSHIP_PROPERTY" /\ a.on = e /\ a.k = k
      /\ a.status \in Success => a.status = BySuccess(204, 404)
  BY <1>1, <1>a, WrittenAnswer
<1>3. Sent(BySuccess(204, 404), NotFound.map) BY <1>1, FoundIs, BySuccessIs, WrittenIs
<1>4. \/ result'.outcome = "refused"
      \/ result'.outcome = check /\ check = "threw"
      \/ check = "found" /\ (IF RelUsable(id) THEN result'.outcome = "done"
                             ELSE result'.outcome = "threw")
  <2>1. \/ \E call : Unchanged(call, "refused")
        \/ check # "found" /\ \E call : Unchanged(call, check)
        \/ check = "found" /\ \E call, props, outcome :
             outcome \in {"done", "refused"} /\ ChangeProps(call, id, outcome, props)
    BY <1>1, <1>i, <1>c DEF DeleteRelationshipProperty
  <2>2. check \in {"refused", "threw", "found"} BY <1>c, CheckedAnswers
  <2>3. QED BY <2>1, <2>2, ChangePropsDone DEF Unchanged, Return
<1>5. k \in 1 .. held[e] => check = "found" /\ RelUsable(id) BY <1>i, <1>c, HeldFound
<1>6. a.status \in Success => k \in 1 .. held[e]
  <2>1. a.status \in Success => result'.outcome = "done" BY <1>2 DEF BySuccess, Success
  <2>2. a.status \in Success => RelUsable(id) BY <1>4, <2>1
  <2>3. QED BY <1>i, <2>2, UsableIsNoMinusOne, KeyIdHeld
<1>7. a.status = None => result'.outcome = "threw"
  BY <1>3, <1>a, NoneIsNoStatus DEF Sent, BySuccess
<1>8. a.status = None => {e[2], e[3]} \subseteq posted /\ k \notin 1 .. held[e]
  BY <1>4, <1>5, <1>7, <1>c, ThrowsAreJoined
<1>9. a.action \in Bodiless \ OnNumber /\ a.action # "GET_RELATIONSHIP"
  BY <1>2 DEF Bodiless, OnNumber
<1>10. Fits(a) BY <1>2, <1>6, <1>8, <1>9, FitsBodiless
<1>11. QED BY <1>a, <1>10

LEMMA GetRelationshipPropertyFits ==
  ASSUME ActionsInv, TidyInv, NEW e \in Triples, NEW k, NEW p,
         HandleGetRelationshipProperty(e, k, p)
  PROVE  Fits(answer')
<1>a. PICK a : a = answer' OBVIOUS
<1>i. PICK id : id = RelationshipKeyId(e[1], k, Source(e), Target(e)) OBVIOUS
<1>c. PICK check : check = Checked(e[1], Source(e), Target(e), k) OBVIOUS
<1>f. PICK found :
        found = IF check = "refused" THEN NotFound
                ELSE IF check = "threw" \/ ~ RelUsable(id) THEN Threw
                ELSE Found(ValueOf(RelRec(id).props, p))
  OBVIOUS
<1>1. Read("GET_RELATIONSHIP_PROPERTY", e, k, found)
  BY <1>i, <1>c, <1>f DEF HandleGetRelationshipProperty
<1>2. /\ a.action = "GET_RELATIONSHIP_PROPERTY" /\ a.on = e /\ a.k = k
      /\ a.status \in Success => found.outcome # "threw" /\ found.map # Null
      /\ a.status = None => found.outcome = "threw"
  BY <1>1, <1>a, ReadAnswer
<1>3. \/ found = NotFound
      \/ found = Threw /\ check # "refused" /\ (check = "threw" \/ ~ RelUsable(id))
      \/ RelUsable(id) /\ \E v : found = Found(v)
  BY <1>f
<1>4. NotFound.map = Null /\ Threw.map = Null BY DEF NotFound, Found, Threw
<1>5. a.status \in Success => RelUsable(id) BY <1>2, <1>3, <1>4
<1>6. a.status \in Success => k \in 1 .. held[e] BY <1>5, <1>i, UsableIsNoMinusOne, KeyIdHeld
<1>7. a.status = None => check # "refused" /\ (check = "threw" \/ ~ RelUsable(id))
  BY <1>2, <1>3, FoundIs
<1>8. k \in 1 .. held[e] => check = "found" /\ RelUsable(id) BY <1>i, <1>c, HeldFound
<1>9. a.status = None => {e[2], e[3]} \subseteq posted /\ k \notin 1 .. held[e]
  BY <1>7, <1>8, <1>c, ThrowsAreJoined
<1>10. a.action \in Bodiless \ OnNumber /\ a.action # "GET_RELATIONSHIP"
  BY <1>2 DEF Bodiless, OnNumber
<1>11. Fits(a) BY <1>2, <1>6, <1>9, <1>10, FitsBodiless
<1>12. QED BY <1>a, <1>11

\* A creation that is answered with success either met a missing node, and shows
\* null, or added a relationship, and shows number 1 of the triple.
LEMMA PostShows ==
  ASSUME ActionsInv, alive, TidyInv, tidy, NEW e \in Triples, NEW body \in Bodies \cup UserMaps,
         NEW sent \in {0} \cup SentCounts, HandlePostRelationship(e, body, sent),
         body # Malformed, PostsTo(e, body, sent), NEW back,
         back = ReadRelationship(e, 1, FALSE)',
         Written("POST_RELATIONSHIP", e, 1, 201, back), result'.outcome # "threw"
  PROVE  /\ back.map # Null <=> Source(e) # -1 /\ Target(e) # -1
         /\ back.map # Null =>
              back.map.type = e[1] /\ back.map.from = Source(e) /\ back.map.to = Target(e)
<1>1. StepSound BY PostRelationshipSound
<1>2. alive' /\ tidy'
  <2>1. alive' = alive BY DEF Written
  <2>2. Entered(IF answer'.body = Null THEN UNCHANGED ledger ELSE Book(e, 1))
    BY DEF HandlePostRelationship
  <2>3. tidy' = tidy BY <2>2 DEF Entered, Book, ledger
  <2>4. QED BY <2>1, <2>3
<1>3. ActionsInv' /\ TidyInv' BY <1>1, <1>2 DEF StepSound, ActionsInv
<1>4. (NodesTyped /\ RelsInv)' BY <1>3, TypeInvPartsNext DEF ActionsInv
<1>5. ReadsHeld' BY <1>3, <1>4, ReadsHeldNext DEF TidyInv, NamedInv
<1>6. 1 \in Int /\ FALSE \in BOOLEAN OBVIOUS
<1>7. /\ ReadRelationship(e, 1, FALSE)'.map # Null <=> 1 \in 1 .. HeldAt(e)'
      /\ ReadRelationship(e, 1, FALSE)'.map # Null =>
           /\ ReadRelationship(e, 1, FALSE)'.map.type = e[1]
           /\ ReadRelationship(e, 1, FALSE)'.map.from = Source(e)'
           /\ ReadRelationship(e, 1, FALSE)'.map.to = Target(e)'
  BY <1>5, <1>6 DEF ReadsHeld
<1>8. CASE (Source(e) = -1 \/ Target(e) = -1) /\ Nothing
  <2>1. Source(e)' = Source(e) /\ Target(e)' = Target(e)
    BY <1>8 DEF Nothing, nodeVars, Source, Target
  <2>2. HeldAt(e)' = 0 BY <1>8, <2>1 DEF HeldAt
  <2>3. 1 \notin 1 .. HeldAt(e)' BY <2>2
  <2>4. back.map = Null BY <1>7, <2>3
  <2>5. QED BY <1>8, <2>4
<1>9. CASE Source(e) \in NodeIds /\ Target(e) \in NodeIds /\ LinkOf(e)
  <2>1. PairChange(e, 1) BY <1>9, LinkHeld
  <2>2. Source(e)' = Source(e) /\ Target(e)' = Target(e)
    BY <2>1 DEF PairChange, Source, Target
  <2>3. HeldAt(e)' = HeldAt(e) + 1 /\ HeldAt(e) \in Nat BY <2>1 DEF PairChange
  <2>4. 1 \in 1 .. HeldAt(e)' BY <2>3
  <2>5. Source(e) # -1 /\ Target(e) # -1 BY <1>9 DEF NodeIds
  <2>6. QED BY <1>7, <2>2, <2>4, <2>5
<1>10. QED BY <1>8, <1>9, LinkIs

LEMMA PostRelationshipFits ==
  ASSUME ActionsInv, alive, TidyInv, tidy, NEW e \in Triples, NEW body \in Bodies \cup UserMaps,
         NEW sent \in {0} \cup SentCounts, HandlePostRelationship(e, body, sent)
  PROVE  Fits(answer')
<1>a. PICK a : a = answer' OBVIOUS
<1>b. PICK back : back = ReadRelationship(e, 1, FALSE)' OBVIOUS
<1>1. \/ Throws("POST_RELATIONSHIP", e, 1)
      \/ /\ body # Malformed /\ PostsTo(e, body, sent)
         /\ Written("POST_RELATIONSHIP", e, 1, 201, back)
  BY <1>b DEF HandlePostRelationship, PostsTo
<1>2. a.action = "POST_RELATIONSHIP" /\ a.on = e BY <1>1, <1>a, NoWriteAnswer, WrittenAnswer
<1>3. ASSUME a.status \in Success
      PROVE  /\ a.body # Null <=> Source(e) # -1 /\ Target(e) # -1
             /\ a.body # Null =>
                  a.body.type = e[1] /\ a.body.from = Source(e) /\ a.body.to = Target(e)
  <2>1. /\ body # Malformed /\ PostsTo(e, body, sent)
        /\ Written("POST_RELATIONSHIP", e, 1, 201, back)
    BY <1>1, <1>3, <1>a, NoWriteAnswer
  <2>2. a.body = back.map /\ result'.outcome # "threw" BY <1>3, <1>a, <2>1, WrittenAnswer
  <2>3. QED BY <1>b, <2>1, <2>2, PostShows
<1>4. Shows(a) BY <1>2, <1>3 DEF Shows
<1>5. a.status \in Success => (a.body # Null <=> {a.on[2], a.on[3]} \subseteq posted)
  BY <1>2, <1>3, NodesPosted
<1>6. QED BY <1>a, <1>2, <1>4, <1>5, FitsPost

LEMMA ExistsIs ==
  ASSUME NEW yes \in BOOLEAN
  PROVE  Exists(yes).outcome # "threw" /\ (Exists(yes).map # Null <=> yes)
BY NullIsNoYes DEF Exists, Found

LEMMA GetRelatedByTypeFits ==
  ASSUME ActionsInv, TidyInv, NEW e \in Triples, HandleGetRelatedByType(e)
  PROVE  Fits(answer')
<1>a. PICK a : a = answer' OBVIOUS
<1>y. PICK yes : yes = Related(Source(e), Target(e), "OUT", {e[1]}) OBVIOUS
<1>1. yes \in BOOLEAN BY <1>y DEF Related
<1>2. Read("GET_RELATED_TYPE", e, 1, Exists(yes)) BY <1>y DEF HandleGetRelatedByType
<1>3. /\ a.action = "GET_RELATED_TYPE" /\ a.on = e
      /\ a.status \in Success <=> Exists(yes).outcome # "threw" /\ Exists(yes).map # Null
  BY <1>2, <1>a, ReadAnswer
<1>4. a.status \in Success <=> yes BY <1>1, <1>3, ExistsIs
<1>5. ChosenTypes({e[1]}) = {e[1]} \cap KnownTypes BY DEF ChosenTypes
<1>6. yes <=> /\ Source(e) # -1 /\ Target(e) # -1 /\ e[1] \in KnownTypes
              /\ <<Source(e), Target(e)>> \in DOMAIN KeyMap(e[1], 1)
  BY <1>5, <1>y DEF Related
<1>7. a.status \in Success <=> InLedger(e) BY <1>4, <1>6, KeyedIsHeld
<1>8. Fits(a) BY <1>3, <1>7 DEF Fits, OnNode, OnNumber, OnNumberProperties, Bodiless
<1>9. QED BY <1>a, <1>8

LEMMA GetRelatedFits ==
  ASSUME ActionsInv, TidyInv, NEW f \in Names, NEW g \in Names, HandleGetRelated(f, g)
  PROVE  Fits(answer')
<1>a. PICK a : a = answer' OBVIOUS
<1>y. PICK yes : yes = Related(nodeKeys[f], nodeKeys[g], "ALL", {}) OBVIOUS
<1>1. yes \in BOOLEAN BY <1>y DEF Related
<1>2. Read("GET_RELATED", <<f, g>>, 1, Exists(yes)) BY <1>y DEF HandleGetRelated
<1>3. /\ a.action = "GET_RELATED" /\ a.on = <<f, g>>
      /\ a.status \in Success <=> Exists(yes).outcome # "threw" /\ Exists(yes).map # Null
  BY <1>2, <1>a, ReadAnswer
<1>4. a.status \in Success <=> yes BY <1>1, <1>3, ExistsIs
<1>5. KnownTypes \subseteq Types BY InvTypes DEF TypeOK
<1>6. yes <=> /\ nodeKeys[f] # -1 /\ nodeKeys[g] # -1
              /\ \E t \in KnownTypes :
                   \/ <<nodeKeys[f], nodeKeys[g]>> \in DOMAIN KeyMap(t, 1)
                   \/ <<nodeKeys[g], nodeKeys[f]>> \in DOMAIN KeyMap(t, 1)
  BY <1>y DEF Related, ChosenTypes
<1>7. \A t \in Types, n \in Names, m \in Names :
        /\ nodeKeys[n] # -1 /\ nodeKeys[m] # -1 /\ t \in KnownTypes
        /\ <<nodeKeys[n], nodeKeys[m]>> \in DOMAIN KeyMap(t, 1)
        <=> InLedger(<<t, n, m>>)
  <2>1. SUFFICES ASSUME NEW t \in Types, NEW n \in Names, NEW m \in Names
                 PROVE  /\ nodeKeys[n] # -1 /\ nodeKeys[m] # -1 /\ t \in KnownTypes
                        /\ <<nodeKeys[n], nodeKeys[m]>> \in DOMAIN KeyMap(t, 1)
                        <=> InLedger(<<t, n, m>>)
    OBVIOUS
  <2>e. PICK e : e = <<t, n, m>> OBVIOUS
  <2>2. e \in Triples /\ e[1] = t /\ e[2] = n /\ e[3] = m BY <2>e DEF Triples
  <2>3. QED BY <2>e, <2>2, KeyedIsHeld DEF Source, Target
<1>8. a.status \in Success <=>
        \E t \in Types : InLedger(<<t, f, g>>) \/ InLedger(<<t, g, f>>)
  BY <1>4, <1>5, <1>6, <1>7
<1>9. a.on[1] = f /\ a.on[2] = g BY <1>3
<1>10. Fits(a) BY <1>3, <1>8, <1>9 DEF Fits, OnNode, OnNumber, OnNumberProperties, Bodiless
<1>11. QED BY <1>a, <1>10

LEMMA GetRelationshipTypeCountFits ==
  ASSUME ActionsInv, TidyInv, IsFiniteSet(Names), NEW t \in Types,
         HandleGetRelationshipTypeCount(t)
  PROVE  Fits(answer')
<1>a. PICK a : a = answer' OBVIOUS
<1>1. a.action = "GET_RELATIONSHIP_TYPE_COUNT" /\ a.on = t /\ a.body = TypeCount(t)
  BY <1>a, FoundIs, ReadAnswer DEF HandleGetRelationshipTypeCount, GetRelationshipTypeCount
<1>2. a.body = SumFunctionOnSet(held, {e \in Triples : e[1] = a.on})
  BY <1>1, BooksTotal DEF OfTriples
<1>3. Fits(a) BY <1>1, <1>2 DEF Fits, OnNode, OnNumber, OnNumberProperties, Bodiless
<1>4. QED BY <1>a, <1>3

LEMMA NumberRequestFits ==
  ASSUME ActionsInv, alive, TidyInv, NEW e \in Triples, NEW numbered \in BOOLEAN, NEW k,
         Asked(k, numbered), NumberRequest(e, k, numbered)
  PROVE  Fits(answer')
<1>1. CASE HandleDeleteRelationship(e, k, numbered) BY <1>1, DeleteRelationshipFits
<1>2. CASE HandleGetRelationship(e, k, numbered) BY <1>2, GetRelationshipFits
<1>3. CASE \E body \in Bodies \cup PropMaps :
             HandlePutRelationshipProperties(e, k, numbered, body)
  BY <1>3, PutRelationshipPropertiesFits
<1>4. CASE HandleDeleteRelationshipProperties(e, k, numbered)
  BY <1>4, DeleteRelationshipPropertiesFits
<1>5. CASE \E p \in PropNames, body \in Bodies \cup Values :
             HandlePutRelationshipProperty(e, k, p, body)
  BY <1>5, PutRelationshipPropertyFits
<1>6. CASE \E p \in PropNames : HandleDeleteRelationshipProperty(e, k, numbered, p)
  BY <1>6, DeleteRelationshipPropertyFits
<1>7. CASE \E p \in UserNames : HandleGetRelationshipProperty(e, k, p)
  BY <1>7, GetRelationshipPropertyFits
<1>8. QED BY <1>1, <1>2, <1>3, <1>4, <1>5, <1>6, <1>7 DEF NumberRequest

LEMMA RelationshipRequestFits ==
  ASSUME ActionsInv, alive, TidyInv, tidy, RelationshipRequest
  PROVE  Fits(answer')
<1>1. PICK e \in Triples :
        \/ \E body \in Bodies \cup UserMaps, sent \in {0} \cup SentCounts :
             HandlePostRelationship(e, body, sent)
        \/ NumberRequest(e, 1, FALSE)
        \/ \E k \in Numbers : NumberRequest(e, k, TRUE)
        \/ HandleGetRelatedByType(e)
  BY DEF RelationshipRequest
<1>2. CASE \E body \in Bodies \cup UserMaps, sent \in {0} \cup SentCounts :
             HandlePostRelationship(e, body, sent)
  BY <1>2, PostRelationshipFits
<1>3. CASE NumberRequest(e, 1, FALSE)
  <2>1. Asked(1, FALSE) BY DEF Asked
  <2>2. QED BY <1>3, <2>1, NumberRequestFits
<1>4. CASE \E k \in Numbers : NumberRequest(e, k, TRUE)
  <2>1. \A k \in Numbers : Asked(k, TRUE) BY BoundsAssumption DEF Asked
  <2>2. QED BY <1>4, <2>1, NumberRequestFits
<1>5. CASE HandleGetRelatedByType(e) BY <1>5, GetRelatedByTypeFits
<1>6. QED BY <1>1, <1>2, <1>3, <1>4, <1>5

LEMMA OtherRequestFits ==
  ASSUME ActionsInv, TidyInv, IsFiniteSet(Names), OtherRequest
  PROVE  Fits(answer')
<1>a. PICK a : a = answer' OBVIOUS
<1>1. CASE \E f, g \in Names : HandleGetRelated(f, g) BY <1>1, GetRelatedFits
<1>2. CASE \E t \in Types : HandleGetRelationshipTypeCount(t)
  BY <1>2, GetRelationshipTypeCountFits
<1>3. HandleGetRelationshipTypes => a.action = "GET_RELATIONSHIP_TYPES"
  BY <1>a, ReadAnswer DEF HandleGetRelationshipTypes
<1>4. HandleGetRelationshipTypesCount => a.action = "GET_RELATIONSHIP_TYPES_COUNT"
  BY <1>a, ReadAnswer DEF HandleGetRelationshipTypesCount
<1>5. HandleNoOp => a.action = "NOOP" BY <1>a, ReadAnswer DEF HandleNoOp
<1>6. QED BY <1>a, <1>1, <1>2, <1>3, <1>4, <1>5, FitsAnyway DEF OtherRequest

LEMMA RequestFits ==
  ASSUME IsFiniteSet(Names), ActionsInv, ActionsNext, tidy
  PROVE  Fits(answer')
<1>1. alive /\ TidyInv BY DEF ActionsNext, ActionsInv
<1>2. QED
  BY <1>1, NodeRequestFits, RelationshipRequestFits, OtherRequestFits DEF ActionsNext

-----------------------------------------------------------------------------
(* Theorems *)

\* The handlers keep the types of the graph, of the answers and of the client's
\* books: the count of a triple in the books never falls below zero, however
\* creations, numbered deletions and node removals mix.
THEOREM ActionsTypeCorrect == ActionsSpec => []ActionsTypeOK
<1>1. ActionsInv => ActionsTypeOK
  BY DEF ActionsInv, TypeInv, AnswerTyped, LedgerTyped, ActionsTypeOK
<1>2. QED BY <1>1, ActionsInvHolds, PTL

\* The read-back that only the responder makes never throws (actions/): a write
\* ends the responder exactly when it ends every other replica.
THEOREM NoReplicaEndsAlone == ActionsSpec => ReplicasEndTogether
<1>1. ActionsInv /\ [ActionsNext]_actionVars =>
        [answer'.others # "idle" =>
           (answer'.status = None <=> answer'.others = "ended")]_actionVars
  BY ActionsStep DEF StepSound, Together
<1>2. QED BY <1>1, ActionsInvHolds, PTL DEF ActionsSpec, ReplicasEndTogether

\* The server never contradicts itself (actions/): every answer a client gets,
\* success, 404 or none, is the one that the books it keeps of its own POSTs and
\* DELETEs call for, whatever it has asked and whatever has failed before.  The
\* names have to be finitely many for the count of a type to be a sum.
THEOREM BooksAreKept ==
  ASSUME IsFiniteSet(Names)
  PROVE  ActionsSpec => AnswersFitLedger
<1>1. ActionsInv /\ [ActionsNext]_actionVars => [tidy => Fits(answer')]_actionVars
  BY RequestFits
<1>2. QED BY <1>1, ActionsInvHolds, PTL DEF ActionsSpec, AnswersFitLedger
=============================================================================

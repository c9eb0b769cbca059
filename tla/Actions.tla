-------------------------------- MODULE Actions --------------------------------
(***************************************************************************)
(* The HTTP handlers (actions/): what a request does to the graph of every  *)
(* replica and what its responder answers.  The replicas hold equal graphs  *)
(* before each request (Pipeline), so one graph stands for all of them; a   *)
(* write runs on each, a read and the read-back of a write on the responder *)
(* only.  An exception ends the thread of the replica it is thrown in.      *)
(*                                                                          *)
(* A relationship is addressed by a triple e = <<type, from, to>>, and by a *)
(* number k when the path has one (numbered).                               *)
(***************************************************************************)
EXTENDS FastUtilGraph

CONSTANTS
  Empty,      \* a request without a body
  Malformed,  \* a body JsonIterator cannot read
  None        \* no answer: the responder has ended

ASSUME NoneIsNoStatus == None \notin {200, 201, 204, 304, 404}
ASSUME NullIsNoYes == Null # "yes"

VARIABLES
  answer,  \* the last request and what became of it
  alive,   \* a replica is left that has not met an exception
  posted,  \* the nodes that exist, going by the answers the client got
  held,    \* how many relationships e has, going by the same answers
  tidy     \* the client has not used a request its ledger cannot follow

ledger     == <<posted, held, tidy>>
actionVars == <<vars, answer, alive, ledger>>

Triples == Types \X Names \X Names
Source(e) == nodeKeys[e[2]]
Target(e) == nodeKeys[e[3]]

Success == {200, 201, 204}

ActionsInit ==
  /\ Init
  /\ answer = [action |-> "NOOP", on |-> Null, k |-> 1, status |-> 200,
               body |-> Null, others |-> "idle"]
  /\ alive = TRUE
  /\ posted = {}
  /\ held = [e \in Triples |-> 0]
  /\ tidy = TRUE

-----------------------------------------------------------------------------
(* Answers *)

\* What the responder sends, or None when an exception keeps it from sending;
\* others tells what the same request did to the other replicas.
Answer(action, on, k, status, body, others) ==
  answer' = [action |-> action, on |-> on, k |-> k, status |-> status,
             body |-> body, others |-> others]

\* A write every replica has carried out, on the same graph with the same
\* result; back is what the responder reads afterwards to fill the answer.
Written(action, on, k, status, back) ==
  IF result'.outcome = "threw"
  THEN Answer(action, on, k, None, Null, "ended") /\ alive' = FALSE
  ELSE /\ IF back.outcome = "threw" THEN Answer(action, on, k, None, Null, "done")
          ELSE Answer(action, on, k, status, back.map, "done")
       /\ alive' = alive

NotFound == Found(Null)
BySuccess(yes, no) == IF result'.outcome = "done" THEN yes ELSE no

\* A write that leaves every replica's graph alone: it throws before the graph
\* is called, or the handler returns early with a status.
NoWrite(outcome) == Unchanged(<<"none">>, outcome)
Throws(action, on, k)          == NoWrite("threw") /\ Written(action, on, k, None, NotFound)
Returns(action, on, k, status) == NoWrite("refused") /\ Written(action, on, k, status, NotFound)

\* A read, which only the responder carries out: null is answered with 404.
Read(action, on, k, found) ==
  /\ IF found.outcome = "threw" THEN Answer(action, on, k, None, Null, "idle")
     ELSE Answer(action, on, k, IF found.map = Null THEN 404 ELSE 200, found.map, "idle")
  /\ UNCHANGED <<vars, alive, ledger>>

PropsOf(body) == IF body = Empty THEN NoProps ELSE body

-----------------------------------------------------------------------------
(* The client's ledger: what it concludes from the answers *)

\* After the answer to this request the client keeps no ledger any more.
Muddle ==
  /\ tidy' = FALSE
  /\ posted' = {}
  /\ held' = [e \in Triples |-> 0]

Entered(step) ==
  IF tidy /\ answer'.status \in Success THEN step ELSE UNCHANGED ledger

Book(e, change) ==
  /\ held' = [held EXCEPT ![e] = @ + change]
  /\ UNCHANGED <<posted, tidy>>

Belongs(n, e) == n \in {e[2], e[3]}

-----------------------------------------------------------------------------
(* actions/node *)

\* addNode's result is ignored: a name that exists is answered with its node.
HandlePostNode(n, body) ==
  /\ \/ body = Malformed /\ Throws("POST_NODE", n, 1)
     \/ /\ body # Malformed
        /\ AddNode(n, PropsOf(body))
        /\ Written("POST_NODE", n, 1, 201, Found(GetNode(n)'))
  /\ Entered(posted' = posted \cup {n} /\ UNCHANGED <<held, tidy>>)

HandleDeleteNode(n) ==
  /\ RemoveNode(<<"removeNode", nodeKeys[n]>>, n)
  /\ Written("DELETE_NODE", n, 1, BySuccess(204, 404), NotFound)
  /\ Entered(IF \E e \in Triples : Belongs(n, e) /\ held[e] > 0 THEN Muddle
             ELSE posted' = posted \ {n} /\ UNCHANGED <<held, tidy>>)

HandleGetNode(n) == Read("GET_NODE", n, 1, Found(GetNode(n)))

(* actions/nodeproperties *)

HandlePutNodeProperties(n, body) ==
  /\ \/ GetNode(n) = Null /\ Returns("PUT_NODE_PROPERTIES", n, 1, 404)
     \/ /\ GetNode(n) # Null /\ body = Malformed
        /\ Throws("PUT_NODE_PROPERTIES", n, 1)
     \/ /\ GetNode(n) # Null /\ body # Malformed
        /\ UpdateNodeProperties(nodeKeys[n], PropsOf(body))
        /\ Written("PUT_NODE_PROPERTIES", n, 1, BySuccess(201, 304),
                   IF result'.outcome = "done" THEN Found(GetNode(n)') ELSE NotFound)
  /\ UNCHANGED ledger

HandleDeleteNodeProperties(n) ==
  /\ DeleteNodeProperties(nodeKeys[n])
  /\ Written("DELETE_NODE_PROPERTIES", n, 1, BySuccess(204, 404), NotFound)
  /\ Entered(Muddle)

\* An unreadable body is swallowed here, and null is stored.
HandlePutNodeProperty(n, p, body) ==
  /\ \/ body = Empty /\ Returns("PUT_NODE_PROPERTY", n, 1, 304)
     \/ /\ body # Empty
        /\ UpdateNodeProperty(nodeKeys[n], p, IF body = Malformed THEN Null ELSE body)
        /\ Written("PUT_NODE_PROPERTY", n, 1, BySuccess(204, 404), NotFound)
  /\ UNCHANGED ledger

HandleDeleteNodeProperty(n, p) ==
  /\ DeleteNodeProperty(nodeKeys[n], p)
  /\ Written("DELETE_NODE_PROPERTY", n, 1, BySuccess(204, 404), NotFound)
  /\ UNCHANGED ledger

ValueOf(props, p) == IF p \in DOMAIN props THEN props[p] ELSE Null

\* getNodeProperty
HandleGetNodeProperty(n, p) ==
  LET id == nodeKeys[n] IN
  Read("GET_NODE_PROPERTY", n, 1,
       IF id = -1 THEN NotFound
       ELSE IF ~ NodeUsable(id) THEN Threw ELSE Found(ValueOf(NodeRec(id).props, p)))

-----------------------------------------------------------------------------
(* actions/relationship *)

ReadNumberOne(e, k, numbered) ==   \* mutant: the number of the path is ignored
  GetRelationship(e[1], Source(e), Target(e))

\* The number of the path picks the method; without it number 1 is meant.
ReadRelationship(e, k, numbered) ==
  IF numbered THEN GetRelationshipNumber(e[1], Source(e), Target(e), k)
  ELSE GetRelationship(e[1], Source(e), Target(e))

\* Whatever has been created, the answer shows number 1 of the pair.
HandlePostRelationship(e, body, sent) ==
  /\ \/ body = Malformed /\ Throws("POST_RELATIONSHIP", e, 1)
     \/ /\ body # Malformed
        /\ IF body = Empty THEN AddRelationship(e[1], Source(e), Target(e))
           ELSE AddRelationshipWithProperties(e[1], Source(e), Target(e), body, sent)
        /\ Written("POST_RELATIONSHIP", e, 1, 201, ReadRelationship(e, 1, FALSE)')
  /\ Entered(IF answer'.body = Null THEN UNCHANGED ledger ELSE Book(e, 1))

HandleDeleteRelationship(e, k, numbered) ==
  /\ IF numbered THEN RemoveRelationshipNumber(e[1], Source(e), Target(e), k)
     ELSE RemoveRelationship(e[1], Source(e), Target(e))
  /\ Written("DELETE_RELATIONSHIP", e, k, BySuccess(204, 404), NotFound)
  /\ Entered(Book(e, -1))

HandleGetRelationship(e, k, numbered) ==
  Read("GET_RELATIONSHIP", e, k, ReadRelationship(e, k, numbered))

(* actions/relationshipproperties *)

HandlePutRelationshipProperties(e, k, numbered, body) ==
  LET found == ReadRelationship(e, k, numbered) IN
  /\ \/ found.outcome = "threw" /\ Throws("PUT_RELATIONSHIP_PROPERTIES", e, k)
     \/ found = NotFound /\ Returns("PUT_RELATIONSHIP_PROPERTIES", e, k, 404)
     \/ /\ found.map # Null /\ body = Malformed
        /\ Throws("PUT_RELATIONSHIP_PROPERTIES", e, k)
     \/ /\ found.map # Null /\ body # Malformed
        /\ UpdateRelationshipProperties(e[1], Source(e), Target(e), k, PropsOf(body))
        /\ Written("PUT_RELATIONSHIP_PROPERTIES", e, k, BySuccess(201, 304),
                   IF result'.outcome = "done" THEN ReadRelationship(e, k, numbered)'
                   ELSE NotFound)
  /\ UNCHANGED ledger

HandleDeleteRelationshipProperties(e, k, numbered) ==
  /\ DeleteRelationshipProperties(e[1], Source(e), Target(e), k, numbered)
  /\ Written("DELETE_RELATIONSHIP_PROPERTIES", e, k, BySuccess(204, 404), NotFound)
  /\ Entered(Muddle)

HandlePutRelationshipProperty(e, k, p, body) ==
  /\ \/ body = Empty /\ Returns("PUT_RELATIONSHIP_PROPERTY", e, k, 304)
     \/ body = Malformed /\ Throws("PUT_RELATIONSHIP_PROPERTY", e, k)
     \/ /\ body \notin {Empty, Malformed}
        /\ UpdateRelationshipProperty(e[1], Source(e), Target(e), k, p, body)
        /\ Written("PUT_RELATIONSHIP_PROPERTY", e, k, BySuccess(204, 404), NotFound)
  /\ UNCHANGED ledger

HandleDeleteRelationshipProperty(e, k, numbered, p) ==
  /\ DeleteRelationshipProperty(e[1], Source(e), Target(e), k, numbered, p)
  /\ Written("DELETE_RELATIONSHIP_PROPERTY", e, k, BySuccess(204, 404), NotFound)
  /\ UNCHANGED ledger

\* getRelationshipProperty: the checks of the other by-name operations, then
\* the map, which may be null.
HandleGetRelationshipProperty(e, k, p) ==
  LET check == Checked(e[1], Source(e), Target(e), k)
      id    == RelationshipKeyId(e[1], k, Source(e), Target(e))
  IN
  Read("GET_RELATIONSHIP_PROPERTY", e, k,
       IF check = "refused" THEN NotFound
       ELSE IF check = "threw" \/ ~ RelUsable(id) THEN Threw
       ELSE Found(ValueOf(RelRec(id).props, p)))

-----------------------------------------------------------------------------
(* actions/related, actions/relationshiptype, NoOp *)

Exists(yes) == Found(IF yes THEN "yes" ELSE Null)

HandleGetRelated(f, g) ==
  Read("GET_RELATED", <<f, g>>, 1,
       Exists(Related(nodeKeys[f], nodeKeys[g], "ALL", {})))

HandleGetRelatedByType(e) ==
  Read("GET_RELATED_TYPE", e, 1, Exists(Related(Source(e), Target(e), "OUT", {e[1]})))

HandleGetRelationshipTypeCount(t) ==
  Read("GET_RELATIONSHIP_TYPE_COUNT", t, 1, Found(GetRelationshipTypeCount(t)))

HandleGetRelationshipTypes ==
  Read("GET_RELATIONSHIP_TYPES", Null, 1, Found(KnownTypes))

HandleGetRelationshipTypesCount ==
  Read("GET_RELATIONSHIP_TYPES_COUNT", Null, 1, Found(relationshipCounts))

HandleNoOp == Read("NOOP", Null, 1, Exists(TRUE))

-----------------------------------------------------------------------------

Bodies == {Empty, Malformed}
UserNames == PropNames \ MetaNames

NodeRequest ==
  \E n \in Names :
    \/ \E body \in Bodies \cup UserMaps : HandlePostNode(n, body)
    \/ HandleDeleteNode(n)
    \/ HandleGetNode(n)
    \/ \E body \in Bodies \cup PropMaps : HandlePutNodeProperties(n, body)
    \/ HandleDeleteNodeProperties(n)
    \/ \E p \in PropNames :
         \/ \E body \in Bodies \cup Values : HandlePutNodeProperty(n, p, body)
         \/ HandleDeleteNodeProperty(n, p)
    \/ \E p \in UserNames : HandleGetNodeProperty(n, p)

\* The requests on number k of a triple, numbered or not.
NumberRequest(e, k, numbered) ==
  \/ HandleDeleteRelationship(e, k, numbered)
  \/ HandleGetRelationship(e, k, numbered)
  \/ \E body \in Bodies \cup PropMaps :
       HandlePutRelationshipProperties(e, k, numbered, body)
  \/ HandleDeleteRelationshipProperties(e, k, numbered)
  \/ \E p \in PropNames :
       \/ \E body \in Bodies \cup Values : HandlePutRelationshipProperty(e, k, p, body)
       \/ HandleDeleteRelationshipProperty(e, k, numbered, p)
  \/ \E p \in UserNames : HandleGetRelationshipProperty(e, k, p)

RelationshipRequest ==
  \E e \in Triples :
    \/ \E body \in Bodies \cup UserMaps, sent \in {0} \cup SentCounts :
         HandlePostRelationship(e, body, sent)
    \/ NumberRequest(e, 1, FALSE)
    \/ \E k \in Numbers : NumberRequest(e, k, TRUE)
    \/ HandleGetRelatedByType(e)

OtherRequest ==
  \/ \E f, g \in Names : HandleGetRelated(f, g)
  \/ \E t \in Types : HandleGetRelationshipTypeCount(t)
  \/ HandleGetRelationshipTypes
  \/ HandleGetRelationshipTypesCount
  \/ HandleNoOp

\* Once every replica has ended nothing happens any more.
ActionsNext == alive /\ (NodeRequest \/ RelationshipRequest \/ OtherRequest)

ActionsSpec == ActionsInit /\ [][ActionsNext]_actionVars

-----------------------------------------------------------------------------

Statuses == {200, 201, 204, 304, 404, None}

\* The variables of this module keep their types.
ActionsTypeOK ==
  /\ TypeOK
  /\ answer.status \in Statuses
  /\ answer.others \in {"idle", "done", "ended"}
  /\ alive \in BOOLEAN /\ tidy \in BOOLEAN
  /\ posted \subseteq Names
  /\ held \in [Triples -> Nat]

\* A write that ends the responder ends every other replica, and the other way
\* round: the read-back with which only the responder fills its answer never
\* throws, so no request leaves one replica ended and the others running on.
ReplicasEndTogether ==
  [][answer'.others # "idle" =>
       (answer'.status = None <=> answer'.others = "ended")]_actionVars

OnNode == {"GET_NODE", "DELETE_NODE"}
OnNumber ==
  {"GET_RELATIONSHIP", "DELETE_RELATIONSHIP", "DELETE_RELATIONSHIP_PROPERTIES"}
OnNumberProperties ==
  {"PUT_RELATIONSHIP_PROPERTIES", "PUT_RELATIONSHIP_PROPERTY",
   "DELETE_RELATIONSHIP_PROPERTY", "GET_RELATIONSHIP_PROPERTY"}

\* The requests on a number that carry no body, which could be unreadable.
Bodiless ==
  OnNumber \cup {"DELETE_RELATIONSHIP_PROPERTY", "GET_RELATIONSHIP_PROPERTY"}

InLedger(e) == held[e] > 0

\* Whether the client's ledger allows this answer.
Fits(a) ==
  LET good   == a.status \in Success
      counts == a.k \in 1 .. held[a.on]
      joined == {a.on[2], a.on[3]} \subseteq posted
  IN
  /\ a.action \in OnNode => (good <=> a.on \in posted)
  /\ a.action \in OnNumber => (good <=> counts)
  /\ a.action \in OnNumberProperties => (good => counts)
  /\ a.action = "PUT_RELATIONSHIP_PROPERTIES" /\ a.status = 404 => ~ counts
  /\ a.action \in Bodiless /\ a.status = None => joined /\ ~ counts
  /\ a.action = "POST_RELATIONSHIP" /\ good => (a.body # Null <=> joined)
  /\ a.action \in {"POST_RELATIONSHIP", "GET_RELATIONSHIP"} /\ good /\ a.body # Null =>
       /\ a.body.type = a.on[1]
       /\ a.body.from = Source(a.on) /\ a.body.to = Target(a.on)
  /\ a.action = "GET_RELATED_TYPE" => (good <=> InLedger(a.on))
  /\ a.action = "GET_RELATED" =>
       (good <=> \E t \in Types : \/ InLedger(<<t, a.on[1], a.on[2]>>)
                                  \/ InLedger(<<t, a.on[2], a.on[1]>>))
  /\ a.action = "GET_RELATIONSHIP_TYPE_COUNT" /\ a.on \in KnownTypes =>
       a.body = SumFunctionOnSet(held, {e \in Triples : e[1] = a.on})

\* The server never contradicts itself: a client that books what its POSTs and
\* DELETEs are answered gets, from every later request, the answer its books
\* call for.  What the books count is read and deleted with success, what they do
\* not count is answered with 404, or not at all where both nodes exist.  It
\* stops keeping books when it deletes a node with relationships or uses one of
\* the two bulk property deletions.  The books say nothing of the count of a type
\* that has never been used, which is answered with 200 and 0 where
\* uranusdb.yaml:97-98 documents 404, "Relationship Type Not Found".
AnswersFitLedger == [][tidy => Fits(answer')]_actionVars
=============================================================================

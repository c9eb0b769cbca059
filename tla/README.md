# A TLA+ verification project for UranusDB

UranusDB is an in-memory property graph behind an HTTP server. One IO thread
receives requests and passes them through an LMAX Disruptor ring to a
persistence thread and to one replica thread per processor; every replica keeps
a whole graph of its own. This directory holds TLA+ modules of the graph and of
the request pipeline, of the HTTP handlers and the Gremlin adapter over the graph,
TLC configurations that check them on small instances, and TLAPS proofs about the
pipeline, the graph, the handlers and the adapter for every size.

Paths below are relative to `src/main/java/com/uranusdb/`.

## 1. Inventory

### ReversibleMultiMap (`graph/ReversibleMultiMap.java`)
- State: four Guava `ArrayListMultimap`s, `from2to`, `from2rel`, `to2from`,
  `to2rel`: per node the list of neighbours and the list of relationship ids, in
  both directions.
- Operations: `put`, `removeRelationship`, `removeAll(node)`, `clear`, and sizes,
  lists and iterators.
- Hard: the lists of one side are read as parallel, but each removal drops the
  *first* equal value of each list, so with parallel relationships they stop
  being parallel. `removeAll` pairs them by position and throws when one is
  shorter.
- Correct when: both directions describe the same pairs; each relationship that
  exists is in both its ends once; `removeAll` never overruns.

### FastUtilGraph (`graph/FastUtilGraph.java`, `graph/Graph.java`)
- State: `nodeKeys` (label -> key -> id), `nodes` (a list of maps; the id is the
  position), `deletedNodes` (ids for reuse), `relationshipKeys` (type + number ->
  packed pair -> id), `relationships` (a list of maps), `related` (type ->
  ReversibleMultiMap), `relationshipCounts` (per type), `relatedCounts` (per type
  and pair).
- Operations: the `Graph` interface: add, remove, properties of nodes and
  relationships (by names, by names and number, by id), counts, degrees,
  traversals, `related`, `clear`.
- Hard: the same facts are kept in five places that every operation must move
  together; ids are reused; the by-id, the by-name and the numbered operations
  trust different copies; several methods throw after their first writes; two
  bulk deletions *insert* into the lists whose positions are ids.
- Correct when: no two names share an id; a name leads to its own map; numbers of
  a pair are 1..count without gaps; counts, degrees and `related()` agree with
  what exists; an operation takes no number from a relationship that lives on.

### Request pipeline (`server/RequestHandler.java`, `server/UranusServer.java`, `events/`)
- State: the ring of `ExchangeEvent`s (request, exchange, body, responder), the
  cursor, per thread its position, batch and published sequence; the Chronicle
  queue; one graph per replica.
- Operations: claim, fill, publish (IO thread); choose the responder, read the
  body, journal (persistence thread); apply, answer, or skip (replica threads).
- Hard: slots are reused; published sequences lag by batches; replicas run at
  different speeds; a failing body read is swallowed; a handler that throws ends
  its thread, and with it, in the end, the server.
- Correct when: no slot is overwritten early; replicas apply the same writes in the
  same order; each request is answered once, to its own exchange, with what a
  single graph would answer; the journal is ahead of every acknowledgement.

### HTTP actions (`actions/`)
- State: none of their own. Each of the 22 actions decodes parameters and body,
  calls its replica's graph, and, on the responder only, sends status and body and
  clears the event.
- Hard: work that only the responder does, and exceptions in it, could split replicas
  into those that die and those that live; the answer is read back from the graph
  by another path than the one that wrote it (`PostRelationship`: always number 1);
  numbers and bodies come from the client unchecked.
- Correct when: a handler ends all replicas or none, unless it is a read; each status
  agrees with what earlier statuses said has happened.

### Gremlin adapter (`languages/gremlin/structure/`)
- State: vertices and edges that cache an id, a label and a key, over one
  FastUtilGraph.
- Operations: `addVertex`, `addEdge`, `remove` and property writes of vertices and
  edges, `close`; iterations.
- Hard: elements outlive what they stand for, ids are reused, and the same element is
  found now by its cached name, now by its cached id; the one client of the by-id
  operations.
- Correct when: an edge keeps its ends and its number; iterations meet what exists.

### Configuration, constants and Swagger UI
No state; the ring size and the number of threads are constants of `Pipeline`. The
Swagger UI is a third-party bundle served as static files.

### How they interact
HTTP request -> `RequestHandler` -> ring -> `PersistenceHandler` -> ring ->
`DatabaseEventHandler(i)` -> action -> `graphs[i]` -> answer. One graph is used by
one thread only, so graph operations are atomic steps; all concurrency is in the
pipeline. The Gremlin adapter calls a graph directly. This is why the graph and
the pipeline are separate modules: the pipeline takes the graph as parameters
(`Apply`, `Reply`, `Throws`), and what is proved of it holds for any graph. The
handlers are the other half of that cut: because the pipeline keeps the replicas
equal, `Actions` needs one graph for all of them.

## 2. Modules

| module | models | code |
|---|---|---|
| `ReversibleMultiMap` | the index of one type, as operators on a record | `ReversibleMultiMap.java` |
| `FastUtilGraph` | the graph: one action per operation of `Graph` | `FastUtilGraph.java` |
| `NumberedGraph` | what the graph promises a client of the by-name operations | (abstract) |
| `MCFastUtilGraph` | the clients, views, the refinement mapping | |
| `Actions` | the 22 HTTP handlers over the graph, and the books a client keeps | `actions/`, `DatabaseEventHandler`, the routes of `UranusServer` |
| `Gremlin` | the elements of the TinkerPop adapter over the graph | `languages/gremlin/structure/` |
| `MCActions`, `MCGremlin` | their views and operations | |
| `Pipeline` | IO, persistence and replica threads around the ring | `RequestHandler`, `UranusServer`, `events/` |
| `AtomicDatabase` | what the server promises: one graph, requests one at a time | (abstract) |
| `MCPipeline` | a graph that is the list of its writes; handlers that throw | |
| `Pipeline_proofs` | the safety of `Pipeline`; that it implements `AtomicDatabase` | |
| `ReversibleMultiMap_proofs` | lemmas about the index: what `put`, `removeRelationship` and `removeAll` do to its lists | |
| `FastUtilGraph_proofs` | types, node ids, the index and the list of relationships, for the HTTP and the embedded client | |
| `Numbering_proofs` | no operation takes the number of a relationship that lives | |
| `NamedClient_proofs` | numbers, counts and `related()` of the client of the by-name operations | |
| `NumberedRefinement_proofs` | `FastUtilGraph` implements `NumberedGraph` | |
| `Actions_proofs` | the handlers end all replicas or none; every answer fits the client's books | |
| `Gremlin_proofs` | edges keep their ends, their numbers and their places, across stale elements and closings | |

The modules named `_proofs` hold proofs only; TLC runs none of them.

### FastUtilGraph
The variables are the fields, under their names, plus `result`, what the last
operation returned or whether it threw. A member of `Names` stands for a (label,
key) pair. The packed long key is the pair of ids, the string key `type + count`
the pair of its parts, a map is a record of its `~` entries and the user's
properties. An absent `~count` is 0.

Every early return is `Unchanged(op, "refused")`, every exception `"threw"`, with
whatever was written before it kept: a half-done `removeNode` is
`RemoveNodeThrows`, a numbered removal that meets no relationship has already
lowered both counts (`RemoveNumber`). Queries change nothing and are operators;
the properties are stated with them, so that what is checked is what a caller
sees. Mistakes of the code are in the model as they are: `deleteNodeProperties`
and `deleteRelationshipProperties` insert; `removeNode` leaves keys and pair
counts; `removeRelationship(int)` lowers no count; `clear` leaves
`relationshipKeys`.

A freed id is reused smallest first, as `deletedNodes.first()` does.

`Ops` selects the operations a client uses. Which properties hold depends on it,
and each run says for whom. `Clear` is not a step of this module's `Next`: only the
Gremlin adapter calls it, and it is fired there.

### NumberedGraph and the refinement
The promise: per type and pair of nodes a list of relationships; a new one goes to
the end, a removal without a number takes the last, one with a number moves the
last into its place. `MCFastUtilGraph!Numbered` maps the graph to it: the list of
a pair is what `relationshipKeys` leads to for the numbers 1..`relatedCounts`. The
refinement covers the answers: `result` holds the last call with its arguments and
outcome, so that a refusal is compared with the very pair and number it was about.
TLC checks it in `FastUtilGraph_named`, and `NumberedRefinement_proofs` proves it.

### Actions
`Actions` extends `FastUtilGraph`. One action per handler, named after it
(`HandlePostNode` for `PostNode.handle`); it calls the graph's own action and then
`Written`, which says what the responder answers and what became of the other
replicas. A read is `Read`: only the responder does it, and null is answered with
404. `answer` is the last request with its status (`None` if nothing is sent), the
part of the body the properties look at, and `others`, what the request did to the
other replicas. When a write throws before the graph is called, or in it, every
replica throws: `alive` falls, and nothing follows. When only the responder throws,
the others go on, and so does the model; a server that has lost its last replica to a
series of such reads is the subject of `Pipeline`.

`posted` and `held` are the client's books: the nodes and the number of parallel
relationships that the answers it got imply. `tidy` says that it still keeps them. It
closes them when it deletes a node with relationships (pair counts stay behind) or
uses a bulk deletion of properties (which inserts): what is wrong after those is
checked by the expected violations. The books are history; no guard reads them.

### Gremlin
`Gremlin` extends `FastUtilGraph` with the elements the client holds. A vertex is the
id and the name it was made with, an edge its id, the names of the two vertices `addEdge`
was called with, and `stale`: whether the second was by then not what its id leads to. The
client never lets go of one except by closing the graph, so every stale
handle stays in use. Operations go by the cached name or the cached id exactly as the
code does: a vertex is removed and written by name, its properties are removed by id;
an edge is found by id.

`LabelOf` and `KeyOf` take a name apart where the code does. `addEdge` looks its target up
by the label the vertex has cached and the key its *id* has now (`TargetId`): if the id has
passed to a vertex of another label, the edge goes to a third vertex that happens to have that
label and key, or the call is refused.

Here `tidy` says that no vertex was removed while others had
edges to it: `removeAll` clears one direction, and the lists of the others keep the
removed edges.

### AtomicDatabase and the refinement
The promise: requests take effect one at a time on one graph, in the order they were
submitted; replies are sent in any order, each at most once; a write may lose the tail
of its body to an I/O error. `Pipeline!Atomic` takes the graph of the replica that is
furthest (`Lead`) for the database and its position for the number of requests that have
taken effect. The step of that replica is `Execute`; a responder behind it is `Answer`;
everything else stutters.

### Pipeline
| action | code |
|---|---|
| `Claim`, `Fill`, `Publish` | `RequestHandler.handleRequest`: `ringBuffer.next()`, `setRequest`/`set`, `publish` |
| `BeginBatch`, `EndBatch` | the loop of the Disruptor's `BatchEventProcessor` (external) |
| `Persist` | `PersistenceHandler.onEvent`, the swallowed `IOException` included |
| `Skip`, `Replicate`, `Respond` | `DatabaseEventHandler.onEvent`: a read for another replica, a write by a replica that does not answer, the responder |
| `Die` | an exception leaving `onEvent`: the Disruptor's default handler rethrows, the thread ends without publishing |

`log`, `bodies` and `states` are history: the requests in order, what the
persistence thread made of their bodies, and the graph each should find. No
guard reads them. A thread handles one event per step and publishes only at the
end of its batch, as the library does. The library's part is modelled from its
contract as the server uses it and marked external. An answer goes to the
exchange the slot holds; `ExchangeEvent.clear()` empties it.

The claim of a slot waits for the replicas only: in the Disruptor the gating
sequences are those at the end of the handler chain.

## 3. Runs

Graph runs use two names, one type, and at most three
relationship ids (four in `named`, two in `Actions` and the expected violations). Ids of
relationships are never reused, so three allow: three parallel relationships with a
removal in the middle; a removal, then a new relationship with a number used before;
two parallel ones beside one to another node or from the node to itself. The fourth
lets `named` add again after such a removal from three. In `Actions` two ids give a pair
of parallel relationships, each of which can be removed first.

| run | client | checks |
|---|---|---|
| `FastUtilGraph_named` | by-name operations, properties of relationships; detaches a node before removing it | `NumbersDense`, `CountsExact`, `RelatedExact`, refinement of `NumberedGraph` |
| `FastUtilGraph_http` | everything the HTTP actions call | `NodeIdsSound`, `RemoveAllNeverOverruns`, `EndsMirrored` |
| `FastUtilGraph_embedded` | removes by names and numbers, nodes with their relationships; properties of nodes, and of relationships by id; reserved names; no removal by id, no insertions | `TypeOK`, `NodeOwnRecord`, `LiveIsIndexed`, `NumberNeverStolen` |
| `FastUtilGraph_shifting` | structure changes, removal by id, insertions | `IndexedIdsAllocated`; the only run in which `removeNode` throws half way |
| `FastUtilGraph_unrelated` | HTTP | expected violation of `UnrelatedNotRelated` |
| `FastUtilGraph_typecount` | HTTP | expected violation of `TypeCountAfterRemoval` |
| `FastUtilGraph_shifted` | HTTP | expected violation of `NodeOwnRecord` |
| `FastUtilGraph_ownproperties` | by name | expected violation of `ReadsOwnProperties` |
| `Actions_requests` | every handler; empty, unreadable and reserved bodies; numbers 0, 1, 2 | `ActionsTypeOK`, `ReplicasEndTogether`, `AnswersFitLedger` |
| `Gremlin_elements` | a TinkerPop client with stale elements and `close`; vertices of two labels | `GremlinTypeOK`, `EdgeKeepsEnds`, `EdgesIterable`, `RemoveFindsOwnNumber`, `LiveIsIndexed` (with removal by id) |
| `Pipeline_replicas` | three replicas; handlers that throw in one replica or in all | `TypeOK`, `SlotsKept`, `ExchangeFound`, `ReplicasInOrder`, `AnswersLinear`, `JournalAhead`, refinement of `AtomicDatabase`, `AnsweredOrEnded`, `RingDrains` |
| `Pipeline_unanswered` | two replicas; a read that throws | expected violation of `AllAnswered` |

**What the larger properties say.** `AnswersFitLedger`: after any sequence of requests the
books decide the answers.
- Reads and deletes of nodes and of numbered relationships, and the bulk deletion of a
  relationship's properties, succeed exactly when the books count their element. The other
  operations on a relationship's properties succeed only then; the conflicts with a reserved
  or an absent property are in their statuses too, and the books do not know those.
- 404 and no answer are told apart: a number the books do count is never met with silence,
  nor is one of a pair whose nodes are not both there, unless the body cannot be read. Where
  both nodes are there and the number is not, either may happen, and which is what
  `AllAnswered` is about.
- `related` is exact, and so is the count of a type that has been used. For a type nobody
  has used the code and its documentation disagree (see the end of this section), so the
  books say nothing of it.
- The body of a `POST` is a relationship between the nodes asked for.

`ReplicasEndTogether`: the read-back that only the responder does never
throws after a write that did not. `RemoveFindsOwnNumber`: an edge's number leads to that
edge, also in a graph that was closed and still has the keys of the old one: the keys a
new edge uses are overwritten when it is added. `EdgeKeepsEnds`: an edge that was not
removed leads to the two vertices `addEdge` was called with; if the second was stale, to a vertex
of its label, which is all the code gives. `AnsweredOrEnded`: a replica that has
ended costs only the requests it should have answered itself, and those the full ring
keeps out.

**Why the clients differ.** `NumbersDense`, `CountsExact` and `RelatedExact` fail
as soon as a node is removed with its relationships (keys and pair counts stay) or
a relationship by id (counts stay). They are checked for the client the code does
serve. `NodeIdsSound` and `RemoveAllNeverOverruns` hold for everything the HTTP
actions do; with removal by id after an insertion, `removeNode` can throw half
way and leaves a name with a freed id, and then neither holds.

`NumberNeverStolen` allows for a relationship that is moved to another number of its
pair, which is what a numbered removal does. It still fails for three clients, each
for a reason in the code, and is checked and proved for the one that is none of them:
- a client that removes by id: `removeRelationship(int)` drops the key of the `~count`
  its map shows, and a map without one drops number 1, whoever has it;
- a client that passes number 0: the removal of number 0 lowers the count of the pair
  and then throws, and the next relationship takes the number of a living one;
- one that inserts into the list of relationships (the bulk deletion of properties),
  once a node has been removed too: it takes six relationships, beyond the bounds of
  the HTTP run, which is why the property is not in it.

**Bounds.** `MaxNodes` and `MaxRelationships` bound the lists: `http` has one more
node position than names so that an insertion fits. `MaxEdges` bounds the edges a
Gremlin client adds over all closings of the graph (`spent` counts those before the last
one): with three, up to two can be added after a closing that left keys. `MaxDebt = 1` bounds how far a type's count falls below
zero; one step below zero shows the fault and what follows from it. In `Gremlin_elements`
there are three names, `person one`, `person two` and `place two`, and two node positions: an id
can pass from `person one` to `place two`, and a stale vertex then reaches `person two`. The
third edge is added in graphs of persons only (`SmallGraph`): three edges are for parallel ones
and removals from the middle, for which labels make no difference. `Numbers`
includes 0 in `shifting` and `Actions`: a number no relationship has, for which the code looks
up a key that does not exist. Pipeline: a ring of two slots and four requests, so
every slot is reused, once as the predecessor of a wrap and once after it; three
replicas, so that one answers, one lags and one dies in the same run.

**Views and symmetry.** `GraphView` leaves out `result`: no guard reads it and the
invariants of those runs do not depend on it (`TypeOK` bounds its outcome, which every
action takes from `Outcomes`). `ActionsView` and `GremlinView` leave out the last answer and
the result in the same way, `GremlinView` also the properties, and what an edge that is
gone remembers of its ends (`GremlinTypeOK` bounds both, and is proved); the action properties of `Actions` are about `answer'`, which
is compared on every step. `ListView` also leaves out the
contents of node maps, which `NamedPropertyOps` never read. The refinement is about
`result`, but as an action property it is checked on every step before the view
identifies the step's end with a state seen before; and a state that is kept for its
new graph was reached by a step that changed the graph, so no refusal is ever taken for
a stutter. Names are interchangeable, so the safety runs use
their permutations, but for `Gremlin_elements`, whose names carry labels; no liveness run uses symmetry or a view.

**Deadlock** is checked in the graph and Gremlin runs: some operation is always enabled, if
only to be refused. It is not checked in `Actions_requests`, where a write that throws ends
every replica and nothing follows, nor in the pipeline runs: the clients stop after
`MaxSequence` requests and the server may then rest, and a server whose threads
have died stops for good. That it does not stop otherwise is `AnsweredOrEnded` and
`RingDrains`.

**Fairness** (`Pipeline!Fairness`): weak fairness of the IO thread's steps after a
claim, of the persistence thread, and of each replica thread. Each runs on a thread
of its own of a cached pool with a yielding wait strategy, so a step that stays
possible is taken. There is none on `Claim`: clients need not send.

### What the expected violations show
- `UnrelatedNotRelated` (`graph/FastUtilGraph.java:1052`): `removeNode` leaves the keys
  of the relationships it removes; after the id is reused `related()` says yes for
  two nodes that never had one, against `RelatedTest.shouldNotFindUnRelated`.
- `TypeCountAfterRemoval` (`:162`): a relationship from a node to itself is subtracted
  twice.
- `NodeOwnRecord` (`:226`): `nodes.add(id, ..)` inserts, so later nodes are read with
  their predecessor's map.
- `ReadsOwnProperties` (`:275`): the second relationship of a pair, added without
  properties, shows no `~count`; its properties read by id are those of the first.
- `AllAnswered` (`:407`): reading a relationship of a type nobody has used, between
  nodes that exist, throws and ends the replica's thread. The request gets no answer
  (the API documents a 404), nor does any later one of that replica, and once the
  ring is full nothing does.


One disagreement has no run of its own. The count of a type no relationship has had is answered
with 200 and 0 (`actions/relationshiptype/GetRelationshipTypeCount.java:16`), where the API
documents 404, "Relationship Type Not Found" (`uranusdb.yaml:97-98`). It is one request to the
start state and needs no search; `AnswersFitLedger` leaves the case out.

## 4. Proofs

Everything below holds for every value of the constants: any ring, any number of
replicas, any names, types, properties and bounds.

| module | theorem | property | client |
|---|---|---|---|
| `Pipeline_proofs` | `Inductive` | the inductive invariant `IInv` | |
| | `TypeCorrect` | `TypeOK` | |
| | `SlotsAreKept` | `SlotsKept` | |
| | `ExchangeIsFound` | `ExchangeFound` | |
| | `ReplicasAgree` | `ReplicasInOrder` | |
| | `AnswersAreLinear` | `AnswersLinear` | |
| | `JournalRunsAhead` | `JournalAhead` | |
| | `ServerIsAtomic` | `ImplementsAtomic` | |
| `FastUtilGraph_proofs` | `GraphTypeOK` | `TypeOK` | any |
| | `IdsAllocated` | `IndexedIdsAllocated` | any |
| | `RemoveNodeCompletes` | `RemoveAllNeverOverruns` | `StableClient` |
| | `NeighboursMirrored` | `EndsMirrored` | `StableClient` |
| | `NodeIdsStaySound` | `NodeIdsSound` | `StableClient` |
| | `NodesKeepTheirRecords` | `NodeOwnRecord` | `StableClient` without `deleteNodeProperties` |
| | `LiveStayIndexed` | `LiveIsIndexed` | without `deleteRelationshipProperties` |
| | `PackedKeysDistinct` | (the key of a pair of ids) | |
| `Numbering_proofs` | `NumbersStay` | `NumberNeverStolen` | `NumberingClient` |
| `NamedClient_proofs` | `NumbersAreDense` | `NumbersDense` | `NamedClient` |
| | `CountsAreExact` | `CountsExact` | `NamedClient` |
| | `RelatedIsExact` | `RelatedExact` | `NamedClient` |
| `NumberedRefinement_proofs` | `GraphIsNumberedLists` | `NumberedGraphSpec` | `ListClient` |
| `Actions_proofs` | `ActionsTypeCorrect` | `ActionsTypeOK` | the handlers |
| | `NoReplicaEndsAlone` | `ReplicasEndTogether` | the handlers |
| | `BooksAreKept` | `AnswersFitLedger` | the handlers, `Names` finite |
| `Gremlin_proofs` | `ElementsKeepTypes` | `GremlinTypeOK` | the adapter |
| | `EdgesKeepTheirEnds` | `EdgeKeepsEnds` | the adapter |
| | `RemovalFindsTheNumber` | `RemoveFindsOwnNumber` | the adapter |
| | `EdgesStayIndexed` | `LiveIsIndexed` | the adapter |
| | `EdgesStayIterable` | `EdgesIterable` | the adapter |

### The pipeline
**Assumptions**: `RingAssumption` (ring size and number of replicas are positive),
`RequestAssumption` (bodies have a type), `DatabaseAssumption` (`Apply` and `Reply` stay
in their sets, `Throws` is Boolean), `NoEventAssumption`. Nothing is assumed of *when*
handlers throw: the safety properties survive dying threads.

**Argument.** None of the properties is inductive. `IInv` has three layers, each
preserved with the help of those before it.
1. `Shape`: `TypeOK`; `Positions`, the order of all counters (each thread between what
   it has published and the end of its batch; replicas behind what the persistence
   thread has *published*; that thread behind the cursor; histories as long as the
   positions say); `Claimed`, a claimed slot is one all replicas have left; `Window`, the
   slowest replica is at most one ring behind.
2. `Content`: `SlotsKept`; `Filled`, the slot being published holds the pending request;
   `ExchangeKept`, an exchange stays in its slot until its responder is past it. The key
   lemma is `SlotDistinct`: two sequence numbers less than a ring apart lie in different
   slots. With `Window` it says the slot being filled or persisted is none of those
   still to be read.
3. `Meaning`: `StatesFollow` and `ReadsHaveNoBody` tie the histories together;
   `ReplicasInOrder`, `AnswersLinear`.

`JournalAhead` is proved on top of `IInv`, with the counting lemmas `WritesGrow` and
`JournalPlace`.

**Refinement.** `RInv` adds two invariants to `IInv`: `AnsweredBehind` (who answered a
request is past it, so no reply is sent twice) and `BodiesTaken` (what the persistence
thread took is the body or a cut of it). `Lead` is chosen among the replicas that are
furthest, and another may be chosen after a step; `LeadState` says that this does not
show: every replica that is furthest holds `states[next + 1]`. A step of the furthest
replica is `Execute` (`MoveFirst`), one of a responder behind it is `Answer`
(`MoveBehind`), everything else stutters (`OtherSteps`, `PersistStill`).

### The graph
**Assumptions**: `NullIsFresh` and `NullIsNoMap` (null is no map and no value),
`MetaAssumption` (reserved names are property names), `OpsAssumption` (the client calls
operations of the interface), `BoundsAssumption` (the bounds are numbers). They fix the
model's sets and say nothing of what the code does.

**Clients.** What the graph promises depends on which of its operations are mixed. Each
condition is on the constants `Ops` and `Numbers`, is satisfied by a client the
repository has or describes, and is needed:
- `StableClient` never calls both `removeRelationshipById` and
  `deleteRelationshipProperties`. The HTTP client calls the second only, the Gremlin
  adapter the first only. The insertions of the second move the maps away from their
  ids, after which removal by id unlinks the ends of another relationship; in
  `FastUtilGraph_shifting` `removeNode` then throws half way.
- Without `deleteNodeProperties`: its insertion is what `FastUtilGraph_shifted` shows.
- Without `deleteRelationshipProperties`: an inserted map shows an id that is not its
  position, so `LiveIsIndexed` says nothing true of it.
- `NumberingClient` neither removes by id nor inserts, and passes numbers from 1 on; see
  "Why the clients differ".
- `NamedClient` is a `NumberingClient` that calls `removeDetachedNode` in place of
  `removeNode`: keys and pair counts outlive the relationships removed with a node,
  which is what `FastUtilGraph_unrelated` shows.

- `ListClient`, the client of `FastUtilGraph_named`: the by-name operations with the
  properties of relationships, `removeDetachedNode` in place of `removeNode`, and numbers
  from 1 on. It is a `NamedClient` and a `StableClient` (`ListClientIs`).

**The kinds of step.** The lemma `Kinds` takes the operations apart once: every step of
`Next` changes nothing, changes only nodes, removes a node (done or half done), links a
relationship, removes one by id or by number, inserts one into the list, or changes
properties. Every invariant below is proved preserved over these kinds, not over the
actions.

**The index.** `removeAll` is a loop over two lists that meet by position and differ in
what they hold. It is modelled by a recursive function; `LoopExists` and
`UnlinkedIsLoop` turn that into an unfolding for a given length, and `RemoveAllEffect`
states what the loop leaves, in terms of how often a value is in a list (`Times`). A list is
described by counting, because "remove the first equal value" disturbs positions and not
counts: `RemoveFirst` lowers the count of one value by one.

**The layers.** None of the properties but `NodeIdsSound` and `NodeOwnRecord` comes near
being inductive. The invariant has layers, each with a client condition of its own:
1. `TypeInv` (any client): `TypeOK`; `IndexTyped`, every list of an index holds node ids
   and ids handed out so far; `KeysAllocated`, and every key leads to such an id.
2. `IndexInv` (`StableClient`): there is a function from every id handed out to the
   node it was linked to (`ends`), such that keys and records agree with it and in each
   index (a) the incoming ids of a node cover its incoming neighbours (`Covers`), and (b)
   outgoing and incoming neighbours are the same pairs, each as often (`BothWays`).
   The existential is what survives a removed relationship whose id stays in a list: the
   id still has its end, though no record says which. (a) is why `removeAll` finds an id
   for each neighbour and so never overruns.
3. `LiveInv` (no insertions): a record stands at the position of its id and its id is once
   in the outgoing list of its source and once in the incoming list of its target.
4. `NumberInv` (`NumberingClient`): `KeysShaped` (keys are of known types, pairs of ids and
   numbers no larger than the list); `SpareKeysDead` (a key above the count of its pair
   leads to nothing that lives); `CountsKeyed` (every number up to the count has a
   key); `ListBounded`. The numbers up to the count may lead to removed relationships
   after a node was removed: only with `SpareKeysDead` does a new relationship, which
   takes count + 1, take nobody's number.
5. `KeyInv` (`NamedClient`): `KeysLead` (a key leads to a living relationship of its type
   and pair, with a number up to the count); `KeysDistinct`; `LiveKeyed` (every living
   relationship has a number). The step to watch is the numbered removal, which moves
   the last number into the gap (`FreedKeyed`).
6. `ListInv` (`NamedClient`): `ListsPaired` (as many ids as neighbours in each list, as
   the pair counts say); `ListsLive` (no list holds what does not live); `TypesCounted`
   (the count of a type is the number of relationships that live).

`NumbersDense` follows from layers 4 and 5, `RelatedExact` from 5, `CountsExact` from 3
and 6, with `ListCardinality` (a list without repetitions is as long as its set) and
`SumOfOne` (the fold in `NodeDegree`, for one type).

**The refinement of `NumberedGraph`.** `ListInvariant` is layers 1, 4, 5 and 6 with
`NodeIdsSound` (two names never share a list) and `Homed` (a node that is gone has no
counts, so a name whose id is reused starts with empty lists). The list of a pair is
*read* from the keys: `ListsAre` says the numbers up to the count lead to entries of the
list of relationships, `ParallelsAre` reads the mapped variable list by list. Then:
1. Every operation on relationships replaces one list and leaves the others
   (`OneList`): `LinkLists` appends, `FreedLists` takes one out and moves the last into
   its place, `PropsLists` changes the properties of one entry. That the *others* stay
   is the hard half: it is `KeysDistinct`, no id under two keys, which keeps a nulled or
   changed map out of every other list. `OneParallel` carries this over to the mapped
   variable.
2. Each action maps to the one of `NumberedGraph` with the same call, outcome and id
   (`LinkMapped`, `RemoveLastMapped`, `OnNumberMapped`, ...), its refusals and
   exceptions to steps that change no list (`NothingMapped`).
3. `NodeMapped`: adding a node makes empty lists and removing a detached one leaves
   none, because all its counts are 0.

Together, `NextRefines` gives a step or a stutter for every step of the graph, and
`InitRefines` the start.

### The handlers
**Assumptions.** Those of the graph; `NoneIsNoStatus` (no status is not a status) and
`NullIsNoYes` (null is not the answer "yes"), which fix how answers are written down. The
spec is that of the handlers and not of a client with a condition on it: numbers below 1,
bodies that cannot be read and nodes deleted with their relationships are all in it.
`BooksAreKept` assumes that `Names` is finite: the total the books give for a type is a
sum over all pairs of names, which means nothing for infinitely many.

**Invariant.** None of the conditions on clients above holds of the handlers for good, so
`ActionsInv` is layered by how long each layer holds.
1. Always: `TypeInv`, `IndexInv`, `NodeIdsSound`, and the types of answer and books
   (`LedgerTyped`, `AnswerTyped`).
2. While a replica lives: `KeysShaped` and `CountsKeyed`, every number up to the count of a
   pair has a key. A removal of number 0 breaks this (the counts are lowered and no key
   goes), but it throws in every replica and nothing is asked of that graph again.
   `RequestStep` lists the kinds of step under which it survives.
3. While the books are kept (`TidyInv`): the layers of the by-name client (`NamedInv`),
   `NodeOwnRecord`, `Homed`, and `Books`: the nodes posted are the nodes that are there, and
   what is `held` of a triple is the count of its pair (`HeldAt`). Handlers either
   keep this (`BookedStep`) or close the books (`MuddledSound`, `UnbookedSound`).

**Replicas end together.** A write that did not throw has left its type known, so the
only exception a read-back can meet is a key without an entry in the list: `ReadsOne`
follows from `CountsKeyed` and excludes it, in the state *after* the write. The numbered
handlers read first, in every replica, so what they throw they throw in all.

**Answers.** `ReadsHeld` says what a read with a number finds: something exactly when the
number is between 1 and what the books hold, and then a relationship of that type and of
those ends. With it each handler has one lemma (`...Fits`) that its status is what the
books before it say. The type count needs a sum: `BooksTotal` shows that the living
relationships of a type are as many as the books say, because each belongs to exactly one
triple (`OwnedOnce`) and those of a triple are numbered 1..`held` (`OwnedCount`). That a number
the books count is not met with 404 or silence is `HeldFound`: it passes the checks, and
its key leads to a map. That silence needs both nodes is `ThrowsAreJoined`. That the
sum over the triples counts their union, `SumCounts`, would be an induction on a finite
set; it is proved from a least counterexample instead.

### The Gremlin adapter
**Assumptions**: those of the graph, `EdgesAssumption` (`MaxEdges` is a number) and
`NamesAssumption` (a label and a key make one name). The
theorems say `"deleteRelationshipProperties" \notin Ops`: the adapter never calls it, no
action of `Gremlin` is it, and the step lemmas of the graph ask for it. Nothing is assumed
of which elements the client uses or when it closes the graph.

**Why the graph's invariant does not do.** `clear` empties the nodes, the list and the
index and leaves `relationshipKeys`. After it the keys of the old graph lead to ids that
have not been handed out, and `TypeInv` (through `KeysAllocated`) and the ends of keys no
longer hold. `FastUtilGraph_proofs` is therefore split where the keys come in: `RelsTyped`
are the types without `KeysAllocated`, `EndsInv` the ends of the relationships without
those of the keys. Both survive a closing, and so do the types of the keys
(`EmptiedSound`).

**Invariant.** `GremlinInv` has four parts, preserved over the kinds of step the adapter
takes (`AdapterStep`) and over the closing:
1. `GraphInv`. For the nodes, `NodeIdsSound`, `NodeOwnRecord` and `RecordsNamed`: a map in
   the list leads to a name and that name back to it, so an id a client holds never leads to
   a map nobody owns. For the relationships, `RelsTyped`, `EndsInv`, `LiveInv` and
   `InLists` (what is in an incoming list and lives comes in there). For the keys only
   `LiveNumbered`, which speaks of the numbers in use: the number a living
   relationship's map shows has a key that leads to it, and is no greater than the count of
   its pair. A new relationship takes the count plus one, and nothing but the closing
   lowers the count of a pair (removal by id leaves it), so nothing that lives has its
   number; after the closing nothing lives. The keys that a removed node or a closing leaves
   behind are overwritten when their numbers come up again.
2. `ElementsTyped`: `vertices` and `edges` are of their types, edge `i` has id `i - 1`.
3. `EdgeEnds`: the ids in the map of an edge are those its source and one of `Reached` have
   now: the vertex `addEdge` was called with or, where that was stale, one of its label. The
   target lookup is taken apart in `TargetIs`: when the vertex is not stale, its label and the
   key of its id are its own name again. It is kept when a
   name goes because every relationship of the node goes with it, and it is why a reused id
   shows an edge no stranger.
4. `TidyLists`: as long as `tidy` holds, the outgoing lists hold only what lives. Neighbours
   and relationships of a node are two lists that removals put out of step, so position says
   nothing; `OutAt` counts instead. For every neighbour `y`, the list of relationships has no
   more entries that lead to `y` than the list of neighbours has entries `y`, and every neighbour is a
   node. `OutOneLess` keeps the count under a removal by id, `OutRemoveAll` under the
   removal of a node that nobody else leads to.

`EdgesIterable` follows from `LiveInv` (nothing is missing) and `TidyLists` (nothing is
there that was removed). It speaks of outgoing lists only: `removeAll` pairs positions that
no longer agree, and an incoming list may keep a removed id.

### Only model-checked
Every safety invariant of the passing runs is stated by a theorem above. What is left:
- Liveness, `AnsweredOrEnded` and `RingDrains`: TLAPS has no ENABLED and so no fairness.
- The expected violations, which are false.

## 5. Not modelled
- HTTP decoding, JSON and serialization: a body is empty, unreadable, or a map or value.
- `exchange.dispatch()` after publishing: what Undertow does with it on an ended
  exchange is the library's.
- A restart: the server never reads its journal, so there is no recovery to model.
- TinkerPop's checks of arguments, its features and variables, the console plugin: they
  keep nothing of the graph. `g.V()` and property reads, which only look at one map.
- Reading a `~` entry as if it were a property.
- The packing of two ids in one long is modelled as the pair. That this loses nothing is
  the theorem `PackedKeysDistinct`.
- The string key `type + count` (T1 + 1 and T + 11 are equal): it takes eleven parallel
  relationships. A client's own map shared by two elements: neither client the repository
  has does that.
- The end of the persistence thread. It catches the `IOException` of the body read and
  nothing else; an unchecked exception, of the journal for instance, would end it and stop every
  replica behind it. `Pipeline` never lets it end, so `AnsweredOrEnded` and `RingDrains` are
  about servers in which it lives.
- A replica's graph after its handler threw: nothing reads it again.
- `static/swagger-ui/*.js`: minified third-party JavaScript with no part in the
  program's behaviour. It is the only code of the repository outside Java.

## 6. Plan
Built: 1. the index and the graph; 2. the pipeline; 3. its safety proofs; 4. `Actions`;
5. `AtomicDatabase`; 6. `Gremlin`; 7. the refinement of `AtomicDatabase`, proved; 8. the
proofs about the index and the graph; 9. the packed key and the refinement of
`NumberedGraph`, proved; 10. the types, the common end of the replicas and the answers of
`Actions`, proved; 11. the properties of `Gremlin`, proved.

Nothing of the plan is left. Liveness stays with TLC, and what section 5 lists stays out
of the modules.

Order of composition: `ReversibleMultiMap` <- `FastUtilGraph` <- `Actions`, `Gremlin`;
`NumberedGraph` and `AtomicDatabase` are implemented by `FastUtilGraph` and `Pipeline`.

------------------------------- MODULE Pipeline -------------------------------
(***************************************************************************)
(* How a request travels through the server (server/UranusServer.java,      *)
(* server/RequestHandler.java and events/): the single Undertow IO thread   *)
(* claims a slot of a Disruptor ring, fills it and publishes its sequence   *)
(* number; the persistence thread picks the replica that will answer, reads *)
(* the body of a write and journals it; then every replica thread applies   *)
(* the write to its own graph, and the chosen one answers.  Reads are       *)
(* executed by the chosen replica only.                                     *)
(*                                                                          *)
(* Sequence numbers start at 0.  A thread publishes its own sequence only   *)
(* at the end of a batch, so the threads behind it lag by whole batches.    *)
(* A handler that throws ends its thread: the default exception handler of  *)
(* the Disruptor rethrows, and the thread's sequence never moves again.     *)
(***************************************************************************)
EXTENDS Integers, Sequences, FiniteSets

CONSTANTS
  RingSize,        \* uranus.disruptor.ring_buffer_size
  THREADS,         \* number of replicas
  Requests,        \* what clients send
  Writes,          \* the requests routed with write = true
  Bodies,          \* contents of request bodies
  Databases,       \* states of a replica's graph
  Replies,         \* what an answer can say
  InitDb,          \* the empty graph
  BodyOf(_),       \* the body a request carries
  Cut(_),          \* what is left of a body when reading it fails
  Apply(_, _, _),  \* the graph after a write and its body
  Reply(_, _, _),  \* the answer to a request and its body
  Throws(_, _, _, _), \* the handler throws on this graph, request and body;
                   \* the last argument says whether it also has to answer
  NoEvent,         \* the value of a slot field nothing was written to
  MaxSequence      \* bound on the number of requests

Replicas  == 0 .. THREADS - 1
Persister == -1
Threads   == Replicas \cup {Persister}
Slots     == 0 .. RingSize - 1

ASSUME RingAssumption == RingSize \in Nat \ {0} /\ THREADS \in Nat \ {0}
ASSUME RequestAssumption ==
  /\ Writes \subseteq Requests
  /\ \A r \in Requests : BodyOf(r) \in Bodies
  /\ \A b \in Bodies : Cut(b) \in Bodies
ASSUME DatabaseAssumption ==
  /\ InitDb \in Databases
  /\ \A d \in Databases, r \in Requests, b \in Bodies \cup {NoEvent} :
       /\ Apply(d, r, b) \in Databases
       /\ Reply(d, r, b) \in Replies
       /\ \A answering \in BOOLEAN : Throws(d, r, b, answering) \in BOOLEAN
ASSUME NoEventAssumption ==
  NoEvent \notin Requests \cup Bodies \cup Nat
ASSUME BoundAssumption == MaxSequence \in Nat

VARIABLES
  io,       \* the IO thread: "idle", "claimed" or "filled"
  pending,  \* the request the IO thread is handling
  cursor,   \* the last published sequence number
  ring,     \* the ExchangeEvents
  next,     \* thread -> the sequence number it will handle next
  avail,    \* thread -> the end of its current batch
  done,     \* thread -> the sequence it has published
  alive,    \* thread -> it has not been ended by an exception
  graphs,   \* replica -> its graph
  journal,  \* the Chronicle queue: one body per write
  answers,  \* the answers sent, with the exchange they were sent to
  log,      \* history: the published requests in order
  bodies,   \* history: what the persistence thread made of their bodies
  states    \* history: the graph each of them should find

vars == <<io, pending, cursor, ring, next, avail, done, alive, graphs, journal,
          answers, log, bodies, states>>
historyVars == <<log, bodies, states>>

Event == [request : Requests \cup {NoEvent}, exchange : Nat \cup {NoEvent},
          body : Bodies \cup {NoEvent}, responder : Replicas]

TypeOK ==
  /\ io \in {"idle", "claimed", "filled"}
  /\ pending \in Requests \cup {NoEvent}
  /\ cursor \in Nat \cup {-1}
  /\ ring \in [Slots -> Event]
  /\ next \in [Threads -> Nat]
  /\ avail \in [Threads -> Nat \cup {-1}]
  /\ done \in [Threads -> Nat \cup {-1}]
  /\ alive \in [Threads -> BOOLEAN]
  /\ graphs \in [Replicas -> Databases]
  /\ journal \in Seq(Bodies)
  /\ answers \subseteq [exchange : Nat, reply : Replies]
  /\ log \in Seq(Requests)
  /\ bodies \in Seq(Bodies \cup {NoEvent})
  /\ states \in Seq(Databases)

Init ==
  /\ io = "idle"
  /\ pending = NoEvent
  /\ cursor = -1
  /\ ring = [i \in Slots |-> [request |-> NoEvent, exchange |-> NoEvent,
                              body |-> NoEvent, responder |-> 0]]
  /\ next = [t \in Threads |-> 0]
  /\ avail = [t \in Threads |-> -1]
  /\ done = [t \in Threads |-> -1]
  /\ alive = [t \in Threads |-> TRUE]
  /\ graphs = [t \in Replicas |-> InitDb]
  /\ journal = <<>>
  /\ answers = {}
  /\ log = <<>>
  /\ bodies = <<>>
  /\ states = <<InitDb>>

Slot(s) == s % RingSize

-----------------------------------------------------------------------------
(* The IO thread: RequestHandler.handleRequest *)

\* The wrap point of the claim is behind what thread t has published.
VacantEarly(t) == cursor + 1 - RingSize <= done[t] + 1   \* mutant: off by one
Vacant(t)      == cursor + 1 - RingSize <= done[t]

\* ringBuffer.next() blocks until the slot's previous occupant has been left
\* behind by every replica's published sequence.
Claim(r) ==
  /\ io = "idle"
  /\ cursor + 1 < MaxSequence
  /\ \A t \in Replicas : Vacant(t)
  /\ io' = "claimed"
  /\ pending' = r
  /\ UNCHANGED <<cursor, ring, next, avail, done, alive, graphs, journal, answers,
                 historyVars>>

\* setRequest and set: the body and the responder of the previous occupant stay.
Fill ==
  /\ io = "claimed"
  /\ ring' = [ring EXCEPT ![Slot(cursor + 1)].request = pending,
                          ![Slot(cursor + 1)].exchange = cursor + 1]
  /\ io' = "filled"
  /\ UNCHANGED <<pending, cursor, next, avail, done, alive, graphs, journal, answers,
                 historyVars>>

Publish ==
  /\ io = "filled"
  /\ cursor' = cursor + 1
  /\ log' = Append(log, pending)
  /\ io' = "idle"
  /\ pending' = NoEvent
  /\ UNCHANGED <<ring, next, avail, done, alive, graphs, journal, answers, bodies,
                 states>>

-----------------------------------------------------------------------------
(* The Disruptor's batch loop, the same for every thread *)

\* What a thread may read up to: the persistence thread follows the IO thread,
\* the replicas follow the persistence thread.
BarrierOpen(t) == cursor   \* mutant: all handlers side by side, no then(..)
Barrier(t)     == IF t = Persister THEN cursor ELSE done[Persister]

BeginBatch(t) ==
  /\ alive[t]
  /\ next[t] = avail[t] + 1
  /\ done[t] = avail[t]
  /\ next[t] <= Barrier(t)
  /\ avail' = [avail EXCEPT ![t] = Barrier(t)]
  /\ UNCHANGED <<io, pending, cursor, ring, next, done, alive, graphs, journal, answers,
                 historyVars>>

EndBatchShort(t) ==   \* mutant: publishes one event too few
  /\ alive[t]
  /\ next[t] = avail[t] + 1
  /\ done[t] # avail[t]
  /\ done' = [done EXCEPT ![t] = avail[t] - 1]
  /\ UNCHANGED <<io, pending, cursor, ring, next, avail, alive, graphs, journal, answers,
                 historyVars>>

EndBatch(t) ==
  /\ alive[t]
  /\ next[t] = avail[t] + 1
  /\ done[t] # avail[t]
  /\ done' = [done EXCEPT ![t] = avail[t]]
  /\ UNCHANGED <<io, pending, cursor, ring, next, avail, alive, graphs, journal, answers,
                 historyVars>>

Handling(t) == alive[t] /\ next[t] <= avail[t]

Advance(t) == next' = [next EXCEPT ![t] = @ + 1]

-----------------------------------------------------------------------------
(* PersistenceHandler.onEvent *)

\* The responder goes round robin.
ResponderOff(s) == s % (THREADS + 1)   \* mutant: one replica too many
Responder(s)    == s % THREADS

\* A failing read of the body is swallowed:
\* what was read so far is taken, journalled and applied as the body.
Persist ==
  LET s == next[Persister]
      e == ring[Slot(s)]
  IN
  /\ Handling(Persister)
  /\ \/ /\ e.request \in Writes
        /\ \E b \in {BodyOf(e.request), Cut(BodyOf(e.request))} :
             /\ ring' = [ring EXCEPT ![Slot(s)].responder = Responder(s),
                                     ![Slot(s)].body = b]
             /\ journal' = Append(journal, b)
             /\ bodies' = Append(bodies, b)
             /\ states' = Append(states, Apply(states[s + 1], log[s + 1], b))
     \/ /\ e.request \notin Writes
        /\ ring' = [ring EXCEPT ![Slot(s)].responder = Responder(s)]
        /\ bodies' = Append(bodies, NoEvent)
        /\ states' = Append(states, states[s + 1])
        /\ UNCHANGED journal
  /\ Advance(Persister)
  /\ UNCHANGED <<io, pending, cursor, avail, done, alive, graphs, answers, log>>

-----------------------------------------------------------------------------
(* DatabaseEventHandler.onEvent *)

\* The body a read handler sees is whatever the slot holds; it does not look.
SeenBody(e) == IF e.request \in Writes THEN e.body ELSE NoEvent

SkipAny(t) ==   \* mutant: writes left to the responder too
  LET e == ring[Slot(next[t])] IN
  /\ Handling(t)
  /\ e.responder # t
  /\ Advance(t)
  /\ UNCHANGED <<io, pending, cursor, ring, avail, done, alive, graphs, journal, answers,
                 historyVars>>

\* A replica that has nothing to do with the event: a read for another one.
Skip(t) ==
  LET e == ring[Slot(next[t])] IN
  /\ Handling(t)
  /\ e.request \notin Writes
  /\ e.responder # t
  /\ Advance(t)
  /\ UNCHANGED <<io, pending, cursor, ring, avail, done, alive, graphs, journal, answers,
                 historyVars>>

\* A write handled by a replica that does not answer.
Replicate(t) ==
  LET e == ring[Slot(next[t])] IN
  /\ Handling(t)
  /\ e.request \in Writes
  /\ e.responder # t
  /\ ~ Throws(graphs[t], e.request, SeenBody(e), FALSE)
  /\ graphs' = [graphs EXCEPT ![t] = Apply(@, e.request, SeenBody(e))]
  /\ Advance(t)
  /\ UNCHANGED <<io, pending, cursor, ring, avail, done, alive, journal, answers,
                 historyVars>>

\* The responder: the handler's effect, the status and the body of the answer,
\* and ExchangeEvent.clear(), which ends the exchange and forgets it.
Respond(t) ==
  LET s == next[t]
      e == ring[Slot(s)]
  IN
  /\ Handling(t)
  /\ e.responder = t
  /\ e.exchange # NoEvent
  /\ ~ Throws(graphs[t], e.request, SeenBody(e), TRUE)
  /\ graphs' = [graphs EXCEPT ![t] =
                  IF e.request \in Writes THEN Apply(@, e.request, SeenBody(e)) ELSE @]
  /\ answers' = answers \cup
       {[exchange |-> e.exchange, reply |-> Reply(graphs[t], e.request, SeenBody(e))]}
  /\ ring' = [ring EXCEPT ![Slot(s)].exchange = NoEvent]
  /\ Advance(t)
  /\ UNCHANGED <<io, pending, cursor, avail, done, alive, journal, historyVars>>

\* The handler throws, or finds no exchange to answer to: the thread ends
\* without publishing its sequence, so the events of its batch stay unread
\* as far as the IO thread can tell.  What the handler did to the graph before
\* throwing is left out: nothing reads the graph of an ended thread.
Die(t) ==
  LET e == ring[Slot(next[t])] IN
  /\ Handling(t)
  /\ e.request \in Writes \/ e.responder = t
  /\ \/ Throws(graphs[t], e.request, SeenBody(e), e.responder = t)
     \/ e.responder = t /\ e.exchange = NoEvent
  /\ alive' = [alive EXCEPT ![t] = FALSE]
  /\ UNCHANGED <<io, pending, cursor, ring, next, avail, done, graphs, journal, answers,
                 historyVars>>

-----------------------------------------------------------------------------

IOStep      == Fill \/ Publish
Batch(t)    == BeginBatch(t) \/ EndBatch(t)
PersistStep == Persist \/ Batch(Persister)
ReplicaStep(t) == Batch(t) \/ Skip(t) \/ Replicate(t) \/ Respond(t) \/ Die(t)

Next ==
  \/ \E r \in Requests : Claim(r)
  \/ IOStep
  \/ PersistStep
  \/ \E t \in Replicas : ReplicaStep(t)

Spec == Init /\ [][Next]_vars

\* Every thread of the executor keeps running while it has something to do, and
\* the IO thread finishes the request it is handling.  Clients need not send.
Fairness ==
  /\ WF_vars(IOStep)
  /\ WF_vars(PersistStep)
  /\ \A t \in Replicas : WF_vars(ReplicaStep(t))

FairSpec == Spec /\ Fairness

-----------------------------------------------------------------------------
(* Safety *)

\* No slot is overwritten while a replica may still have to read it: whatever a
\* replica has not left behind is in its slot as it was published, and past the
\* persistence thread also with the body and the responder chosen for it.
SlotsKept ==
  \A t \in Replicas : \A s \in done[t] + 1 .. cursor :
    LET e == ring[Slot(s)] IN
      /\ e.request = log[s + 1]
      /\ s < next[Persister] =>
           /\ e.responder = Responder(s)
           /\ e.request \in Writes => e.body = bodies[s + 1]

\* The responder always finds the exchange of the request it is to answer.
ExchangeFound ==
  \A t \in Replicas :
    Handling(t) /\ Responder(next[t]) = t => ring[Slot(next[t])].exchange = next[t]

\* Every replica, an ended one too, holds the graph that the published requests
\* before its position lead to, in order: replicas never diverge.
ReplicasInOrder == \A t \in Replicas : graphs[t] = states[next[t] + 1]

\* Every answer is the one a single graph processing the requests one by one
\* would have given: a read sees exactly the writes published before it.
AnswersLinear ==
  \A a \in answers :
    /\ a.exchange < next[Persister]
    /\ a.reply = Reply(states[a.exchange + 1], log[a.exchange + 1], bodies[a.exchange + 1])

WritesUpTo(n) == {i \in 1 .. n : log[i] \in Writes}

\* The journal runs ahead of the replicas: it holds the bodies of exactly the
\* writes the persistence thread has passed, in order, and no replica has
\* touched (let alone acknowledged) a write that is not in it.
JournalAhead ==
  /\ Len(journal) = Cardinality(WritesUpTo(next[Persister]))
  /\ \A i \in WritesUpTo(next[Persister]) :
       journal[Cardinality(WritesUpTo(i))] = bodies[i]
  /\ \A t \in Replicas : next[t] <= next[Persister]

(* Refinement *)

\* A replica that is ahead of all others, ended ones included: what it has
\* handled has taken effect.
Lead == CHOOSE t \in Replicas : \A u \in Replicas : next[u] <= next[t]

Atomic ==
  INSTANCE AtomicDatabase WITH
    db <- graphs[Lead],
    replies <- [i \in 1 .. next[Lead] |-> Reply(states[i], log[i], bodies[i])]

\* The server implements one atomic graph: whichever replica is ahead, requests
\* take effect one at a time in the order of their sequence numbers, and every
\* answer is the reply of that moment, sent once, by whichever replica.
ImplementsAtomic == Atomic!Spec

(* Liveness *)

Answered(s) == \E a \in answers : a.exchange = s

\* Every published request is eventually answered.
AllAnswered == \A s \in 0 .. MaxSequence - 1 : (cursor >= s) ~> Answered(s)

\* Every published request is eventually answered unless a handler has ended
\* its own responder: the end of a replica costs no request of another one.
AnsweredOrEnded ==
  \A s \in 0 .. MaxSequence - 1 :
    (cursor >= s) ~> (Answered(s) \/ \E t \in Replicas : Responder(s) = t /\ ~ alive[t])

\* The IO thread is never blocked for good in ringBuffer.next() by a replica
\* whose thread runs: it keeps leaving slots behind, however batches interleave.
RingDrains == []<>(\A t \in Replicas : alive[t] => Vacant(t))
=============================================================================

---------------------------- MODULE Pipeline_proofs ----------------------------
(***************************************************************************)
(* Proofs about Pipeline for every ring size, every number of replicas and  *)
(* every graph, request and answer the constants may stand for: its safety, *)
(* and that it implements AtomicDatabase.                                   *)
(***************************************************************************)
EXTENDS Pipeline, FiniteSetTheorems, WellFoundedInduction, TLAPS

\* A position of the ring is one of its slots.
LEMMA SlotInRing ==
  \A s \in Nat : Slot(s) \in Slots
<1>1. SUFFICES ASSUME NEW s \in Nat PROVE s % RingSize \in 0 .. RingSize - 1
  BY DEF Slot, Slots
<1>2. QED BY RingAssumption

\* Two sequence numbers less than a ring apart lie in different slots.
LEMMA SlotDistinct ==
  \A a, b \in Nat : a < b /\ b - a < RingSize => Slot(a) # Slot(b)
<1>1. SUFFICES ASSUME NEW a \in Nat, NEW b \in Nat, a < b, b - a < RingSize,
                      a % RingSize = b % RingSize
               PROVE  FALSE
  BY DEF Slot
<1>2. RingSize \in Nat \ {0} BY RingAssumption
<1> DEFINE q == a \div RingSize
<1> DEFINE p == b \div RingSize
<1>3. q \in Int /\ a = RingSize * q + (a % RingSize) BY <1>2
<1>4. p \in Int /\ b = RingSize * p + (b % RingSize) BY <1>2
<1> HIDE DEF p, q
<1> DEFINE d == p - q
<1>5. d \in Int /\ b - a = RingSize * d BY <1>1, <1>2, <1>3, <1>4
<1> HIDE DEF d
<1>6. CASE d <= 0
  <2>1. -d \in Nat /\ RingSize * (-d) >= 0 BY <1>2, <1>5, <1>6
  <2>2. RingSize * (-d) = -(RingSize * d) BY <1>2, <1>5
  <2>3. QED BY <2>1, <2>2, <1>1, <1>2, <1>5
<1>7. CASE d >= 1
  <2>1. d - 1 \in Nat /\ RingSize * (d - 1) >= 0 BY <1>2, <1>5, <1>7
  <2>2. RingSize * d = RingSize * (d - 1) + RingSize BY <1>2, <1>5
  <2>3. QED BY <2>1, <2>2, <1>1, <1>2, <1>5
<1>8. QED BY <1>5, <1>6, <1>7

-----------------------------------------------------------------------------
(* The inductive invariant *)

\* Where the threads stand: each between what it has published and the end of
\* its batch, the replicas behind the persistence thread, that one behind the
\* IO thread; the histories are as long as the positions say.
Positions ==
  /\ \A t \in Threads : done[t] <= avail[t] /\ done[t] < next[t] /\ next[t] <= avail[t] + 1
  /\ avail[Persister] <= cursor
  /\ \A t \in Replicas : avail[t] <= done[Persister]
  /\ Len(log) = cursor + 1
  /\ Len(bodies) = next[Persister]
  /\ Len(states) = next[Persister] + 1

\* The IO thread works on a request in a slot every replica has left.
Claimed ==
  io # "idle" => pending \in Requests /\ \A t \in Replicas : Vacant(t)

\* A replica is at most a ring behind.
Window == \A t \in Replicas : cursor - RingSize <= done[t]

Shape == TypeOK /\ Positions /\ Claimed /\ Window

\* A filled slot holds the request being published.
Filled ==
  io = "filled" => /\ ring[Slot(cursor + 1)].request = pending
                   /\ ring[Slot(cursor + 1)].exchange = cursor + 1

\* The exchange of a request stays in its slot until its responder is past it.
ExchangeKept ==
  \A s \in 0 .. cursor :
    s >= next[Responder(s)] => ring[Slot(s)].exchange = s

Content == SlotsKept /\ Filled /\ ExchangeKept

\* The recorded graphs are what the requests before them lead to.
StatesFollow ==
  \A s \in 0 .. next[Persister] - 1 :
    states[s + 2] = IF log[s + 1] \in Writes
                    THEN Apply(states[s + 1], log[s + 1], bodies[s + 1])
                    ELSE states[s + 1]

\* The recorded body of a read is no body.
ReadsHaveNoBody ==
  \A s \in 0 .. next[Persister] - 1 : log[s + 1] \notin Writes => bodies[s + 1] = NoEvent

Meaning == StatesFollow /\ ReadsHaveNoBody /\ ReplicasInOrder /\ AnswersLinear

IInv == Shape /\ Content /\ Meaning

-----------------------------------------------------------------------------
(* Shape *)

LEMMA ThreadFacts ==
  /\ Persister \in Threads
  /\ Replicas \subseteq Threads
  /\ Persister \notin Replicas
  /\ \A s \in Nat : Responder(s) \in Replicas
BY RingAssumption DEF Persister, Threads, Replicas, Responder

LEMMA InitShape == Init => Shape
<1> SUFFICES ASSUME Init PROVE Shape OBVIOUS
<1> USE DEF Init
<1>1. TypeOK
  BY RingAssumption, DatabaseAssumption DEF TypeOK, Event, Replicas, Threads, Persister, Slots
<1>2. Positions BY ThreadFacts DEF Positions
<1>3. Claimed BY DEF Claimed
<1>4. Window BY RingAssumption, ThreadFacts DEF Window
<1>5. QED BY <1>1, <1>2, <1>3, <1>4 DEF Shape

\* The numbers the positions compare.
LEMMA Numbers ==
  ASSUME TypeOK
  PROVE  /\ cursor \in Int /\ RingSize \in Int
         /\ \A t \in Threads : done[t] \in Int /\ avail[t] \in Int /\ next[t] \in Nat
         /\ \A t \in Replicas : done[t] \in Int /\ avail[t] \in Int /\ next[t] \in Nat
         /\ done[Persister] \in Int /\ avail[Persister] \in Int /\ next[Persister] \in Nat
BY ThreadFacts, RingAssumption DEF TypeOK

\* What the typing and the positions say about the event a thread handles.
LEMMA HandlingFacts ==
  ASSUME Shape, NEW t \in Threads, Handling(t)
  PROVE  /\ next[t] \in Nat /\ next[t] <= cursor /\ cursor \in Nat
         /\ done[t] < next[t]
         /\ t \in Replicas => next[t] < next[Persister]
         /\ Slot(next[t]) \in Slots
         /\ ring[Slot(next[t])] \in Event
<1> USE DEF Shape
<1>1. /\ next[t] \in Nat /\ avail[t] \in Int /\ next[t] <= avail[t] /\ done[t] < next[t]
  BY DEF TypeOK, Positions, Handling
<1>2. /\ avail[Persister] \in Int /\ avail[Persister] <= cursor /\ cursor \in Int
      /\ done[Persister] \in Int /\ done[Persister] <= avail[Persister]
      /\ next[Persister] \in Nat /\ done[Persister] < next[Persister]
  <2>1. /\ avail[Persister] \in Int /\ cursor \in Int /\ done[Persister] \in Int
        /\ next[Persister] \in Nat
    BY Numbers
  <2>2. /\ avail[Persister] <= cursor /\ done[Persister] <= avail[Persister]
        /\ done[Persister] < next[Persister]
    BY ThreadFacts DEF Positions
  <2>3. QED BY <2>1, <2>2
<1>3. t \in Replicas => avail[t] <= done[Persister] BY DEF Positions
<1>4. t = Persister \/ t \in Replicas BY DEF Threads
<1>5. next[t] <= cursor /\ cursor \in Nat BY <1>1, <1>2, <1>3, <1>4
<1>6. t \in Replicas => next[t] < next[Persister] BY <1>1, <1>2, <1>3
<1>7. Slot(next[t]) \in Slots BY <1>1, SlotInRing
<1>8. ring[Slot(next[t])] \in Event BY <1>7 DEF TypeOK
<1>9. QED BY <1>1, <1>5, <1>6, <1>7, <1>8

\* A replica finds in its slot the request of its position in the log.
LEMMA HandledRequest ==
  ASSUME Shape, SlotsKept, NEW t \in Replicas, Handling(t)
  PROVE  LET s == next[t]
             e == ring[Slot(s)]
         IN  /\ s + 1 \in 1 .. Len(log) /\ s < next[Persister]
             /\ e.request = log[s + 1] /\ e.request \in Requests
             /\ e.exchange \in Nat \cup {NoEvent}
             /\ e.responder = Responder(s)
             /\ e.request \in Writes => e.body = bodies[s + 1]
             /\ SeenBody(e) \in Bodies \cup {NoEvent}
<1> DEFINE s == next[t]
<1> DEFINE e == ring[Slot(s)]
<1>1. /\ s \in Nat /\ s <= cursor /\ cursor \in Nat /\ done[t] < s
      /\ s < next[Persister] /\ e \in Event
  BY HandlingFacts, ThreadFacts
<1>2. done[t] \in Int BY ThreadFacts DEF Shape, TypeOK
<1>3. s \in done[t] + 1 .. cursor BY <1>1, <1>2
<1>4. /\ e.request = log[s + 1] /\ e.responder = Responder(s)
      /\ e.request \in Writes => e.body = bodies[s + 1]
  BY <1>1, <1>3 DEF SlotsKept
<1>5. Len(log) = cursor + 1 /\ log \in Seq(Requests) BY DEF Shape, TypeOK, Positions
<1>6. s + 1 \in 1 .. Len(log) BY <1>1, <1>5
<1>7. log[s + 1] \in Requests BY <1>5, <1>6
<1>8. SeenBody(e) \in Bodies \cup {NoEvent} /\ e.exchange \in Nat \cup {NoEvent}
  BY <1>1 DEF Event, SeenBody
<1>9. QED BY <1>1, <1>4, <1>6, <1>7, <1>8

-----------------------------------------------------------------------------
(* Every action preserves the shape *)

LEMMA ClaimShape ==
  ASSUME Shape, NEW r \in Requests, Claim(r)
  PROVE  Shape'
<1> USE DEF Shape, Claim
<1>1. TypeOK' BY DEF TypeOK, historyVars
<1>2. Positions' BY DEF Positions, historyVars
<1>3. Claimed' BY DEF Claimed, Vacant
<1>4. Window' BY DEF Window
<1>5. QED BY <1>1, <1>2, <1>3, <1>4

LEMMA FillShape ==
  ASSUME Shape, Fill
  PROVE  Shape'
<1> USE DEF Shape, Fill
<1>1. TypeOK'
  <2>1. cursor + 1 \in Nat /\ pending \in Requests BY DEF TypeOK, Claimed
  <2>2. Slot(cursor + 1) \in Slots BY <2>1, SlotInRing
  <2>3. ring' \in [Slots -> Event] BY <2>1, <2>2 DEF TypeOK, Event
  <2>4. QED BY <2>3 DEF TypeOK, historyVars
<1>2. Positions' BY DEF Positions, historyVars
<1>3. Claimed' BY DEF Claimed, Vacant
<1>4. Window' BY DEF Window
<1>5. QED BY <1>1, <1>2, <1>3, <1>4

LEMMA PublishShape ==
  ASSUME Shape, Publish
  PROVE  Shape'
<1> USE DEF Shape, Publish
<1>1. pending \in Requests /\ \A t \in Replicas : Vacant(t) BY DEF Claimed
<1>2. cursor \in Int /\ cursor' = cursor + 1 /\ cursor' \in Nat BY DEF TypeOK
<1>3. TypeOK' BY <1>1, <1>2 DEF TypeOK
<1>4. Positions'
  <2>1. Len(log') = Len(log) + 1 BY <1>1 DEF TypeOK
  <2>2. avail[Persister] \in Int BY ThreadFacts DEF TypeOK
  <2>3. QED BY <1>2, <2>1, <2>2 DEF Positions
<1>5. Claimed' BY DEF Claimed
<1>6. Window'
  <2>1. \A t \in Replicas : cursor' - RingSize <= done[t] BY <1>1, <1>2, Numbers DEF Vacant
  <2>2. QED BY <2>1 DEF Window
<1>7. QED BY <1>3, <1>4, <1>5, <1>6

LEMMA BeginBatchShape ==
  ASSUME Shape, NEW t \in Threads, BeginBatch(t)
  PROVE  Shape'
<1> USE DEF Shape, BeginBatch
<1> DEFINE b == Barrier(t)
<1>1. b \in Int /\ next[t] \in Nat /\ next[t] <= b
  BY ThreadFacts DEF TypeOK, Barrier
<1> HIDE DEF b
<1>2. avail' = [avail EXCEPT ![t] = b] BY DEF b
<1>3. TypeOK' BY <1>1, <1>2 DEF TypeOK, historyVars
<1>4. Positions'
  <2>1. done[t] <= b /\ done[t] < next[t] /\ next[t] <= b + 1
    BY <1>1, Numbers DEF Positions
  <2>2. \A u \in Threads :
          done[u] <= avail'[u] /\ done[u] < next[u] /\ next[u] <= avail'[u] + 1
    <3>1. \A u \in Threads : avail'[u] = IF u = t THEN b ELSE avail[u]
      BY <1>2 DEF TypeOK
    <3>2. QED BY <2>1, <3>1 DEF Positions
  <2>3. avail'[Persister] <= cursor
    <3>1. t = Persister => b = cursor BY DEF Barrier, b
    <3>2. avail'[Persister] = IF t = Persister THEN b ELSE avail[Persister]
      BY <1>2, ThreadFacts DEF TypeOK
    <3>3. cursor <= cursor BY Numbers
    <3>4. QED BY <3>1, <3>2, <3>3 DEF Positions
  <2>4. ASSUME NEW u \in Replicas PROVE avail'[u] <= done[Persister]
    <3>1. t # Persister => b = done[Persister] BY DEF Barrier, b
    <3>2. avail'[u] = IF t = u THEN b ELSE avail[u] BY <1>2, ThreadFacts DEF TypeOK
    <3>3. done[Persister] <= done[Persister] /\ u # Persister BY Numbers, ThreadFacts
    <3>4. QED BY <3>1, <3>2, <3>3 DEF Positions
  <2>5. QED BY <2>2, <2>3, <2>4 DEF Positions, historyVars
<1>5. Claimed' BY DEF Claimed, Vacant
<1>6. Window' BY DEF Window
<1>7. QED BY <1>3, <1>4, <1>5, <1>6

LEMMA EndBatchShape ==
  ASSUME Shape, NEW t \in Threads, EndBatch(t)
  PROVE  Shape'
<1> USE DEF Shape, EndBatch
<1>1. TypeOK' BY DEF TypeOK, historyVars
<1>2. \A u \in Threads :
        /\ done[u] \in Int /\ done'[u] \in Int /\ done[u] <= done'[u]
        /\ done'[u] <= avail[u] /\ done'[u] < next[u]
  BY DEF Positions, TypeOK
<1>3. Positions'
  <2>1. \A u \in Replicas : avail[u] <= done'[Persister]
    <3>1. SUFFICES ASSUME NEW u \in Replicas PROVE avail[u] <= done'[Persister] OBVIOUS
    <3>2. avail[u] <= done[Persister] BY DEF Positions
    <3>3. done[Persister] <= done'[Persister] /\ done'[Persister] \in Int BY <1>2, ThreadFacts
    <3>4. QED BY <3>2, <3>3, Numbers
  <2>2. QED BY <1>2, <2>1 DEF Positions, historyVars
<1>4. \A u \in Replicas : \A n \in Int : n <= done[u] => n <= done'[u]
  <2>1. SUFFICES ASSUME NEW u \in Replicas, NEW n \in Int, n <= done[u]
                 PROVE  n <= done'[u]
    OBVIOUS
  <2>2. done[u] <= done'[u] /\ done[u] \in Int /\ done'[u] \in Int BY <1>2, ThreadFacts
  <2>3. QED BY <2>1, <2>2
<1>5. Claimed' BY <1>4, Numbers DEF Claimed, Vacant
<1>6. Window' BY <1>4, Numbers DEF Window
<1>7. QED BY <1>1, <1>3, <1>5, <1>6

\* Moving on keeps the positions numbers.
LEMMA AdvanceTyped ==
  ASSUME TypeOK, NEW t \in Threads, Advance(t)
  PROVE  next' \in [Threads -> Nat]
<1>1. next' = [next EXCEPT ![t] = next[t] + 1] BY DEF Advance
<1>2. next \in [Threads -> Nat] /\ next[t] + 1 \in Nat BY DEF TypeOK
<1>3. QED BY <1>1, <1>2

\* What the two branches of Persist have in common.
LEMMA PersistEffect ==
  ASSUME Shape, Persist
  PROVE  LET s == next[Persister]
             e == ring[Slot(s)]
         IN \E b \in Bodies \cup {NoEvent}, f \in Bodies \cup {NoEvent} :
              /\ ring' = [ring EXCEPT ![Slot(s)].responder = Responder(s),
                                      ![Slot(s)].body = f]
              /\ bodies' = Append(bodies, b)
              /\ states' = Append(states, IF e.request \in Writes
                                          THEN Apply(states[s + 1], log[s + 1], b)
                                          ELSE states[s + 1])
              /\ IF e.request \in Writes
                 THEN f = b /\ journal' = Append(journal, b)
                 ELSE b = NoEvent /\ journal' = journal
              /\ journal' \in Seq(Bodies)
<1> DEFINE s == next[Persister]
<1> DEFINE e == ring[Slot(s)]
<1>1. Handling(Persister) BY DEF Persist
<1>2. e \in Event /\ Slot(s) \in Slots BY <1>1, HandlingFacts, ThreadFacts
<1>3. ring \in [Slots -> Event] /\ journal \in Seq(Bodies) BY DEF Shape, TypeOK
<1>4. CASE e.request \in Writes
  <2>1. PICK b \in {BodyOf(e.request), Cut(BodyOf(e.request))} :
          /\ ring' = [ring EXCEPT ![Slot(s)].responder = Responder(s),
                                  ![Slot(s)].body = b]
          /\ journal' = Append(journal, b)
          /\ bodies' = Append(bodies, b)
          /\ states' = Append(states, Apply(states[s + 1], log[s + 1], b))
    BY <1>4 DEF Persist
  <2>2. b \in Bodies BY <2>1, <1>4, RequestAssumption
  <2>3. journal' \in Seq(Bodies) BY <1>3, <2>1, <2>2
  <2>4. QED BY <1>4, <2>1, <2>2, <2>3
<1>5. CASE e.request \notin Writes
  <2>1. /\ ring' = [ring EXCEPT ![Slot(s)].responder = Responder(s)]
        /\ bodies' = Append(bodies, NoEvent)
        /\ states' = Append(states, states[s + 1])
        /\ journal' = journal
    BY <1>5 DEF Persist
  <2>2. e.body \in Bodies \cup {NoEvent} BY <1>2 DEF Event
  <2>3. ring' = [ring EXCEPT ![Slot(s)].responder = Responder(s),
                             ![Slot(s)].body = e.body]
    BY <2>1, <1>2, <1>3 DEF Event
  <2>4. QED BY <1>3, <1>5, <2>1, <2>2, <2>3
<1>6. QED BY <1>4, <1>5

LEMMA PersistShape ==
  ASSUME Shape, Persist
  PROVE  Shape'
<1> DEFINE s == next[Persister]
<1> DEFINE e == ring[Slot(s)]
<1>1. Handling(Persister) BY DEF Persist
<1>2. /\ s \in Nat /\ s <= cursor /\ cursor \in Nat
      /\ e \in Event /\ Slot(s) \in Slots /\ Responder(s) \in Replicas
  BY <1>1, HandlingFacts, ThreadFacts
<1>3. /\ UNCHANGED <<io, pending, cursor, avail, done, alive, graphs, answers, log>>
      /\ next' = [next EXCEPT ![Persister] = s + 1]
  BY DEF Persist, Advance
<1>4. PICK b \in Bodies \cup {NoEvent}, f \in Bodies \cup {NoEvent} :
        /\ ring' = [ring EXCEPT ![Slot(s)].responder = Responder(s),
                                ![Slot(s)].body = f]
        /\ bodies' = Append(bodies, b)
        /\ states' = Append(states, IF e.request \in Writes
                                    THEN Apply(states[s + 1], log[s + 1], b)
                                    ELSE states[s + 1])
        /\ journal' \in Seq(Bodies)
  BY PersistEffect
<1>5. /\ log \in Seq(Requests) /\ Len(log) = cursor + 1
      /\ states \in Seq(Databases) /\ Len(states) = s + 1
      /\ bodies \in Seq(Bodies \cup {NoEvent}) /\ Len(bodies) = s
      /\ ring \in [Slots -> Event]
  BY DEF Shape, TypeOK, Positions
<1> HIDE DEF s, e
<1>6. log[s + 1] \in Requests /\ states[s + 1] \in Databases BY <1>2, <1>5
<1>7. states' \in Seq(Databases) /\ Len(states') = s + 2
  <2>1. Apply(states[s + 1], log[s + 1], b) \in Databases BY <1>6, DatabaseAssumption
  <2>2. QED BY <1>2, <1>4, <1>5, <1>6, <2>1
<1>8. bodies' \in Seq(Bodies \cup {NoEvent}) /\ Len(bodies') = s + 1 BY <1>4, <1>5, <1>2
<1>9. ring' \in [Slots -> Event] BY <1>2, <1>4, <1>5 DEF Event
<1>10. TypeOK'
  <2>1. next' \in [Threads -> Nat]
    BY AdvanceTyped, ThreadFacts DEF Shape, Persist
  <2>2. QED BY <1>3, <1>4, <1>7, <1>8, <1>9, <2>1 DEF Shape, TypeOK
<1>11. Positions'
  <2>1. next'[Persister] = s + 1 /\ s <= avail[Persister]
    BY <1>1, <1>3, ThreadFacts DEF Shape, TypeOK, Handling, s
  <2>2. \A t \in Threads : t # Persister => next'[t] = next[t] BY <1>3 DEF Shape, TypeOK
  <2>3. \A t \in Threads :
          done[t] <= avail[t] /\ done[t] < next'[t] /\ next'[t] <= avail[t] + 1
    BY <1>2, <2>1, <2>2, Numbers DEF Shape, Positions, s
  <2>4. QED BY <1>3, <1>5, <1>7, <1>8, <2>1, <2>3 DEF Shape, Positions
<1>12. Claimed' BY <1>3 DEF Shape, Claimed, Vacant
<1>13. Window' BY <1>3 DEF Shape, Window
<1>14. QED BY <1>10, <1>11, <1>12, <1>13 DEF Shape

\* A replica that moves on to the next event.
LEMMA AdvanceShape ==
  ASSUME Shape, NEW t \in Replicas, Handling(t), Advance(t), TypeOK',
         UNCHANGED <<io, pending, cursor, avail, done, historyVars>>
  PROVE  Shape'
<1> USE DEF Shape, Advance
<1>1. next[t] <= avail[t] BY DEF Handling
<1>2. next' = [next EXCEPT ![t] = next[t] + 1] OBVIOUS
<1>3. \A u \in Threads : next'[u] = IF u = t THEN next[t] + 1 ELSE next[u]
  BY <1>2 DEF TypeOK
<1>4. Positions'
  <2>1. \A u \in Threads :
          done[u] <= avail[u] /\ done[u] < next'[u] /\ next'[u] <= avail[u] + 1
    BY <1>1, <1>3, Numbers DEF Positions
  <2>2. next'[Persister] = next[Persister] BY <1>3, ThreadFacts
  <2>3. QED BY <2>1, <2>2 DEF Positions, historyVars
<1>5. Claimed' BY DEF Claimed, Vacant
<1>6. Window' BY DEF Window
<1>7. QED BY <1>4, <1>5, <1>6

LEMMA SkipShape ==
  ASSUME Shape, NEW t \in Replicas, Skip(t)
  PROVE  Shape'
<1>1. TypeOK'
  <2>1. next' \in [Threads -> Nat] BY AdvanceTyped, ThreadFacts DEF Shape, Skip
  <2>2. QED BY <2>1 DEF Skip, Shape, TypeOK, historyVars
<1>2. /\ Handling(t) /\ Advance(t)
      /\ UNCHANGED <<io, pending, cursor, avail, done, historyVars>>
  BY DEF Skip, historyVars
<1>3. QED BY <1>1, <1>2, AdvanceShape

LEMMA ReplicateShape ==
  ASSUME Shape, SlotsKept, NEW t \in Replicas, Replicate(t)
  PROVE  Shape'
<1> DEFINE e == ring[Slot(next[t])]
<1>1. Handling(t) BY DEF Replicate
<1>2. e.request \in Requests /\ SeenBody(e) \in Bodies \cup {NoEvent}
  BY <1>1, HandledRequest
<1>3. graphs[t] \in Databases BY DEF Shape, TypeOK
<1>4. Apply(graphs[t], e.request, SeenBody(e)) \in Databases
  BY <1>2, <1>3, DatabaseAssumption
<1>5. graphs' = [graphs EXCEPT ![t] = Apply(graphs[t], e.request, SeenBody(e))]
  BY DEF Replicate
<1>6. TypeOK'
  <2>1. next' \in [Threads -> Nat] BY AdvanceTyped, ThreadFacts DEF Shape, Replicate
  <2>2. graphs' \in [Replicas -> Databases] BY <1>4, <1>5 DEF Shape, TypeOK
  <2>3. QED BY <2>1, <2>2 DEF Replicate, Shape, TypeOK, historyVars
<1>7. Advance(t) /\ UNCHANGED <<io, pending, cursor, avail, done, historyVars>>
  BY DEF Replicate, historyVars
<1>8. QED BY <1>1, <1>6, <1>7, AdvanceShape

LEMMA RespondShape ==
  ASSUME Shape, SlotsKept, NEW t \in Replicas, Respond(t)
  PROVE  Shape'
<1> DEFINE e == ring[Slot(next[t])]
<1> DEFINE after == IF e.request \in Writes
                    THEN Apply(graphs[t], e.request, SeenBody(e)) ELSE graphs[t]
<1> DEFINE reply == Reply(graphs[t], e.request, SeenBody(e))
<1>1. Handling(t) /\ e.exchange # NoEvent BY DEF Respond
<1>2. /\ e.request \in Requests /\ SeenBody(e) \in Bodies \cup {NoEvent}
      /\ e.exchange \in Nat
  BY <1>1, HandledRequest
<1>3. graphs[t] \in Databases BY DEF Shape, TypeOK
<1>4. after \in Databases /\ reply \in Replies BY <1>2, <1>3, DatabaseAssumption
<1>5. Slot(next[t]) \in Slots /\ e \in Event BY <1>1, HandlingFacts, ThreadFacts
<1>6. /\ graphs' = [graphs EXCEPT ![t] = after]
      /\ answers' = answers \cup {[exchange |-> e.exchange, reply |-> reply]}
      /\ ring' = [ring EXCEPT ![Slot(next[t])].exchange = NoEvent]
      /\ next' = [next EXCEPT ![t] = next[t] + 1]
      /\ UNCHANGED <<io, pending, cursor, avail, done, alive, journal, log, bodies, states>>
  BY DEF Respond, Advance, historyVars
<1> HIDE DEF after, reply
<1>7. graphs' \in [Replicas -> Databases] BY <1>4, <1>6 DEF Shape, TypeOK
<1>8. ring' \in [Slots -> Event] BY <1>5, <1>6 DEF Shape, TypeOK, Event
<1>9. answers' \subseteq [exchange : Nat, reply : Replies]
  BY <1>2, <1>4, <1>6 DEF Shape, TypeOK
<1>10. TypeOK' BY <1>6, <1>7, <1>8, <1>9, ThreadFacts DEF Shape, TypeOK
<1>11. Advance(t) /\ UNCHANGED <<io, pending, cursor, avail, done, historyVars>>
  BY DEF Respond, historyVars
<1>12. QED BY <1>1, <1>10, <1>11, AdvanceShape

LEMMA DieShape ==
  ASSUME Shape, NEW t \in Replicas, Die(t)
  PROVE  Shape'
<1> USE DEF Shape, Die
<1>1. TypeOK' BY ThreadFacts DEF TypeOK, historyVars
<1>2. Positions' BY DEF Positions, historyVars
<1>3. Claimed' BY DEF Claimed, Vacant
<1>4. Window' BY DEF Window
<1>5. QED BY <1>1, <1>2, <1>3, <1>4

LEMMA NextShape ==
  ASSUME Shape, SlotsKept, [Next]_vars
  PROVE  Shape'
<1>1. ASSUME NEW t \in Threads, Batch(t) PROVE Shape'
  BY <1>1, BeginBatchShape, EndBatchShape DEF Batch
<1>2. ASSUME NEW t \in Replicas, ReplicaStep(t) PROVE Shape'
  BY <1>1, <1>2, ThreadFacts, SkipShape, ReplicateShape, RespondShape, DieShape
  DEF ReplicaStep
<1>3. CASE UNCHANGED vars
  BY <1>3 DEF vars, Shape, TypeOK, Positions, Claimed, Window, Vacant
<1>4. QED
  BY <1>1, <1>2, <1>3, ThreadFacts, ClaimShape, FillShape, PublishShape, PersistShape
  DEF Next, IOStep, PersistStep

-----------------------------------------------------------------------------
(* Content: what the slots hold *)

\* Two sequence numbers the ring still holds lie in different slots.
LEMMA Apart ==
  ASSUME TypeOK, NEW a \in Nat, NEW b \in Nat, a # b,
         NEW n \in Int, n - RingSize < a, a <= n, n - RingSize < b, b <= n
  PROVE  Slot(a) # Slot(b)
<1>1. CASE a < b BY <1>1, SlotDistinct, RingAssumption
<1>2. CASE b < a BY <1>2, SlotDistinct, RingAssumption
<1>3. QED BY <1>1, <1>2

\* A sequence number a replica has not left behind is still in the ring.
LEMMA InWindow ==
  ASSUME Shape, NEW t \in Replicas, NEW s \in Int, done[t] < s, s <= cursor
  PROVE  /\ s \in Nat /\ cursor - RingSize < s /\ Slot(s) \in Slots
         /\ io # "idle" => cursor + 1 - RingSize < s /\ Slot(s) # Slot(cursor + 1)
<1>1. cursor \in Int /\ RingSize \in Int /\ done[t] \in Int BY Numbers DEF Shape
<1>2. done[t] \in Nat \cup {-1} BY ThreadFacts DEF Shape, TypeOK
<1>3. s \in Nat BY <1>1, <1>2
<1>4. cursor - RingSize <= done[t] BY DEF Shape, Window
<1>5. ASSUME io # "idle"
      PROVE  cursor + 1 - RingSize < s /\ Slot(s) # Slot(cursor + 1)
  <2>1. cursor + 1 - RingSize <= done[t] BY <1>5 DEF Shape, Claimed, Vacant
  <2>2. cursor + 1 - RingSize < s BY <1>1, <2>1
  <2> DEFINE c == cursor + 1
  <2>3. c \in Nat /\ s < c /\ c - s < RingSize BY <1>1, <1>3, <2>2
  <2> HIDE DEF c
  <2>4. Slot(s) # Slot(c) BY <1>3, <2>3, SlotDistinct
  <2>5. QED BY <2>2, <2>4 DEF c
<1>6. QED BY <1>1, <1>3, <1>4, <1>5, SlotInRing

\* Where a replica stands relative to the persistence thread.
LEMMA Behind ==
  ASSUME Shape
  PROVE  /\ \A t \in Replicas : /\ next[t] \in Nat /\ done[t] < next[t]
                                /\ done[t] < next[Persister] /\ next[t] <= next[Persister]
         /\ next[Persister] \in Nat /\ next[Persister] <= cursor + 1
<1>1. /\ next[Persister] \in Nat /\ avail[Persister] \in Int /\ done[Persister] \in Int
      /\ done[Persister] < next[Persister] /\ next[Persister] <= avail[Persister] + 1
      /\ avail[Persister] <= cursor /\ cursor \in Int
  BY ThreadFacts, Numbers DEF Shape, Positions
<1>2. ASSUME NEW t \in Replicas
      PROVE  /\ next[t] \in Nat /\ done[t] < next[t]
             /\ done[t] < next[Persister] /\ next[t] <= next[Persister]
  <2>1. t \in Threads /\ next[t] \in Nat /\ avail[t] \in Int /\ done[t] \in Int
    BY ThreadFacts, Numbers DEF Shape
  <2>2. /\ done[t] <= avail[t] /\ done[t] < next[t] /\ next[t] <= avail[t] + 1
        /\ avail[t] <= done[Persister]
    BY <2>1 DEF Shape, Positions
  <2>3. QED BY <1>1, <2>1, <2>2
<1>3. QED BY <1>1, <1>2

LEMMA InitContent == Init => Content
<1> SUFFICES ASSUME Init PROVE Content OBVIOUS
<1>1. cursor = -1 /\ io = "idle" /\ \A t \in Replicas : done[t] = -1
  BY ThreadFacts DEF Init
<1>2. QED BY <1>1 DEF Content, SlotsKept, Filled, ExchangeKept

\* A step that leaves the ring and the histories alone, while the threads only
\* move forward.
LEMMA KeepContent ==
  ASSUME Shape, Content, Shape',
         UNCHANGED <<ring, cursor, log, bodies>>,
         next'[Persister] = next[Persister],
         \A t \in Replicas : done[t] <= done'[t] /\ next[t] <= next'[t],
         io' = "filled" => io = "filled" /\ pending' = pending
  PROVE  Content'
<1>1. SlotsKept'
  <2>1. SUFFICES ASSUME NEW t \in Replicas, NEW s \in done'[t] + 1 .. cursor'
                 PROVE  s \in done[t] + 1 .. cursor
    BY DEF Content, SlotsKept
  <2>2. done[t] \in Int /\ done'[t] \in Int /\ cursor \in Int
    <3>1. t \in Threads BY ThreadFacts
    <3>2. done[t] \in Nat \cup {-1} /\ done'[t] \in Nat \cup {-1} BY <3>1 DEF Shape, TypeOK
    <3>3. QED BY <3>2, Numbers DEF Shape
  <2>3. done[t] <= done'[t] /\ s \in Int /\ done'[t] + 1 <= s /\ s <= cursor
    BY <2>1, <2>2
  <2>4. QED BY <2>2, <2>3
<1>2. Filled' BY DEF Content, Filled
<1>3. ExchangeKept'
  <2>1. SUFFICES ASSUME NEW s \in 0 .. cursor, s >= next'[Responder(s)]
                 PROVE  s >= next[Responder(s)]
    BY DEF Content, ExchangeKept
  <2>2. Responder(s) \in Replicas BY ThreadFacts
  <2>3. next[Responder(s)] \in Nat /\ next'[Responder(s)] \in Nat
    BY <2>2, ThreadFacts DEF Shape, TypeOK
  <2>4. QED BY <2>1, <2>2, <2>3
<1>4. QED BY <1>1, <1>2, <1>3 DEF Content

LEMMA FillContent ==
  ASSUME Shape, Content, Fill
  PROVE  Content'
<1> DEFINE c == cursor + 1
<1>1. /\ io = "claimed" /\ io' = "filled"
      /\ UNCHANGED <<pending, cursor, next, done, log, bodies>>
      /\ ring' = [ring EXCEPT ![Slot(c)].request = pending, ![Slot(c)].exchange = c]
  BY DEF Fill, historyVars
<1>2. cursor \in Int /\ c \in Nat /\ ring \in [Slots -> Event]
  BY DEF Shape, TypeOK
<1>3. Slot(c) \in Slots BY <1>2, SlotInRing
<1>4. ASSUME NEW i \in Slots, i # Slot(c) PROVE ring'[i] = ring[i]
  BY <1>1, <1>2, <1>3, <1>4
<1>5. ring'[Slot(c)].request = pending /\ ring'[Slot(c)].exchange = c
  BY <1>1, <1>2, <1>3 DEF Event
<1>6. ASSUME NEW t \in Replicas, NEW s \in Int, done[t] < s, s <= cursor
      PROVE  ring'[Slot(s)] = ring[Slot(s)]
  <2>1. Slot(s) \in Slots /\ Slot(s) # Slot(c) BY <1>1, <1>6, InWindow
  <2>2. QED BY <1>4, <2>1
<1>7. SlotsKept'
  <2>1. SUFFICES ASSUME NEW t \in Replicas, NEW s \in done[t] + 1 .. cursor
                 PROVE  ring'[Slot(s)] = ring[Slot(s)]
    BY <1>1 DEF Content, SlotsKept
  <2>2. done[t] \in Int BY Numbers DEF Shape
  <2>3. s \in Int /\ done[t] < s /\ s <= cursor BY <1>2, <2>1, <2>2
  <2>4. QED BY <1>6, <2>3
<1>8. Filled' BY <1>1, <1>5 DEF Filled
<1>9. ExchangeKept'
  <2>1. SUFFICES ASSUME NEW s \in 0 .. cursor, s >= next[Responder(s)]
                 PROVE  ring'[Slot(s)] = ring[Slot(s)]
    BY <1>1 DEF Content, ExchangeKept
  <2>2. Responder(s) \in Replicas BY ThreadFacts
  <2>3. done[Responder(s)] < s
    <3>1. /\ done[Responder(s)] \in Int /\ next[Responder(s)] \in Nat
          /\ done[Responder(s)] < next[Responder(s)]
      BY <2>2, Behind, Numbers DEF Shape
    <3>2. QED BY <2>1, <3>1
  <2>4. QED BY <1>2, <1>6, <2>2, <2>3
<1>10. QED BY <1>7, <1>8, <1>9 DEF Content

LEMMA PublishContent ==
  ASSUME Shape, Content, Publish
  PROVE  Content'
<1> DEFINE c == cursor + 1
<1>1. /\ io = "filled" /\ io' = "idle" /\ cursor' = c
      /\ UNCHANGED <<ring, next, done, bodies>> /\ log' = Append(log, pending)
  BY DEF Publish
<1>2. /\ cursor \in Int /\ c \in Nat /\ log \in Seq(Requests) /\ Len(log) = c
      /\ pending \in Requests
  BY <1>1 DEF Shape, TypeOK, Positions, Claimed
<1>3. log'[c + 1] = pending /\ \A s \in 0 .. cursor : log'[s + 1] = log[s + 1]
  BY <1>1, <1>2
<1>4. ring[Slot(c)].request = pending /\ ring[Slot(c)].exchange = c
  BY <1>1 DEF Content, Filled
<1> HIDE DEF c
<1>5. SlotsKept'
  <2>1. SUFFICES ASSUME NEW t \in Replicas, NEW s \in done[t] + 1 .. c
                 PROVE  /\ ring[Slot(s)].request = log'[s + 1]
                        /\ s < next[Persister] =>
                             /\ ring[Slot(s)].responder = Responder(s)
                             /\ ring[Slot(s)].request \in Writes =>
                                  ring[Slot(s)].body = bodies[s + 1]
    BY <1>1 DEF SlotsKept
  <2>2. done[t] \in Nat \cup {-1} BY ThreadFacts DEF Shape, TypeOK
  <2>3. CASE s = c
    <3>1. ~ (s < next[Persister]) BY <1>2, <2>3, Behind DEF c
    <3>2. QED BY <1>3, <1>4, <2>3, <3>1
  <2>4. CASE s # c
    <3>1. s \in done[t] + 1 .. cursor /\ s \in 0 .. cursor BY <1>2, <2>2, <2>4 DEF c
    <3>2. QED BY <1>3, <3>1 DEF Content, SlotsKept
  <2>5. QED BY <2>3, <2>4
<1>6. Filled' BY <1>1 DEF Filled
<1>7. ExchangeKept'
  <2>1. SUFFICES ASSUME NEW s \in 0 .. c, s >= next[Responder(s)]
                 PROVE  ring[Slot(s)].exchange = s
    BY <1>1 DEF ExchangeKept
  <2>2. CASE s = c BY <1>4, <2>2
  <2>3. CASE s # c
    <3>1. s \in 0 .. cursor BY <1>2, <2>3 DEF c
    <3>2. QED BY <2>1, <3>1 DEF Content, ExchangeKept
  <2>4. QED BY <2>2, <2>3
<1>8. QED BY <1>5, <1>6, <1>7 DEF Content

LEMMA PersistContent ==
  ASSUME Shape, Content, Persist
  PROVE  Content'
<1> DEFINE p == next[Persister]
<1> DEFINE e == ring[Slot(p)]
<1>1. /\ UNCHANGED <<io, pending, cursor, done, log>>
      /\ next' = [next EXCEPT ![Persister] = p + 1]
      /\ Handling(Persister)
  BY DEF Persist, Advance
<1>2. /\ p \in Nat /\ p <= cursor /\ cursor \in Nat /\ e \in Event
      /\ Slot(p) \in Slots
  BY <1>1, HandlingFacts, ThreadFacts
<1>3. PICK b \in Bodies \cup {NoEvent}, f \in Bodies \cup {NoEvent} :
        /\ ring' = [ring EXCEPT ![Slot(p)].responder = Responder(p),
                                ![Slot(p)].body = f]
        /\ bodies' = Append(bodies, b)
        /\ e.request \in Writes => f = b
  BY PersistEffect
<1>4. /\ ring \in [Slots -> Event]
      /\ bodies \in Seq(Bodies \cup {NoEvent}) /\ Len(bodies) = p
  BY DEF Shape, TypeOK, Positions
<1>5. next'[Persister] = p + 1 /\ \A t \in Replicas : next'[t] = next[t]
  BY <1>1, ThreadFacts DEF Shape, TypeOK
<1> HIDE DEF p, e
<1>6. /\ ring'[Slot(p)].request = e.request /\ ring'[Slot(p)].exchange = e.exchange
      /\ ring'[Slot(p)].responder = Responder(p) /\ ring'[Slot(p)].body = f
  BY <1>2, <1>3, <1>4 DEF Event, e
<1>7. \A i \in Slots : i # Slot(p) => ring'[i] = ring[i] BY <1>2, <1>3, <1>4
<1>8. \A i \in Slots : /\ ring'[i].request = ring[i].request
                       /\ ring'[i].exchange = ring[i].exchange
  BY <1>6, <1>7 DEF e
<1>9. bodies'[p + 1] = b /\ \A s \in 0 .. p - 1 : bodies'[s + 1] = bodies[s + 1]
  BY <1>2, <1>3, <1>4
<1>10. SlotsKept'
  <2>1. SUFFICES ASSUME NEW t \in Replicas, NEW s \in done[t] + 1 .. cursor
                 PROVE  /\ ring'[Slot(s)].request = log[s + 1]
                        /\ s < p + 1 =>
                             /\ ring'[Slot(s)].responder = Responder(s)
                             /\ ring'[Slot(s)].request \in Writes =>
                                  ring'[Slot(s)].body = bodies'[s + 1]
    BY <1>1, <1>5 DEF SlotsKept
  <2>2. done[t] \in Int BY Numbers DEF Shape
  <2>3. s \in Int /\ done[t] < s /\ s <= cursor BY <1>2, <2>1, <2>2
  <2>4. s \in Nat /\ Slot(s) \in Slots BY <2>3, InWindow
  <2>5. /\ ring[Slot(s)].request = log[s + 1]
        /\ s < p => /\ ring[Slot(s)].responder = Responder(s)
                    /\ ring[Slot(s)].request \in Writes => ring[Slot(s)].body = bodies[s + 1]
    BY <2>1 DEF Content, SlotsKept, p
  <2>6. CASE s = p BY <1>3, <1>6, <1>9, <2>5, <2>6 DEF e
  <2>7. CASE s # p
    <3>1. done[t] < p BY Behind DEF p
    <3>2. cursor - RingSize < p /\ cursor - RingSize < s BY <1>2, <2>3, <3>1, InWindow
    <3>3. Slot(s) # Slot(p) BY <1>2, <2>3, <2>4, <2>7, <3>2, Apart DEF Shape
    <3>4. ring'[Slot(s)] = ring[Slot(s)] BY <1>7, <2>4, <3>3
    <3>5. s < p + 1 => s < p /\ s \in 0 .. p - 1 BY <1>2, <2>4, <2>7
    <3>6. QED BY <1>9, <2>5, <3>4, <3>5
  <2>8. QED BY <2>6, <2>7
<1>11. Filled'
  <2>1. SUFFICES ASSUME io = "filled"
                 PROVE  /\ ring'[Slot(cursor + 1)].request = pending
                        /\ ring'[Slot(cursor + 1)].exchange = cursor + 1
    BY <1>1 DEF Filled
  <2>2. cursor + 1 \in Nat /\ Slot(cursor + 1) \in Slots BY <1>2, SlotInRing
  <2>3. QED BY <1>8, <2>1, <2>2 DEF Content, Filled
<1>12. ExchangeKept'
  <2>1. SUFFICES ASSUME NEW s \in 0 .. cursor, s >= next'[Responder(s)]
                 PROVE  ring'[Slot(s)].exchange = s
    BY <1>1 DEF ExchangeKept
  <2>2. Responder(s) \in Replicas /\ Slot(s) \in Slots BY ThreadFacts, SlotInRing
  <2>3. ring[Slot(s)].exchange = s BY <1>5, <2>1, <2>2 DEF Content, ExchangeKept
  <2>4. QED BY <1>8, <2>2, <2>3
<1>13. QED BY <1>10, <1>11, <1>12 DEF Content

LEMMA RespondContent ==
  ASSUME Shape, Content, NEW t \in Replicas, Respond(t)
  PROVE  Content'
<1> DEFINE q == next[t]
<1>1. /\ UNCHANGED <<io, pending, cursor, done, log, bodies>>
      /\ next' = [next EXCEPT ![t] = q + 1]
      /\ ring' = [ring EXCEPT ![Slot(q)].exchange = NoEvent]
      /\ ring[Slot(q)].responder = t /\ Handling(t)
  BY DEF Respond, Advance, historyVars
<1>2. /\ q \in Nat /\ q <= cursor /\ cursor \in Nat /\ done[t] < q
      /\ Slot(q) \in Slots
  BY <1>1, HandlingFacts, ThreadFacts
<1>3. Responder(q) = t BY <1>1, HandledRequest DEF Content
<1>4. ring \in [Slots -> Event] BY DEF Shape, TypeOK
<1>5. next'[t] = q + 1 /\ \A u \in Threads : u # t => next'[u] = next[u]
  BY <1>1, ThreadFacts DEF Shape, TypeOK
<1>6. next'[Persister] = next[Persister] BY <1>5, ThreadFacts
<1> HIDE DEF q
<1>7. \A i \in Slots : /\ ring'[i].request = ring[i].request
                       /\ ring'[i].responder = ring[i].responder
                       /\ ring'[i].body = ring[i].body
                       /\ i # Slot(q) => ring'[i] = ring[i]
  BY <1>1, <1>2, <1>4 DEF Event
<1>8. SlotsKept'
  <2>1. SUFFICES ASSUME NEW u \in Replicas, NEW s \in done[u] + 1 .. cursor
                 PROVE  /\ ring'[Slot(s)].request = log[s + 1]
                        /\ s < next[Persister] =>
                             /\ ring'[Slot(s)].responder = Responder(s)
                             /\ ring'[Slot(s)].request \in Writes =>
                                  ring'[Slot(s)].body = bodies[s + 1]
    BY <1>1, <1>6 DEF SlotsKept
  <2>2. done[u] \in Int BY Numbers DEF Shape
  <2>3. s \in Int /\ done[u] < s /\ s <= cursor BY <1>2, <2>1, <2>2
  <2>4. Slot(s) \in Slots BY <2>3, InWindow
  <2>5. QED BY <1>7, <2>1, <2>4 DEF Content, SlotsKept
<1>9. Filled'
  <2>1. SUFFICES ASSUME io = "filled"
                 PROVE  /\ ring'[Slot(cursor + 1)].request = pending
                        /\ ring'[Slot(cursor + 1)].exchange = cursor + 1
    BY <1>1 DEF Filled
  <2>2. cursor + 1 \in Nat /\ Slot(cursor + 1) \in Slots BY <1>2, SlotInRing
  <2>3. Slot(q) # Slot(cursor + 1) BY <1>2, <2>1, InWindow
  <2>4. ring'[Slot(cursor + 1)] = ring[Slot(cursor + 1)] BY <1>7, <2>2, <2>3
  <2>5. QED BY <2>1, <2>4 DEF Content, Filled
<1>10. ExchangeKept'
  <2>1. SUFFICES ASSUME NEW s \in 0 .. cursor, s >= next'[Responder(s)]
                 PROVE  ring'[Slot(s)].exchange = s
    BY <1>1 DEF ExchangeKept
  <2>2. /\ s \in Nat /\ s <= cursor /\ Responder(s) \in Replicas
        /\ Responder(s) \in Threads /\ Slot(s) \in Slots
    BY <1>2, ThreadFacts, SlotInRing
  <2>3. s # q BY <1>2, <1>3, <1>5, <2>1
  <2>4. s >= next[Responder(s)]
    <3>1. CASE Responder(s) = t BY <1>2, <1>5, <2>1, <2>2, <3>1 DEF q
    <3>2. CASE Responder(s) # t BY <1>5, <2>1, <2>2, <3>2
    <3>3. QED BY <3>1, <3>2
  <2>5. done[Responder(s)] < s
    <3>1. /\ done[Responder(s)] \in Int /\ next[Responder(s)] \in Nat
          /\ done[Responder(s)] < next[Responder(s)]
      BY <2>2, Behind, Numbers DEF Shape
    <3>2. QED BY <2>2, <2>4, <3>1
  <2>6. cursor - RingSize < s /\ cursor - RingSize < q
    BY <1>2, <2>2, <2>5, InWindow
  <2>7. Slot(s) # Slot(q) BY <1>2, <2>2, <2>3, <2>6, Apart DEF Shape
  <2>8. ring'[Slot(s)] = ring[Slot(s)] BY <1>7, <2>2, <2>7
  <2>9. QED BY <2>4, <2>8 DEF Content, ExchangeKept
<1>11. QED BY <1>8, <1>9, <1>10 DEF Content

LEMMA NextContent ==
  ASSUME Shape, Content, [Next]_vars
  PROVE  Content'
<1>1. Shape' BY NextShape DEF Content
<1>2. /\ \A t \in Threads : done[t] \in Int /\ next[t] \in Nat
      /\ Persister \in Threads /\ \A t \in Replicas : t \in Threads /\ t # Persister
  BY Numbers, ThreadFacts DEF Shape
<1>3. ASSUME NEW r \in Requests, Claim(r) PROVE Content'
  <2>1. /\ UNCHANGED <<ring, cursor, log, bodies, next, done>> /\ io' = "claimed"
    BY <1>3 DEF Claim, historyVars
  <2>2. QED BY <1>1, <1>2, <2>1, KeepContent
<1>4. ASSUME NEW t \in Threads, Batch(t) PROVE Content'
  <2>1. UNCHANGED <<ring, cursor, log, bodies, next, io, pending>>
    BY <1>4 DEF Batch, BeginBatch, EndBatch, historyVars
  <2>2. done' = done \/ done' = [done EXCEPT ![t] = avail[t]]
    BY <1>4 DEF Batch, BeginBatch, EndBatch
  <2>3. \A u \in Replicas : done[u] <= done'[u]
    <3>1. done[t] <= avail[t] BY DEF Shape, Positions
    <3>2. done \in [Threads -> Nat \cup {-1}] BY DEF Shape, TypeOK
    <3>3. QED BY <1>2, <2>2, <3>1, <3>2
  <2>4. QED BY <1>1, <1>2, <2>1, <2>3, KeepContent
<1>5. ASSUME NEW t \in Replicas, Skip(t) \/ Replicate(t) \/ Die(t) PROVE Content'
  <2>1. UNCHANGED <<ring, cursor, log, bodies, done, io, pending>>
    BY <1>5 DEF Skip, Replicate, Die, historyVars
  <2>2. next' = next \/ next' = [next EXCEPT ![t] = next[t] + 1]
    BY <1>5 DEF Skip, Replicate, Die, Advance
  <2>3. next'[Persister] = next[Persister] /\ \A u \in Replicas : next[u] <= next'[u]
    <3>1. next \in [Threads -> Nat] BY DEF Shape, TypeOK
    <3>2. QED BY <1>2, <2>2, <3>1
  <2>4. QED BY <1>1, <1>2, <2>1, <2>3, KeepContent
<1>6. CASE UNCHANGED vars
  <2>1. UNCHANGED <<ring, cursor, log, bodies, next, done, io, pending>>
    BY <1>6 DEF vars
  <2>2. QED BY <1>1, <1>2, <2>1, KeepContent
<1>7. ASSUME NEW t \in Replicas, ReplicaStep(t) PROVE Content'
  BY <1>2, <1>4, <1>5, <1>7, RespondContent DEF ReplicaStep
<1>8. QED
  BY <1>2, <1>3, <1>4, <1>6, <1>7, FillContent, PublishContent, PersistContent
  DEF Next, IOStep, PersistStep

-----------------------------------------------------------------------------
(* Meaning: the graphs and the answers *)

LEMMA InitMeaning == Init => Meaning
<1> SUFFICES ASSUME Init PROVE Meaning OBVIOUS
<1>1. next[Persister] = 0 /\ \A t \in Replicas : next[t] = 0
  BY ThreadFacts DEF Init
<1>2. states[1] = InitDb /\ answers = {} /\ graphs = [t \in Replicas |-> InitDb]
  BY DEF Init
<1>3. QED
  BY <1>1, <1>2
  DEF Meaning, StatesFollow, ReadsHaveNoBody, ReplicasInOrder, AnswersLinear

\* A step that only appends to the log.
LEMMA KeepMeaning ==
  ASSUME Shape, Meaning,
         UNCHANGED <<graphs, answers, bodies, states, next>>,
         log' = log \/ \E r \in Requests : log' = Append(log, r)
  PROVE  Meaning'
<1>1. /\ next[Persister] \in Nat /\ next[Persister] <= cursor + 1
      /\ cursor \in Int /\ Len(log) = cursor + 1 /\ log \in Seq(Requests)
      /\ answers \subseteq [exchange : Nat, reply : Replies]
  BY Behind, Numbers DEF Shape, Positions, TypeOK
<1>2. \A s \in 0 .. next[Persister] - 1 : log'[s + 1] = log[s + 1] BY <1>1
<1>3. StatesFollow' BY <1>2 DEF Meaning, StatesFollow
<1>4. ReadsHaveNoBody' BY <1>2 DEF Meaning, ReadsHaveNoBody
<1>5. ReplicasInOrder' BY DEF Meaning, ReplicasInOrder
<1>6. AnswersLinear'
  <2>1. SUFFICES ASSUME NEW a \in answers
                 PROVE  /\ a.exchange < next[Persister]
                        /\ a.reply = Reply(states[a.exchange + 1], log'[a.exchange + 1],
                                           bodies[a.exchange + 1])
    BY DEF AnswersLinear
  <2>2. /\ a.exchange < next[Persister]
        /\ a.reply = Reply(states[a.exchange + 1], log[a.exchange + 1],
                           bodies[a.exchange + 1])
    BY DEF Meaning, AnswersLinear
  <2>3. a.exchange \in Nat BY <1>1
  <2>4. a.exchange \in 0 .. next[Persister] - 1 BY <1>1, <2>2, <2>3
  <2>5. QED BY <1>2, <2>2, <2>4
<1>7. QED BY <1>3, <1>4, <1>5, <1>6 DEF Meaning

LEMMA PersistMeaning ==
  ASSUME Shape, Content, Meaning, Persist
  PROVE  Meaning'
<1> DEFINE p == next[Persister]
<1> DEFINE e == ring[Slot(p)]
<1>1. /\ UNCHANGED <<cursor, log, graphs, answers>>
      /\ next' = [next EXCEPT ![Persister] = p + 1] /\ Handling(Persister)
  BY DEF Persist, Advance
<1>2. PICK b \in Bodies \cup {NoEvent} :
        /\ bodies' = Append(bodies, b)
        /\ states' = Append(states, IF e.request \in Writes
                                    THEN Apply(states[p + 1], log[p + 1], b)
                                    ELSE states[p + 1])
        /\ e.request \notin Writes => b = NoEvent
  BY PersistEffect
<1>3. /\ p \in Nat /\ p <= cursor /\ cursor \in Nat
      /\ bodies \in Seq(Bodies \cup {NoEvent}) /\ Len(bodies) = p
      /\ states \in Seq(Databases) /\ Len(states) = p + 1
      /\ answers \subseteq [exchange : Nat, reply : Replies]
  BY <1>1, HandlingFacts, ThreadFacts DEF Shape, TypeOK, Positions
<1>4. e.request = log[p + 1]
  <2>1. PICK t \in Replicas : t = Responder(p) BY <1>3, ThreadFacts
  <2>2. done[t] \in Int /\ done[t] < p BY Behind, Numbers DEF Shape
  <2>3. p \in done[t] + 1 .. cursor BY <1>3, <2>2
  <2>4. QED BY <2>3 DEF Content, SlotsKept
<1>5. next'[Persister] = p + 1 /\ \A t \in Replicas : next'[t] = next[t]
  BY <1>1, ThreadFacts DEF Shape, TypeOK
<1>6. \A t \in Replicas : next[t] \in Nat /\ next[t] <= p BY Behind
<1> HIDE DEF p, e
<1>7. bodies'[p + 1] = b /\ \A s \in 0 .. p - 1 : bodies'[s + 1] = bodies[s + 1]
  BY <1>2, <1>3
<1>8. \A s \in 0 .. p : states'[s + 1] = states[s + 1] BY <1>2, <1>3
<1>9. states'[p + 2] = IF log[p + 1] \in Writes
                       THEN Apply(states[p + 1], log[p + 1], b)
                       ELSE states[p + 1]
  BY <1>2, <1>3, <1>4
<1>10. StatesFollow'
  <2>1. SUFFICES ASSUME NEW s \in 0 .. p
                 PROVE  states'[s + 2] = IF log[s + 1] \in Writes
                                         THEN Apply(states'[s + 1], log[s + 1], bodies'[s + 1])
                                         ELSE states'[s + 1]
    BY <1>1, <1>3, <1>5 DEF StatesFollow
  <2>2. CASE s = p BY <1>3, <1>7, <1>8, <1>9, <2>2
  <2>3. CASE s # p
    <3>1. s \in 0 .. p - 1 /\ s + 1 \in 0 .. p /\ (s + 1) + 1 = s + 2 BY <1>3, <2>3
    <3>2. states'[s + 2] = states[s + 2] BY <1>8, <3>1
    <3>3. QED BY <1>7, <1>8, <3>1, <3>2 DEF Meaning, StatesFollow, p
  <2>4. QED BY <2>2, <2>3
<1>11. ReadsHaveNoBody'
  <2>1. SUFFICES ASSUME NEW s \in 0 .. p, log[s + 1] \notin Writes
                 PROVE  bodies'[s + 1] = NoEvent
    BY <1>1, <1>3, <1>5 DEF ReadsHaveNoBody
  <2>2. CASE s = p BY <1>2, <1>4, <1>7, <2>1, <2>2
  <2>3. CASE s # p
    <3>1. s \in 0 .. p - 1 BY <1>3, <2>3
    <3>2. QED BY <1>7, <2>1, <3>1 DEF Meaning, ReadsHaveNoBody, p
  <2>4. QED BY <2>2, <2>3
<1>12. ReplicasInOrder'
  <2>1. SUFFICES ASSUME NEW t \in Replicas PROVE graphs[t] = states'[next[t] + 1]
    BY <1>1, <1>5 DEF ReplicasInOrder
  <2>2. next[t] \in 0 .. p BY <1>3, <1>6
  <2>3. QED BY <1>8, <2>2 DEF Meaning, ReplicasInOrder
<1>13. AnswersLinear'
  <2>1. SUFFICES ASSUME NEW a \in answers
                 PROVE  /\ a.exchange < p + 1
                        /\ a.reply = Reply(states'[a.exchange + 1], log[a.exchange + 1],
                                           bodies'[a.exchange + 1])
    BY <1>1, <1>5 DEF AnswersLinear
  <2>2. /\ a.exchange < p
        /\ a.reply = Reply(states[a.exchange + 1], log[a.exchange + 1],
                           bodies[a.exchange + 1])
    BY DEF Meaning, AnswersLinear, p
  <2>3. a.exchange \in Nat BY <1>3
  <2>4. a.exchange \in 0 .. p - 1 /\ a.exchange \in 0 .. p BY <1>3, <2>2, <2>3
  <2>5. QED BY <1>3, <1>7, <1>8, <2>2, <2>3, <2>4
<1>14. QED BY <1>10, <1>11, <1>12, <1>13 DEF Meaning

\* A replica moves past an event with the graph the event leads to.
LEMMA MoveMeaning ==
  ASSUME Shape, SlotsKept, Meaning, NEW t \in Replicas, Handling(t), Advance(t),
         UNCHANGED <<log, bodies, states>>,
         LET e == ring[Slot(next[t])] IN
           graphs' = [graphs EXCEPT ![t] = IF e.request \in Writes
                                           THEN Apply(graphs[t], e.request, SeenBody(e))
                                           ELSE graphs[t]]
  PROVE  StatesFollow' /\ ReadsHaveNoBody' /\ ReplicasInOrder' /\ next'[Persister] = next[Persister]
<1> DEFINE q == next[t]
<1> DEFINE e == ring[Slot(q)]
<1>1. next' = [next EXCEPT ![t] = q + 1] BY DEF Advance
<1>2. next'[t] = q + 1 /\ \A u \in Threads : u # t => next'[u] = next[u]
  BY <1>1, ThreadFacts DEF Shape, TypeOK
<1>3. next'[Persister] = next[Persister] BY <1>2, ThreadFacts
<1>4. /\ q < next[Persister] /\ e.request = log[q + 1]
      /\ e.request \in Writes => SeenBody(e) = bodies[q + 1]
  BY HandledRequest DEF SeenBody
<1>5. q \in Nat /\ next[Persister] \in Nat BY Behind
<1>6. q \in 0 .. next[Persister] - 1 BY <1>4, <1>5
<1>7. graphs[t] = states[q + 1] BY DEF Meaning, ReplicasInOrder
<1>8. states[q + 2] = IF e.request \in Writes
                      THEN Apply(graphs[t], e.request, SeenBody(e))
                      ELSE graphs[t]
  BY <1>4, <1>6, <1>7 DEF Meaning, StatesFollow
<1>9. graphs' = [graphs EXCEPT ![t] = states[q + 2]] BY <1>8
<1> HIDE DEF q, e
<1>10. ReplicasInOrder'
  <2>1. SUFFICES ASSUME NEW u \in Replicas PROVE graphs'[u] = states[next'[u] + 1]
    BY DEF ReplicasInOrder
  <2>2. graphs \in [Replicas -> Databases] BY DEF Shape, TypeOK
  <2>3. CASE u = t
    <3>1. (q + 1) + 1 = q + 2 BY <1>5
    <3>2. QED BY <1>2, <1>9, <2>2, <2>3, <3>1
  <2>4. CASE u # t
    <3>1. next'[u] = next[u] /\ graphs'[u] = graphs[u] BY <1>2, <1>9, <2>2, <2>4, ThreadFacts
    <3>2. QED BY <3>1 DEF Meaning, ReplicasInOrder
  <2>5. QED BY <2>3, <2>4
<1>11. StatesFollow' /\ ReadsHaveNoBody'
  BY <1>3 DEF Meaning, StatesFollow, ReadsHaveNoBody
<1>12. QED BY <1>3, <1>10, <1>11

LEMMA RespondMeaning ==
  ASSUME Shape, Content, Meaning, NEW t \in Replicas, Respond(t)
  PROVE  Meaning'
<1> DEFINE q == next[t]
<1> DEFINE e == ring[Slot(q)]
<1> DEFINE reply == Reply(graphs[t], e.request, SeenBody(e))
<1>1. /\ Handling(t) /\ Advance(t) /\ UNCHANGED <<log, bodies, states>>
      /\ e.responder = t
      /\ graphs' = [graphs EXCEPT ![t] = IF e.request \in Writes
                                         THEN Apply(graphs[t], e.request, SeenBody(e))
                                         ELSE graphs[t]]
      /\ answers' = answers \cup {[exchange |-> e.exchange, reply |-> reply]}
  BY DEF Respond, historyVars
<1>2. /\ StatesFollow' /\ ReadsHaveNoBody' /\ ReplicasInOrder'
      /\ next'[Persister] = next[Persister]
  BY <1>1, MoveMeaning DEF Content
<1>3. /\ q < next[Persister] /\ e.request = log[q + 1] /\ Responder(q) = t
      /\ e.request \in Writes => SeenBody(e) = bodies[q + 1]
      /\ e.request \notin Writes => SeenBody(e) = NoEvent
  BY <1>1, HandledRequest DEF Content, SeenBody
<1>4. /\ q \in Nat /\ next[Persister] \in Nat /\ next[Persister] <= cursor + 1
      /\ cursor \in Int
  BY Behind, Numbers DEF Shape
<1>5. q \in 0 .. next[Persister] - 1 /\ q \in 0 .. cursor BY <1>3, <1>4
<1>6. e.exchange = q BY <1>3, <1>4, <1>5 DEF Content, ExchangeKept
<1>7. SeenBody(e) = bodies[q + 1] BY <1>3, <1>5 DEF Meaning, ReadsHaveNoBody
<1>8. reply = Reply(states[q + 1], log[q + 1], bodies[q + 1])
  BY <1>3, <1>7 DEF Meaning, ReplicasInOrder
<1> HIDE DEF q, e, reply
<1>9. AnswersLinear'
  <2>1. SUFFICES ASSUME NEW a \in answers'
                 PROVE  /\ a.exchange < next[Persister]
                        /\ a.reply = Reply(states[a.exchange + 1], log[a.exchange + 1],
                                           bodies[a.exchange + 1])
    BY <1>1, <1>2 DEF AnswersLinear
  <2>2. CASE a \in answers BY <2>2 DEF Meaning, AnswersLinear
  <2>3. CASE a = [exchange |-> q, reply |-> reply] BY <1>3, <1>8, <2>3
  <2>4. QED BY <1>1, <1>6, <2>2, <2>3
<1>10. QED BY <1>2, <1>9 DEF Meaning

\* A replica that does not answer.
LEMMA QuietMeaning ==
  ASSUME Shape, Content, Meaning, NEW t \in Replicas, Skip(t) \/ Replicate(t)
  PROVE  Meaning'
<1> DEFINE e == ring[Slot(next[t])]
<1>1. /\ Handling(t) /\ Advance(t) /\ UNCHANGED <<log, bodies, states, answers>>
  BY DEF Skip, Replicate, historyVars
<1>2. graphs' = [graphs EXCEPT ![t] = IF e.request \in Writes
                                      THEN Apply(graphs[t], e.request, SeenBody(e))
                                      ELSE graphs[t]]
  <2>1. CASE Skip(t)
    <3>1. graphs' = graphs /\ e.request \notin Writes BY <2>1 DEF Skip
    <3>2. graphs \in [Replicas -> Databases] BY DEF Shape, TypeOK
    <3>3. graphs = [graphs EXCEPT ![t] = graphs[t]] BY <3>2
    <3>4. QED BY <3>1, <3>3
  <2>2. CASE Replicate(t) BY <2>2 DEF Replicate
  <2>3. QED BY <2>1, <2>2
<1>3. /\ StatesFollow' /\ ReadsHaveNoBody' /\ ReplicasInOrder'
      /\ next'[Persister] = next[Persister]
  BY <1>1, <1>2, MoveMeaning DEF Content
<1>4. AnswersLinear' BY <1>1, <1>3 DEF Meaning, AnswersLinear
<1>5. QED BY <1>3, <1>4 DEF Meaning

LEMMA NextMeaning ==
  ASSUME Shape, Content, Meaning, [Next]_vars
  PROVE  Meaning'
<1>1. ASSUME NEW t \in Threads, Batch(t) PROVE Meaning'
  <2>1. UNCHANGED <<graphs, answers, bodies, states, next, log>>
    BY <1>1 DEF Batch, BeginBatch, EndBatch, historyVars
  <2>2. QED BY <2>1, KeepMeaning
<1>2. CASE Fill \/ \E r \in Requests : Claim(r)
  <2>1. UNCHANGED <<graphs, answers, bodies, states, next, log>>
    BY <1>2 DEF Fill, Claim, historyVars
  <2>2. QED BY <2>1, KeepMeaning
<1>3. CASE Publish
  <2>1. /\ UNCHANGED <<graphs, answers, bodies, states, next>>
        /\ log' = Append(log, pending) /\ io # "idle"
    BY <1>3 DEF Publish
  <2>2. pending \in Requests BY <2>1 DEF Shape, Claimed
  <2>3. QED BY <2>1, <2>2, KeepMeaning
<1>4. ASSUME NEW t \in Replicas, Die(t) PROVE Meaning'
  <2>1. UNCHANGED <<graphs, answers, bodies, states, next, log>>
    BY <1>4 DEF Die, historyVars
  <2>2. QED BY <2>1, KeepMeaning
<1>5. CASE UNCHANGED vars
  <2>1. UNCHANGED <<graphs, answers, bodies, states, next, log>> BY <1>5 DEF vars
  <2>2. QED BY <2>1, KeepMeaning
<1>6. ASSUME NEW t \in Replicas, ReplicaStep(t) PROVE Meaning'
  BY <1>1, <1>4, <1>6, ThreadFacts, RespondMeaning, QuietMeaning DEF ReplicaStep
<1>7. QED
  BY <1>1, <1>2, <1>3, <1>5, <1>6, ThreadFacts, PersistMeaning
  DEF Next, IOStep, PersistStep

-----------------------------------------------------------------------------
(* The theorems *)

\* The invariant holds initially and every step keeps it.
THEOREM Inductive == Spec => []IInv
<1>1. Init => IInv BY InitShape, InitContent, InitMeaning DEF IInv
<1>2. IInv /\ [Next]_vars => IInv'
  <2>1. SUFFICES ASSUME IInv, [Next]_vars PROVE IInv' OBVIOUS
  <2>2. Shape' BY <2>1, NextShape DEF IInv, Content
  <2>3. Content' BY <2>1, NextContent DEF IInv
  <2>4. Meaning' BY <2>1, NextMeaning DEF IInv
  <2>5. QED BY <2>2, <2>3, <2>4 DEF IInv
<1>3. QED BY <1>1, <1>2, PTL DEF Spec

\* The types hold for any ring size and any number of replicas: no responder
\* outside the executor's threads, no slot outside the ring.
THEOREM TypeCorrect == Spec => []TypeOK
<1>1. IInv => TypeOK BY DEF IInv, Shape
<1>2. QED BY <1>1, Inductive, PTL

\* RequestHandler never overwrites a slot a replica still has to read.
THEOREM SlotsAreKept == Spec => []SlotsKept
<1>1. IInv => SlotsKept BY DEF IInv, Content
<1>2. QED BY <1>1, Inductive, PTL

\* DatabaseEventHandler never finds the exchange it answers to missing, taken
\* by another request or already ended.
THEOREM ExchangeIsFound == Spec => []ExchangeFound
<1>1. IInv => ExchangeFound
  <2>1. SUFFICES ASSUME IInv, NEW t \in Replicas, Handling(t), Responder(next[t]) = t
                 PROVE  ring[Slot(next[t])].exchange = next[t]
    BY DEF ExchangeFound
  <2>2. /\ next[t] \in Nat /\ next[t] <= cursor /\ cursor \in Nat
    BY <2>1, HandlingFacts, ThreadFacts DEF IInv
  <2>3. next[t] \in 0 .. cursor BY <2>2
  <2>4. QED BY <2>1, <2>2, <2>3 DEF IInv, Content, ExchangeKept
<1>2. QED BY <1>1, Inductive, PTL

\* The replicas never diverge: each holds the graph its position leads to.
THEOREM ReplicasAgree == Spec => []ReplicasInOrder
<1>1. IInv => ReplicasInOrder BY DEF IInv, Meaning
<1>2. QED BY <1>1, Inductive, PTL

\* Whatever replica answers, the answer is the one of a single graph that
\* processes the requests one after the other.
THEOREM AnswersAreLinear == Spec => []AnswersLinear
<1>1. IInv => AnswersLinear BY DEF IInv, Meaning
<1>2. QED BY <1>1, Inductive, PTL

-----------------------------------------------------------------------------
(* The journal *)

\* The journal holds the bodies of the writes the persistence thread has passed.
Journalled ==
  /\ Len(journal) = Cardinality(WritesUpTo(next[Persister]))
  /\ \A i \in WritesUpTo(next[Persister]) :
       journal[Cardinality(WritesUpTo(i))] = bodies[i]

\* How the set of writes grows along the log.
LEMMA WritesGrow ==
  ASSUME NEW n \in Nat
  PROVE  /\ IsFiniteSet(WritesUpTo(n)) /\ Cardinality(WritesUpTo(n)) \in Nat
         /\ log[n + 1] \in Writes =>
              /\ WritesUpTo(n + 1) = WritesUpTo(n) \cup {n + 1}
              /\ Cardinality(WritesUpTo(n + 1)) = Cardinality(WritesUpTo(n)) + 1
         /\ log[n + 1] \notin Writes => WritesUpTo(n + 1) = WritesUpTo(n)
<1>1. IsFiniteSet(WritesUpTo(n))
  <2>1. IsFiniteSet(1 .. n) BY FS_Interval
  <2>2. WritesUpTo(n) \in SUBSET (1 .. n) BY DEF WritesUpTo
  <2>3. QED BY <2>1, <2>2, FS_Subset
<1>2. Cardinality(WritesUpTo(n)) \in Nat BY <1>1, FS_CardinalityType
<1>3. ASSUME log[n + 1] \in Writes
      PROVE  /\ WritesUpTo(n + 1) = WritesUpTo(n) \cup {n + 1}
             /\ Cardinality(WritesUpTo(n + 1)) = Cardinality(WritesUpTo(n)) + 1
  <2>1. WritesUpTo(n + 1) = WritesUpTo(n) \cup {n + 1} BY <1>3 DEF WritesUpTo
  <2>2. n + 1 \notin WritesUpTo(n) BY DEF WritesUpTo
  <2>3. QED BY <1>1, <2>1, <2>2, FS_AddElement
<1>4. ASSUME log[n + 1] \notin Writes PROVE WritesUpTo(n + 1) = WritesUpTo(n)
  BY <1>4 DEF WritesUpTo
<1>5. QED BY <1>1, <1>2, <1>3, <1>4

\* The place of a write in the journal is one of its places.
LEMMA JournalPlace ==
  ASSUME NEW n \in Nat, NEW i \in WritesUpTo(n)
  PROVE  /\ i \in 1 .. n
         /\ Cardinality(WritesUpTo(i)) \in 1 .. Cardinality(WritesUpTo(n))
<1>1. i \in 1 .. n /\ i \in Nat BY DEF WritesUpTo
<1>2. i \in WritesUpTo(i) /\ WritesUpTo(i) \in SUBSET WritesUpTo(n)
  BY <1>1 DEF WritesUpTo
<1>3. /\ IsFiniteSet(WritesUpTo(i)) /\ Cardinality(WritesUpTo(i)) \in Nat
      /\ IsFiniteSet(WritesUpTo(n)) /\ Cardinality(WritesUpTo(n)) \in Nat
  BY <1>1, WritesGrow
<1>4. Cardinality(WritesUpTo(i)) # 0 BY <1>2, <1>3, FS_EmptySet
<1>5. Cardinality(WritesUpTo(i)) <= Cardinality(WritesUpTo(n)) BY <1>2, <1>3, FS_Subset
<1>6. QED BY <1>1, <1>3, <1>4, <1>5

\* A step that only appends to the log.
LEMMA KeepJournal ==
  ASSUME Shape, Journalled, UNCHANGED <<journal, bodies>>,
         next'[Persister] = next[Persister],
         log' = log \/ \E r \in Requests : log' = Append(log, r)
  PROVE  Journalled'
<1>1. /\ next[Persister] \in Nat /\ next[Persister] <= cursor + 1
      /\ cursor \in Int /\ Len(log) = cursor + 1 /\ log \in Seq(Requests)
  BY Behind, Numbers DEF Shape, Positions, TypeOK
<1>2. ASSUME NEW n \in Nat, n <= next[Persister]
      PROVE  WritesUpTo(n)' = WritesUpTo(n)
  <2>1. \A i \in 1 .. n : log'[i] = log[i] BY <1>1, <1>2
  <2>2. QED BY <2>1 DEF WritesUpTo
<1>3. \A i \in WritesUpTo(next[Persister]) : i \in Nat /\ i <= next[Persister]
  BY <1>1 DEF WritesUpTo
<1> DEFINE p == next[Persister]
<1>4. WritesUpTo(p)' = WritesUpTo(p) BY <1>1, <1>2
<1>5. Len(journal') = Cardinality(WritesUpTo(p)') BY <1>4 DEF Journalled
<1>6. \A i \in WritesUpTo(p) : journal'[Cardinality(WritesUpTo(i)')] = bodies'[i]
  BY <1>2, <1>3 DEF Journalled
<1>7. QED BY <1>4, <1>5, <1>6 DEF Journalled

LEMMA PersistJournal ==
  ASSUME Shape, Content, Journalled, Persist
  PROVE  Journalled'
<1> DEFINE p == next[Persister]
<1> DEFINE e == ring[Slot(p)]
<1>1. /\ log' = log /\ next' = [next EXCEPT ![Persister] = p + 1]
      /\ Handling(Persister)
  BY DEF Persist, Advance
<1>2. PICK b \in Bodies \cup {NoEvent} :
        /\ bodies' = Append(bodies, b)
        /\ IF e.request \in Writes
           THEN journal' = Append(journal, b)
           ELSE journal' = journal
        /\ journal' \in Seq(Bodies)
  BY PersistEffect
<1>3. /\ p \in Nat /\ p <= cursor /\ cursor \in Nat
      /\ bodies \in Seq(Bodies \cup {NoEvent}) /\ Len(bodies) = p
      /\ journal \in Seq(Bodies)
  BY <1>1, HandlingFacts, ThreadFacts DEF Shape, TypeOK, Positions
<1>4. e.request = log[p + 1]
  <2>1. PICK t \in Replicas : t = Responder(p) BY <1>3, ThreadFacts
  <2>2. done[t] \in Int /\ done[t] < p BY Behind, Numbers DEF Shape
  <2>3. p \in done[t] + 1 .. cursor BY <1>3, <2>2
  <2>4. QED BY <2>3 DEF Content, SlotsKept
<1>5. next'[Persister] = p + 1 BY <1>1, ThreadFacts DEF Shape, TypeOK
<1>6. /\ Len(journal) = Cardinality(WritesUpTo(p))
      /\ \A i \in WritesUpTo(p) : journal[Cardinality(WritesUpTo(i))] = bodies[i]
  BY DEF Journalled
<1> HIDE DEF p, e
<1>7. bodies'[p + 1] = b /\ \A i \in 1 .. p : bodies'[i] = bodies[i] BY <1>2, <1>3
<1>8. SUFFICES /\ Len(journal') = Cardinality(WritesUpTo(p + 1))
               /\ \A i \in WritesUpTo(p + 1) :
                    journal'[Cardinality(WritesUpTo(i))] = bodies'[i]
  BY <1>1, <1>5 DEF Journalled, WritesUpTo
<1>9. \A i \in WritesUpTo(p) : /\ i \in 1 .. p
                               /\ Cardinality(WritesUpTo(i)) \in 1 .. Len(journal)
  BY <1>3, <1>6, JournalPlace
<1>10. CASE log[p + 1] \in Writes
  <2>1. /\ WritesUpTo(p + 1) = WritesUpTo(p) \cup {p + 1}
        /\ Cardinality(WritesUpTo(p + 1)) = Len(journal) + 1
    BY <1>3, <1>6, <1>10, WritesGrow
  <2>2. journal' = Append(journal, b) BY <1>2, <1>4, <1>10
  <2>3. Len(journal') = Len(journal) + 1 /\ journal'[Len(journal) + 1] = b
    <3>1. b \in Bodies
      <4>1. journal'[Len(journal) + 1] = b /\ Len(journal') = Len(journal) + 1
        BY <1>3, <2>2
      <4>2. Len(journal) + 1 \in 1 .. Len(journal') BY <1>3, <4>1
      <4>3. QED BY <1>2, <4>1, <4>2
    <3>2. QED BY <1>3, <2>2, <3>1
  <2>4. \A k \in 1 .. Len(journal) : journal'[k] = journal[k] BY <1>3, <2>2
  <2>5. ASSUME NEW i \in WritesUpTo(p + 1)
        PROVE  journal'[Cardinality(WritesUpTo(i))] = bodies'[i]
    <3>1. CASE i = p + 1 BY <1>7, <2>1, <2>3, <3>1
    <3>2. CASE i \in WritesUpTo(p) BY <1>6, <1>7, <1>9, <2>4, <3>2
    <3>3. QED BY <2>1, <2>5, <3>1, <3>2
  <2>6. QED BY <2>1, <2>3, <2>5
<1>11. CASE log[p + 1] \notin Writes
  <2>1. WritesUpTo(p + 1) = WritesUpTo(p) BY <1>3, <1>11, WritesGrow
  <2>2. journal' = journal BY <1>2, <1>4, <1>11
  <2>3. QED BY <1>6, <1>7, <1>9, <2>1, <2>2
<1>12. QED BY <1>10, <1>11

LEMMA NextJournal ==
  ASSUME Shape, Content, Journalled, [Next]_vars
  PROVE  Journalled'
<1>1. CASE Persist BY <1>1, PersistJournal
<1>2. CASE Publish
  <2>1. /\ UNCHANGED <<journal, bodies, next>> /\ log' = Append(log, pending) /\ io # "idle"
    BY <1>2 DEF Publish
  <2>2. pending \in Requests BY <2>1 DEF Shape, Claimed
  <2>3. QED BY <2>1, <2>2, KeepJournal
<1>3. CASE Fill \/ (\E r \in Requests : Claim(r)) \/ UNCHANGED vars
  <2>1. UNCHANGED <<journal, bodies, next, log>>
    BY <1>3 DEF Fill, Claim, vars, historyVars
  <2>2. QED BY <2>1, KeepJournal
<1>4. ASSUME NEW t \in Threads, Batch(t) PROVE Journalled'
  <2>1. UNCHANGED <<journal, bodies, next, log>>
    BY <1>4 DEF Batch, BeginBatch, EndBatch, historyVars
  <2>2. QED BY <2>1, KeepJournal
<1>5. ASSUME NEW t \in Replicas, Skip(t) \/ Replicate(t) \/ Respond(t) \/ Die(t)
      PROVE  Journalled'
  <2>1. /\ UNCHANGED <<journal, bodies, log>>
        /\ next' = next \/ next' = [next EXCEPT ![t] = next[t] + 1]
    <3>1. CASE Skip(t) BY <3>1 DEF Skip, Advance, historyVars
    <3>2. CASE Replicate(t) BY <3>2 DEF Replicate, Advance, historyVars
    <3>3. CASE Respond(t) BY <3>3 DEF Respond, Advance, historyVars
    <3>4. CASE Die(t) BY <3>4 DEF Die, historyVars
    <3>5. QED BY <1>5, <3>1, <3>2, <3>3, <3>4
  <2>2. next'[Persister] = next[Persister]
    BY <2>1, ThreadFacts DEF Shape, TypeOK
  <2>3. QED BY <2>1, <2>2, KeepJournal
<1>6. QED
  BY <1>1, <1>2, <1>3, <1>4, <1>5, ThreadFacts
  DEF Next, IOStep, PersistStep, ReplicaStep, Batch

\* Whatever a replica applies or acknowledges is in the journal before: the
\* journal is the bodies of the writes of the log, in the order of the log.
THEOREM JournalRunsAhead == Spec => []JournalAhead
<1>1. Init => Journalled
  <2>1. SUFFICES ASSUME Init PROVE Journalled OBVIOUS
  <2>2. next[Persister] = 0 /\ journal = <<>> BY <2>1, ThreadFacts DEF Init
  <2>3. WritesUpTo(0) = {} BY DEF WritesUpTo
  <2>4. QED BY <2>2, <2>3, FS_EmptySet DEF Journalled
<1>2. IInv /\ Journalled /\ [Next]_vars => Journalled'
  BY NextJournal DEF IInv
<1>3. IInv /\ Journalled => JournalAhead
  BY Behind DEF IInv, Journalled, JournalAhead
<1>4. QED BY <1>1, <1>2, <1>3, Inductive, PTL DEF Spec

-----------------------------------------------------------------------------
(* The server implements AtomicDatabase: the replica ahead of all others *)

\* Replica t has handled as much as any other.
IsFirst(t) == t \in Replicas /\ \A u \in Replicas : next[u] <= next[t]

\* Positions bounded from above have a greatest one.
LEMMA SomeFirst ==
  ASSUME NEW pos, NEW top \in Nat,
         \A u \in Replicas : pos[u] \in Nat /\ pos[u] <= top
  PROVE  \E t \in Replicas : \A u \in Replicas : pos[u] <= pos[t]
<1> DEFINE Gaps == {top - pos[u] : u \in Replicas}
<1>1. Gaps \subseteq Nat /\ Gaps # {}
  BY RingAssumption DEF Replicas
<1> HIDE DEF Gaps
<1>2. PICK gap \in Gaps : \A other \in Gaps : ~ (<<other, gap>> \in OpToRel(<, Nat))
  BY <1>1, NatLessThanWellFounded, WFMin, Zenon
<1>3. PICK t \in Replicas : gap = top - pos[t] BY DEF Gaps
<1>4. ASSUME NEW u \in Replicas PROVE pos[u] <= pos[t]
  <2> DEFINE other == top - pos[u]
  <2>1. other \in Gaps BY DEF Gaps
  <2>2. other \in Nat /\ gap \in Nat BY <1>1, <2>1
  <2>3. ~ (other < gap) BY <1>2, <2>1, <2>2 DEF OpToRel
  <2>4. QED BY <1>3, <2>2, <2>3
<1>5. QED BY <1>4

LEMMA LeadIsFirst == IInv => IsFirst(Lead)
<1>1. SUFFICES ASSUME IInv PROVE IsFirst(Lead) OBVIOUS
<1>2. /\ next[Persister] \in Nat
      /\ \A u \in Replicas : next[u] \in Nat /\ next[u] <= next[Persister]
  BY <1>1, Behind DEF IInv
<1>3. \E t \in Replicas : \A u \in Replicas : next[u] <= next[t] BY <1>2, SomeFirst
<1>4. QED BY <1>3 DEF Lead, IsFirst

\* Its graph is the one after the requests it has handled.
LeadFacts ==
  /\ Lead \in Replicas /\ next[Lead] \in Nat
  /\ \A u \in Replicas : next[u] \in Nat /\ next[u] <= next[Lead]
  /\ graphs[Lead] = states[next[Lead] + 1]
  /\ next[Lead] <= next[Persister] /\ next[Persister] \in Nat
  /\ next[Persister] <= cursor + 1 /\ Len(log) = cursor + 1 /\ cursor \in Int

LEMMA LeadState == IInv => LeadFacts
<1>1. SUFFICES ASSUME IInv PROVE LeadFacts OBVIOUS
<1>2. IsFirst(Lead) BY <1>1, LeadIsFirst
<1>3. graphs[Lead] = states[next[Lead] + 1]
  BY <1>1, <1>2 DEF IInv, Meaning, ReplicasInOrder, IsFirst
<1>4. /\ \A u \in Replicas : next[u] \in Nat /\ next[u] <= next[Persister]
      /\ next[Persister] \in Nat /\ next[Persister] <= cursor + 1
  BY <1>1, Behind DEF IInv
<1>5. Len(log) = cursor + 1 /\ cursor \in Int
  BY <1>1, Numbers DEF IInv, Shape, Positions
<1>6. QED BY <1>2, <1>3, <1>4, <1>5 DEF IsFirst, LeadFacts

LEMMA LeadAfter == IInv' => LeadFacts'
BY LeadState, PTL

-----------------------------------------------------------------------------
(* Two more invariants *)

\* A request is answered by its responder as it passes it, so never twice.
AnsweredBehind ==
  \A a \in answers : a.exchange \in Nat /\ a.exchange < next[Responder(a.exchange)]

\* What the persistence thread took from a request: its body or what was read
\* of it before the read failed.
BodiesTaken ==
  \A s \in 0 .. next[Persister] - 1 : bodies[s + 1] \in Atomic!Taken(log[s + 1])

RInv == IInv /\ AnsweredBehind /\ BodiesTaken

LEMMA InitRInv == Init => RInv
<1>1. SUFFICES ASSUME Init PROVE RInv OBVIOUS
<1>2. IInv BY <1>1, InitShape, InitContent, InitMeaning DEF IInv
<1>3. AnsweredBehind BY <1>1 DEF Init, AnsweredBehind
<1>4. next[Persister] = 0 BY <1>1, ThreadFacts DEF Init
<1>5. BodiesTaken BY <1>4 DEF BodiesTaken
<1>6. QED BY <1>2, <1>3, <1>5 DEF RInv

\* A step that moves no replica, answers nothing and keeps what is recorded of
\* the requests so far is no step of the abstract database, or submits a
\* request.
Recorded ==
  \A i \in 1 .. next[Persister] : /\ states'[i] = states[i] /\ bodies'[i] = bodies[i]
                                  /\ states'[i + 1] = states[i + 1]

LEMMA LeadStays ==
  ASSUME LeadFacts, LeadFacts', \A u \in Replicas : next'[u] = next[u]
  PROVE  (next[Lead])' = next[Lead]
BY DEF LeadFacts

LEMMA StillReplicas ==
  ASSUME LeadFacts, LeadFacts', \A u \in Replicas : next'[u] = next[u],
         states'[1] = states[1], Recorded, answers' = answers,
         log' = log \/ \E r \in Requests : log' = Append(log, r),
         log \in Seq(Requests)
  PROVE  Atomic!Next \/ UNCHANGED Atomic!vars
<1> DEFINE top == next[Lead]
<1>1. (next[Lead])' = top /\ top \in Nat /\ top <= Len(log) /\ Len(log) \in Nat
  BY LeadStays DEF LeadFacts
<1>2. \A i \in 1 .. top : i \in 1 .. next[Persister] /\ i \in 1 .. Len(log)
  BY <1>1 DEF LeadFacts
<1>3. ASSUME NEW i \in 1 .. top
      PROVE  states'[i] = states[i] /\ bodies'[i] = bodies[i] /\ log'[i] = log[i]
  <2>1. states'[i] = states[i] /\ bodies'[i] = bodies[i] BY <1>2 DEF Recorded
  <2>2. log'[i] = log[i] BY <1>2
  <2>3. QED BY <2>1, <2>2
<1>4. states'[top + 1] = states[top + 1]
  <2>1. CASE top = 0 BY <2>1
  <2>2. CASE top # 0
    <3>1. top \in 1 .. next[Persister] BY <1>1, <2>2 DEF LeadFacts
    <3>2. QED BY <3>1 DEF Recorded
  <2>3. QED BY <2>1, <2>2
<1>5. (graphs[Lead])' = graphs[Lead] BY <1>1, <1>4 DEF LeadFacts
<1>6. [i \in 1 .. top |-> Reply(states'[i], log'[i], bodies'[i])]
      = [i \in 1 .. top |-> Reply(states[i], log[i], bodies[i])]
  BY <1>3
<1> HIDE DEF top
<1>7. CASE log' = log
  BY <1>1, <1>5, <1>6, <1>7 DEF Atomic!vars, top
<1>8. CASE \E r \in Requests : log' = Append(log, r)
  BY <1>1, <1>5, <1>6, <1>8 DEF Atomic!Next, Atomic!Submit, top
<1>9. QED BY <1>7, <1>8

-----------------------------------------------------------------------------
(* A replica moves *)

\* The answer a responder sends is the reply recorded for its position.
Due(s) ==
  [exchange |-> s, reply |-> Reply(states[s + 1], log[s + 1], bodies[s + 1])]

\* Behind the first replica a move changes nothing the abstract database knows,
\* unless it is the answer to a request that has taken effect before.
LEMMA MoveBehind ==
  ASSUME LeadFacts, LeadFacts', AnsweredBehind, NEW t \in Replicas,
         next[t] < next[Lead], Responder(next[t]) \in Replicas,
         next' = [next EXCEPT ![t] = next[t] + 1], next \in [Threads -> Nat],
         UNCHANGED <<log, bodies, states>>,
         \/ answers' = answers
         \/ Responder(next[t]) = t /\ answers' = answers \cup {Due(next[t])}
  PROVE  Atomic!Next \/ UNCHANGED Atomic!vars
<1> DEFINE top == next[Lead]
<1> DEFINE s == next[t]
<1>1. \A u \in Replicas : next'[u] = IF u = t THEN s + 1 ELSE next[u]
  BY ThreadFacts
<1>2. (next[Lead])' = top /\ top \in Nat /\ s \in Nat /\ s < top
  BY <1>1 DEF LeadFacts
<1>3. (graphs[Lead])' = graphs[Lead] BY <1>2 DEF LeadFacts
<1>4. CASE answers' = answers
  BY <1>2, <1>3, <1>4 DEF Atomic!vars
<1>5. CASE Responder(s) = t /\ answers' = answers \cup {Due(s)}
  <2>1. s \in 0 .. top - 1 /\ s + 1 \in 1 .. top BY <1>2
  <2>2. \A a \in answers : a.exchange # s
    BY <1>2, <1>5 DEF AnsweredBehind
  <2> DEFINE replies == [i \in 1 .. top |-> Reply(states[i], log[i], bodies[i])]
  <2>3. Len(replies) = top /\ replies[s + 1] = Due(s).reply
    BY <1>2, <2>1 DEF Due
  <2>4. Due(s) = [exchange |-> s, reply |-> replies[s + 1]] BY <2>3 DEF Due
  <2>5. Atomic!Answer(s)
    BY <1>2, <1>3, <1>5, <2>2, <2>4 DEF Atomic!Answer
  <2>6. s \in 0 .. Len(replies) - 1 BY <2>1, <2>3
  <2> HIDE DEF s
  <2>7. QED BY <2>5, <2>6 DEF Atomic!Next
<1>6. QED BY <1>4, <1>5

\* The move of a replica no other is ahead of executes the next request.
LEMMA MoveFirst ==
  ASSUME LeadFacts, LeadFacts', BodiesTaken, StatesFollow, NEW t \in Replicas,
         next[t] = next[Lead], next[t] < next[Persister],
         next' = [next EXCEPT ![t] = next[t] + 1], next \in [Threads -> Nat],
         UNCHANGED <<log, bodies, states>>,
         answers' = answers \/ answers' = answers \cup {Due(next[t])}
  PROVE  Atomic!Next
<1> DEFINE s == next[t]
<1> DEFINE replies == [i \in 1 .. s |-> Reply(states[i], log[i], bodies[i])]
<1> DEFINE after   == [i \in 1 .. s + 1 |-> Reply(states[i], log[i], bodies[i])]
<1> DEFINE b == bodies[s + 1]
<1> DEFINE request == log[s + 1]
<1> DEFINE reply == Reply(states[s + 1], request, b)
<1>1. \A u \in Replicas : next'[u] = IF u = t THEN s + 1 ELSE next[u]
  BY ThreadFacts
<1>2. s \in Nat /\ next[Lead] = s /\ (next[Lead])' = s + 1
  BY <1>1 DEF LeadFacts
<1>3. s \in 0 .. next[Persister] - 1 /\ s < Len(log)
  BY <1>2 DEF LeadFacts
<1>4. b \in Atomic!Taken(request) BY <1>3 DEF BodiesTaken
<1>5. graphs[Lead] = states[s + 1] /\ (graphs[Lead])' = states[s + 2]
  <2>1. (s + 1) + 1 = s + 2 BY <1>2
  <2>2. QED BY <1>2, <2>1 DEF LeadFacts
<1>6. states[s + 2] = IF request \in Writes THEN Apply(states[s + 1], request, b)
                      ELSE states[s + 1]
  BY <1>3 DEF StatesFollow
<1>7. Len(replies) = s /\ after = Append(replies, reply)
  <2>1. Len(replies) = s BY <1>2
  <2>2. DOMAIN Append(replies, reply) = 1 .. s + 1 BY <1>2
  <2>3. ASSUME NEW i \in 1 .. s + 1 PROVE after[i] = Append(replies, reply)[i]
    BY <1>2
  <2>4. QED BY <1>2, <2>1, <2>2, <2>3
<1>8. Due(s) = [exchange |-> s, reply |-> reply] BY DEF Due
<1> HIDE DEF s, b, request, reply
<1>9. Atomic!Execute
  BY <1>2, <1>3, <1>4, <1>5, <1>6, <1>7, <1>8 DEF Atomic!Execute, s, b, request, reply
<1>10. QED BY <1>9 DEF Atomic!Next

-----------------------------------------------------------------------------
(* Every step of the server *)

\* What the responder answers is what is due at its position.
LEMMA RespondDue ==
  ASSUME IInv, NEW t \in Replicas, Respond(t)
  PROVE  Responder(next[t]) = t /\ answers' = answers \cup {Due(next[t])}
<1> DEFINE s == next[t]
<1> DEFINE e == ring[Slot(s)]
<1>1. /\ Handling(t) /\ e.responder = t
      /\ answers' = answers \cup
           {[exchange |-> e.exchange, reply |-> Reply(graphs[t], e.request, SeenBody(e))]}
  BY DEF Respond
<1>2. /\ s < next[Persister] /\ e.request = log[s + 1] /\ Responder(s) = t
      /\ e.request \in Writes => SeenBody(e) = bodies[s + 1]
      /\ e.request \notin Writes => SeenBody(e) = NoEvent
  BY <1>1, HandledRequest DEF IInv, Content, SeenBody
<1>3. /\ s \in Nat /\ next[Persister] \in Nat /\ next[Persister] <= cursor + 1
      /\ cursor \in Int
  BY Behind, Numbers DEF IInv, Shape
<1>4. s \in 0 .. next[Persister] - 1 /\ s \in 0 .. cursor BY <1>2, <1>3
<1>5. e.exchange = s BY <1>2, <1>3, <1>4 DEF IInv, Content, ExchangeKept
<1>6. SeenBody(e) = bodies[s + 1] BY <1>2, <1>4 DEF IInv, Meaning, ReadsHaveNoBody
<1>7. graphs[t] = states[s + 1] BY DEF IInv, Meaning, ReplicasInOrder
<1>8. QED BY <1>1, <1>2, <1>5, <1>6, <1>7 DEF Due

\* What a replica that handles an event does to the histories, its position and
\* the answers.
LEMMA MoveEffect ==
  ASSUME IInv, NEW t \in Replicas, Skip(t) \/ Replicate(t) \/ Respond(t)
  PROVE  /\ next[t] \in Nat /\ next[t] < next[Persister] /\ Responder(next[t]) \in Replicas
         /\ next' = [next EXCEPT ![t] = next[t] + 1] /\ next \in [Threads -> Nat]
         /\ UNCHANGED <<log, bodies, states>>
         /\ \/ answers' = answers
            \/ Responder(next[t]) = t /\ answers' = answers \cup {Due(next[t])}
<1>1. Handling(t) /\ Advance(t) /\ UNCHANGED <<log, bodies, states>>
  BY DEF Skip, Replicate, Respond, historyVars
<1>2. next[t] \in Nat /\ next[t] < next[Persister]
  BY <1>1, HandlingFacts, ThreadFacts DEF IInv
<1>3. next \in [Threads -> Nat] BY DEF IInv, Shape, TypeOK
<1>4. CASE Skip(t) \/ Replicate(t)
  <2>1. answers' = answers BY <1>4 DEF Skip, Replicate
  <2>2. QED BY <1>1, <1>2, <1>3, <2>1, ThreadFacts DEF Advance
<1>5. CASE Respond(t)
  BY <1>1, <1>2, <1>3, <1>5, RespondDue, ThreadFacts DEF Advance
<1>6. QED BY <1>4, <1>5

\* What the persistence thread records of the next request.
LEMMA PersistRecords ==
  ASSUME IInv, Persist
  PROVE  LET s == next[Persister] IN
         /\ \E b \in Atomic!Taken(log[s + 1]) : bodies' = Append(bodies, b)
         /\ \E d : states' = Append(states, d)
         /\ next' = [next EXCEPT ![Persister] = s + 1]
         /\ UNCHANGED <<log, answers>>
<1> DEFINE s == next[Persister]
<1> DEFINE e == ring[Slot(s)]
<1>1. e.request = log[s + 1]
  <2>1. Handling(Persister) BY DEF Persist
  <2>2. s \in Nat /\ s <= cursor /\ cursor \in Nat BY <2>1, HandlingFacts, ThreadFacts DEF IInv
  <2>3. PICK t \in Replicas : TRUE BY ThreadFacts, <2>2
  <2>4. done[t] < s /\ done[t] \in Int BY Behind, Numbers DEF IInv, Shape
  <2>5. s \in done[t] + 1 .. cursor BY <2>2, <2>4
  <2>6. QED BY <2>5 DEF IInv, Content, SlotsKept
<1>2. UNCHANGED <<log, answers>> /\ Advance(Persister) BY DEF Persist
<1>3. CASE e.request \in Writes
  <2>1. PICK b \in {BodyOf(e.request), Cut(BodyOf(e.request))} :
             /\ bodies' = Append(bodies, b)
             /\ states' = Append(states, Apply(states[s + 1], log[s + 1], b))
    BY <1>3 DEF Persist
  <2>2. QED BY <1>1, <1>2, <1>3, <2>1 DEF Atomic!Taken, Advance
<1>4. CASE e.request \notin Writes
  <2>1. bodies' = Append(bodies, NoEvent) /\ states' = Append(states, states[s + 1])
    BY <1>4 DEF Persist
  <2>2. QED BY <1>1, <1>2, <1>4, <2>1 DEF Atomic!Taken, Advance
<1>5. QED BY <1>3, <1>4

\* A step that neither persists nor moves a replica leaves the positions, the
\* answers and what is recorded alone; only Publish extends the log.
LEMMA OtherSteps ==
  ASSUME IInv, [Next]_vars
  PROVE  \/ Persist
         \/ \E t \in Replicas : Skip(t) \/ Replicate(t) \/ Respond(t)
         \/ /\ UNCHANGED <<next, answers, bodies, states>>
            /\ log' = log \/ \E r \in Requests : log' = Append(log, r)
<1>1. CASE UNCHANGED vars BY <1>1 DEF vars
<1>2. CASE \E r \in Requests : Claim(r) BY <1>2 DEF Claim, historyVars
<1>3. CASE Fill BY <1>3 DEF Fill, historyVars
<1>4. CASE Publish
  <2>1. pending \in Requests BY <1>4 DEF Publish, IInv, Shape, Claimed
  <2>2. QED BY <1>4, <2>1 DEF Publish
<1>5. ASSUME NEW t \in Threads, Batch(t)
      PROVE  UNCHANGED <<next, answers, bodies, states, log>>
  BY <1>5 DEF Batch, BeginBatch, EndBatch, historyVars
<1>6. ASSUME NEW t \in Replicas, Die(t)
      PROVE  UNCHANGED <<next, answers, bodies, states, log>>
  BY <1>6 DEF Die, historyVars
<1>7. QED
  BY <1>1, <1>2, <1>3, <1>4, <1>5, <1>6, ThreadFacts
  DEF Next, IOStep, PersistStep, ReplicaStep

\* Persisting extends the histories and moves no replica.
LEMMA PersistStill ==
  ASSUME IInv, Persist
  PROVE  /\ \A u \in Replicas : next'[u] = next[u]
         /\ states'[1] = states[1] /\ Recorded
         /\ answers' = answers /\ log' = log
<1> DEFINE s == next[Persister]
<1>1. /\ Len(bodies) = s /\ Len(states) = s + 1 /\ s \in Nat
      /\ bodies \in Seq(Bodies \cup {NoEvent}) /\ states \in Seq(Databases)
      /\ next \in [Threads -> Nat]
  BY ThreadFacts DEF IInv, Shape, Positions, TypeOK
<1>2. PICK b, d : bodies' = Append(bodies, b) /\ states' = Append(states, d)
  BY PersistRecords
<1>3. next' = [next EXCEPT ![Persister] = s + 1] /\ UNCHANGED <<log, answers>>
  BY PersistRecords
<1>4. \A i \in 1 .. s : bodies'[i] = bodies[i] BY <1>1, <1>2
<1>5. \A i \in 1 .. s + 1 : states'[i] = states[i] BY <1>1, <1>2
<1>6. \A i \in 1 .. s : i \in 1 .. s + 1 /\ i + 1 \in 1 .. s + 1 BY <1>1
<1>7. Recorded BY <1>4, <1>5, <1>6 DEF Recorded
<1>8. states'[1] = states[1] BY <1>1, <1>5
<1>9. \A u \in Replicas : next'[u] = next[u] BY <1>1, <1>3, ThreadFacts
<1>10. QED BY <1>3, <1>7, <1>8, <1>9

LEMMA NextBodiesTaken ==
  ASSUME RInv, IInv', [Next]_vars
  PROVE  BodiesTaken'
<1> DEFINE s == next[Persister]
<1>1. /\ Len(bodies) = s /\ s \in Nat /\ bodies \in Seq(Bodies \cup {NoEvent})
      /\ Len(log) = cursor + 1 /\ s <= cursor + 1 /\ cursor \in Int /\ log \in Seq(Requests)
      /\ next \in [Threads -> Nat]
  BY ThreadFacts, Behind, Numbers DEF RInv, IInv, Shape, Positions, TypeOK
<1>2. CASE Persist
  <2>1. PICK b \in Atomic!Taken(log[s + 1]) : bodies' = Append(bodies, b)
    BY <1>2, PersistRecords DEF RInv
  <2>2. next'[Persister] = s + 1 /\ log' = log
    BY <1>1, <1>2, PersistRecords, ThreadFacts DEF RInv
  <2>3. SUFFICES ASSUME NEW i \in 0 .. s PROVE bodies'[i + 1] \in Atomic!Taken(log[i + 1])
    <3>1. next'[Persister] - 1 = s BY <1>1, <2>2
    <3>2. QED BY <2>2, <3>1 DEF BodiesTaken, Atomic!Taken
  <2>4. CASE i = s BY <1>1, <2>1, <2>4
  <2>5. CASE i # s
    <3>1. i \in 0 .. s - 1 BY <1>1, <2>5
    <3>2. bodies'[i + 1] = bodies[i + 1] BY <1>1, <2>1, <3>1
    <3>3. QED BY <3>1, <3>2 DEF RInv, BodiesTaken
  <2>6. QED BY <2>4, <2>5
<1>3. CASE UNCHANGED <<bodies, log>> /\ next'[Persister] = s
  BY <1>3 DEF RInv, BodiesTaken, Atomic!Taken
<1>4. CASE \E t \in Replicas : Skip(t) \/ Replicate(t) \/ Respond(t)
  <2>1. PICK t \in Replicas : Skip(t) \/ Replicate(t) \/ Respond(t) BY <1>4
  <2>2. next'[Persister] = s
    BY <1>1, <2>1, MoveEffect, ThreadFacts DEF RInv
  <2>3. QED BY <1>3, <2>1, <2>2, MoveEffect DEF RInv
<1>5. CASE /\ UNCHANGED <<next, answers, bodies, states>>
           /\ log' = log \/ \E r \in Requests : log' = Append(log, r)
  <2>1. SUFFICES ASSUME NEW i \in 0 .. s - 1
                 PROVE  bodies[i + 1] \in Atomic!Taken(log'[i + 1])
    BY <1>5 DEF BodiesTaken, Atomic!Taken
  <2>2. i + 1 \in 1 .. Len(log) BY <1>1
  <2>3. log'[i + 1] = log[i + 1] BY <1>1, <1>5, <2>2
  <2>4. bodies[i + 1] \in Atomic!Taken(log[i + 1]) BY DEF RInv, BodiesTaken
  <2>5. QED BY <2>3, <2>4
<1>6. QED BY <1>2, <1>4, <1>5, OtherSteps DEF RInv

LEMMA NextAnsweredBehind ==
  ASSUME RInv, [Next]_vars
  PROVE  AnsweredBehind'
<1>1. next \in [Threads -> Nat] BY DEF RInv, IInv, Shape, TypeOK
<1>2. \A a \in answers : /\ a.exchange \in Nat /\ a.exchange < next[Responder(a.exchange)]
                         /\ Responder(a.exchange) \in Replicas
  BY ThreadFacts DEF RInv, AnsweredBehind
<1>3. CASE Persist
  BY <1>2, <1>3, PersistStill DEF RInv, AnsweredBehind, Responder
<1>4. CASE \E t \in Replicas : Skip(t) \/ Replicate(t) \/ Respond(t)
  <2>1. PICK t \in Replicas : Skip(t) \/ Replicate(t) \/ Respond(t) BY <1>4
  <2> DEFINE s == next[t]
  <2>2. /\ s \in Nat /\ next' = [next EXCEPT ![t] = s + 1]
        /\ \/ answers' = answers
           \/ Responder(s) = t /\ answers' = answers \cup {Due(s)}
    BY <2>1, MoveEffect DEF RInv
  <2>3. \A u \in Replicas : next'[u] = IF u = t THEN s + 1 ELSE next[u]
    BY <1>1, <2>2, ThreadFacts
  <2>4. ASSUME NEW a \in answers
        PROVE  a.exchange \in Nat /\ a.exchange < next'[Responder(a.exchange)]
    <3>1. next[Responder(a.exchange)] \in Nat BY <1>1, <1>2, ThreadFacts
    <3>2. QED BY <1>2, <2>2, <2>3, <3>1
  <2>5. CASE answers' = answers BY <2>4, <2>5 DEF AnsweredBehind, Responder
  <2>6. CASE Responder(s) = t /\ answers' = answers \cup {Due(s)}
    <3>1. Due(s).exchange = s BY DEF Due
    <3>2. next'[t] = s + 1 BY <2>3
    <3> HIDE DEF s
    <3>3. QED BY <2>2, <2>4, <2>6, <3>1, <3>2 DEF AnsweredBehind, Responder
  <2>7. QED BY <2>2, <2>5, <2>6
<1>5. CASE UNCHANGED <<next, answers>>
  BY <1>5 DEF RInv, AnsweredBehind, Responder
<1>6. QED BY <1>3, <1>4, <1>5, OtherSteps DEF RInv

LEMMA NextRefines ==
  ASSUME RInv, IInv', [Next]_vars
  PROVE  Atomic!Next \/ UNCHANGED Atomic!vars
<1>1. LeadFacts /\ LeadFacts' BY LeadState, LeadAfter DEF RInv
<1>2. log \in Seq(Requests) BY DEF RInv, IInv, Shape, TypeOK
<1>3. CASE Persist
  BY <1>1, <1>2, <1>3, PersistStill, StillReplicas DEF RInv
<1>4. CASE \E t \in Replicas : Skip(t) \/ Replicate(t) \/ Respond(t)
  <2>1. PICK t \in Replicas : Skip(t) \/ Replicate(t) \/ Respond(t) BY <1>4
  <2>2. next[t] <= next[Lead] /\ next[t] \in Nat /\ next[Lead] \in Nat
    BY <1>1 DEF LeadFacts
  <2>3. CASE next[t] < next[Lead]
    BY <1>1, <2>1, <2>3, MoveEffect, MoveBehind DEF RInv
  <2>4. CASE next[t] = next[Lead]
    BY <1>1, <2>1, <2>4, MoveEffect, MoveFirst DEF RInv, IInv, Meaning
  <2>5. QED BY <2>2, <2>3, <2>4
<1>5. CASE /\ UNCHANGED <<next, answers, bodies, states>>
           /\ log' = log \/ \E r \in Requests : log' = Append(log, r)
  BY <1>1, <1>2, <1>5, StillReplicas DEF Recorded
<1>6. QED BY <1>3, <1>4, <1>5, OtherSteps DEF RInv

LEMMA InitRefines == Init => Atomic!Init
<1>1. SUFFICES ASSUME Init PROVE Atomic!Init OBVIOUS
<1>2. LeadFacts BY <1>1, InitRInv, LeadState DEF RInv
<1>3. next[Lead] = 0 BY <1>1, <1>2, ThreadFacts DEF Init, LeadFacts
<1>4. graphs[Lead] = InitDb BY <1>1, <1>2 DEF Init, LeadFacts
<1>5. [i \in 1 .. next[Lead] |-> Reply(states[i], log[i], bodies[i])] = <<>>
  BY <1>3
<1>6. QED BY <1>1, <1>4, <1>5 DEF Init, Atomic!Init

-----------------------------------------------------------------------------
(* The theorem *)

\* The ring, its threads and the replicas are one database that executes the
\* requests one at a time in the order they were published, and answers each at
\* most once with the reply of that moment, whichever replica answers and
\* wherever the others are.
THEOREM ServerIsAtomic == Spec => ImplementsAtomic
<1>1. Init => RInv /\ Atomic!Init BY InitRInv, InitRefines
<1>2. RInv /\ IInv' /\ [Next]_vars => RInv'
  BY NextBodiesTaken, NextAnsweredBehind DEF RInv
<1>3. RInv /\ IInv' /\ [Next]_vars => [Atomic!Next]_(Atomic!vars)
  BY NextRefines
<1>4. Spec => []IInv BY Inductive
<1>5. QED BY <1>1, <1>2, <1>3, <1>4, PTL DEF Spec, ImplementsAtomic, Atomic!Spec
=============================================================================

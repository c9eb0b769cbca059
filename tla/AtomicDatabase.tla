---------------------------- MODULE AtomicDatabase ----------------------------
(***************************************************************************)
(* What the server promises its clients, without a ring, replicas or        *)
(* threads: one graph, on which the requests take effect one at a time in   *)
(* the order they were submitted, and whose replies are sent back in any    *)
(* order, each at most once.  A request may stay unanswered.                *)
(***************************************************************************)
EXTENDS Integers, Sequences

CONSTANTS Requests, Writes, InitDb, NoEvent,
          BodyOf(_), Cut(_), Apply(_, _, _), Reply(_, _, _)

VARIABLES
  log,      \* the requests in the order they were submitted
  db,       \* the graph after the requests that have taken effect
  replies,  \* their replies, in the order of the log
  answers   \* the replies sent, with the request they answer

vars == <<log, db, replies, answers>>

Init ==
  /\ log = <<>>
  /\ db = InitDb
  /\ replies = <<>>
  /\ answers = {}

Submit(r) ==
  /\ log' = Append(log, r)
  /\ UNCHANGED <<db, replies, answers>>

\* The body of a write may be cut short before the write takes effect.
Taken(r) == IF r \in Writes THEN {BodyOf(r), Cut(BodyOf(r))} ELSE {NoEvent}

\* The next request takes effect; its reply may be sent at once.
Execute ==
  LET s == Len(replies)
      request == log[s + 1]
  IN
  /\ s < Len(log)
  /\ \E b \in Taken(request) :
       LET reply == Reply(db, request, b) IN
         /\ replies' = Append(replies, reply)
         /\ db' = IF request \in Writes THEN Apply(db, request, b) ELSE db
         /\ answers' \in {answers, answers \cup {[exchange |-> s, reply |-> reply]}}
  /\ UNCHANGED log

Answer(s) ==
  /\ \A a \in answers : a.exchange # s
  /\ answers' = answers \cup {[exchange |-> s, reply |-> replies[s + 1]]}
  /\ UNCHANGED <<log, db, replies>>

Next ==
  \/ \E r \in Requests : Submit(r)
  \/ Execute
  \/ \E s \in 0 .. Len(replies) - 1 : Answer(s)

Spec == Init /\ [][Next]_vars
=============================================================================

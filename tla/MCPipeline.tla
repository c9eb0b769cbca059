------------------------------ MODULE MCPipeline ------------------------------
(* Small instances of Pipeline.  A graph is the list of the writes it has     *)
(* applied, so that any lost, doubled or reordered write shows.               *)
EXTENDS Pipeline

CONSTANTS w, r, bad  \* a write, a read, and a read whose handler throws

MCBodies    == {"whole", "cut"}
MCBodyOf(q) == "whole"
MCCut(b)    == "cut"

\* The bodies applied, in order; a body the replica was not given is NoEvent.
MCDatabases == UNION {[1 .. n -> MCBodies \cup {NoEvent}] : n \in 0 .. MaxSequence}
MCInitDb == <<>>
MCApply(d, q, b)  == IF Len(d) < MaxSequence THEN Append(d, b) ELSE d
MCReplies         == MCDatabases
MCReply(d, q, b)  == IF q \in Writes THEN MCApply(d, q, b) ELSE d
NeverThrows(d, q, b, answering) == FALSE

\* A handler that throws once the graph holds a write, as getRelationship does
\* for a type without relationships between existing nodes.
MCThrows(d, q, b, answering) == q = bad /\ d # <<>>

\* A write that throws in every replica when its body was cut short.
WriteThrows(d, q, b, answering) ==
  \/ q = bad /\ d # <<>>
  \/ q = w /\ b = "cut" /\ d # <<>>
=============================================================================

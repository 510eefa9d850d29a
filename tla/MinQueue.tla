----------------------------- MODULE MinQueue ------------------------------
(***************************************************************************)
(* What a PQueue promises (spec 4.3): a bounded set of batch descriptors;  *)
(* enqueue fails when full, dequeue returns one of least priority value    *)
(* (earliest deadline).  last is the descriptor the latest dequeue gave.   *)
(* A RAM-backed queue (volatile) is lost as a whole when its process       *)
(* restarts (spec 4.3 backend variants); an mmap-backed one is durable.   *)
(***************************************************************************)
EXTENDS Integers, FiniteSets

CONSTANTS Batches, Prio, Capacity, None

VARIABLES queue, last, volatile

Enqueue(b) ==
  /\ b \notin queue /\ Cardinality(queue) < Capacity
  /\ queue' = queue \cup {b}
  /\ UNCHANGED last

Dequeue(b) ==
  /\ b \in queue /\ \A c \in queue : Prio[b] <= Prio[c]
  /\ queue' = queue \ {b} /\ last' = b

Restart ==
  /\ volatile /\ queue' = {}
  /\ UNCHANGED last

Init == queue = {} /\ last = None

Next == (\E b \in Batches : Enqueue(b) \/ Dequeue(b)) \/ Restart

Spec == Init /\ [][Next /\ UNCHANGED volatile]_<<queue, last, volatile>>
=============================================================================

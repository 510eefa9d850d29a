------------------------------- MODULE PQueue -------------------------------
(***************************************************************************)
(* The array min-heap of src/src/priority_queue on both backends, chosen   *)
(* once by STORAGE_MODE.  On the mmap backend the heap lives in a          *)
(* MAP_SHARED file, so every store survives a kill of the process and the  *)
(* mutex is re-initialised on restart; on the mem backend it is heap       *)
(* memory and a restart starts from an empty queue.  Each swap() is its two stores into the      *)
(* array ( *a = *b, then *b = temp ), with temp held in tmp between them; a  *)
(* descriptor is copied whole.                                             *)
(***************************************************************************)
EXTENDS Integers, FiniteSets

CONSTANTS
  Batches,       \* batch descriptors (identity only)
  Prio,          \* [Batches -> Nat]: ImageBatch.priority
  MaxQueueSize,  \* MAX_QUEUE_SIZE
  None,          \* no descriptor
  CrashMidOp     \* whether a kill may land inside enqueue or dequeue

VARIABLES
  backend, \* "mmap" | "mem": the PriorityQueueImpl in use
  items,   \* PriorityQueue.items, indexed from 0
  size,    \* PriorityQueue.size
  op,      \* "idle" | "up" | "down" | "move": position in enqueue/dequeue
  idx,     \* index argument of the running heapifyUp/heapifyDown
  tmp,     \* temp of a swap between its two stores, else None
  swapTo,  \* where temp is to be stored
  res      \* descriptor returned by the latest dequeue

vars == <<backend, items, size, op, idx, tmp, swapTo, res>>

Index == 0..MaxQueueSize - 1
Parent(i) == (i - 1) \div 2

TypeOK ==
  /\ backend \in {"mmap", "mem"}
  /\ items \in [Index -> Batches \cup {None}] /\ size \in 0..MaxQueueSize
  /\ op \in {"idle", "up", "down", "move"} /\ idx \in Index /\ swapTo \in Index
  /\ tmp \in Batches \cup {None} /\ res \in Batches \cup {None}

(* A queue file that did not exist, or a fresh allocation: zeroed, size 0. *)
Init ==
  /\ backend \in {"mmap", "mem"}
  /\ items = [i \in Index |-> None] /\ size = 0
  /\ op = "idle" /\ idx = 0 /\ tmp = None /\ swapTo = 0 /\ res = None

\* The descriptors the queue holds, counting temp during a swap and, while
\* dequeue has decremented size but not yet moved the last item, that item
\* in place of the one returned.
Contents ==
  IF op = "move"
  THEN {items[i] : i \in 1..size - 1} \cup (IF size > 0 THEN {items[size]} ELSE {})
  ELSE {items[i] : i \in 0..size - 1} \cup (IF tmp # None THEN {tmp} ELSE {})

(* swap(&items[a], &items[b]), first store: temp = *a; *a = *b. *)
SwapBegin(a, b) ==
  /\ tmp' = items[a] /\ swapTo' = b
  /\ items' = [items EXCEPT ![a] = items[b]]

\* Fault variant: enqueue does not check for a full queue.
EnqueueMmapNoFull(b) ==
  /\ backend = "mmap"
  /\ op = "idle" /\ b \notin Contents /\ size < MaxQueueSize + 1
  /\ items' = [i \in Index |-> IF i = size THEN b ELSE items[i]]
  /\ size' = size + 1
  /\ op' = "up" /\ idx' = size
  /\ UNCHANGED <<backend, tmp, swapTo, res>>

(* enqueue_mmap: full check, items[size++] = item, then heapifyUp(size-1). *)
(* The descriptors offered are those not already queued.                   *)
EnqueueMmap(b) ==
  /\ backend = "mmap"
  /\ op = "idle" /\ b \notin Contents /\ size < MaxQueueSize
  /\ items' = [items EXCEPT ![size] = b]
  /\ size' = size + 1
  /\ op' = "up" /\ idx' = size
  /\ UNCHANGED <<backend, tmp, swapTo, res>>

(* enqueue_mem: the same stores as enqueue_mmap, without the msync. *)
EnqueueMem(b) ==
  /\ backend = "mem"
  /\ op = "idle" /\ b \notin Contents /\ size < MaxQueueSize
  /\ items' = [items EXCEPT ![size] = b]
  /\ size' = size + 1
  /\ op' = "up" /\ idx' = size
  /\ UNCHANGED <<backend, tmp, swapTo, res>>

(* heapifyUp(index): swap with the parent while it has a larger priority. *)
HeapifyUp ==
  /\ op = "up" /\ tmp = None
  /\ IF idx > 0 /\ Prio[items[Parent(idx)]] > Prio[items[idx]]
     THEN SwapBegin(Parent(idx), idx) /\ idx' = Parent(idx) /\ op' = "up"
     ELSE op' = "idle" /\ UNCHANGED <<items, idx, tmp, swapTo>>
  /\ UNCHANGED <<backend, size, res>>

(* dequeue_mmap on a non-empty queue: *res = items[0], then --size. *)
DequeueMmap ==
  /\ backend = "mmap"
  /\ op = "idle" /\ size > 0
  /\ res' = items[0] /\ size' = size - 1 /\ op' = "move"
  /\ UNCHANGED <<backend, items, idx, tmp, swapTo>>

(* dequeue_mem: the same as dequeue_mmap, without the msync. *)
DequeueMem ==
  /\ backend = "mem"
  /\ op = "idle" /\ size > 0
  /\ res' = items[0] /\ size' = size - 1 /\ op' = "move"
  /\ UNCHANGED <<backend, items, idx, tmp, swapTo>>

(* dequeue_mmap continued: items[0] = items[size], then heapifyDown(0). *)
MoveLast ==
  /\ op = "move"
  /\ items' = [items EXCEPT ![0] = items[size]]
  /\ op' = "down" /\ idx' = 0
  /\ UNCHANGED <<backend, size, tmp, swapTo, res>>

\* The child of idx the heap order wants at idx (idx itself if none).
\* Fault variant: the right child is not compared.
SmallestNoRight(i) ==
  IF 2 * i + 1 < size /\ Prio[items[2 * i + 1]] < Prio[items[i]] THEN 2 * i + 1 ELSE i

Smallest(i) ==
  LET l == 2 * i + 1
      r == 2 * i + 2
      s == IF l < size /\ Prio[items[l]] < Prio[items[i]] THEN l ELSE i
  IN  IF r < size /\ Prio[items[r]] < Prio[items[s]] THEN r ELSE s

(* heapifyDown(index): swap with the smallest child while it is smaller. *)
HeapifyDown ==
  /\ op = "down" /\ tmp = None
  /\ IF Smallest(idx) # idx
     THEN SwapBegin(idx, Smallest(idx)) /\ idx' = Smallest(idx) /\ op' = "down"
     ELSE op' = "idle" /\ UNCHANGED <<items, idx, tmp, swapTo>>
  /\ UNCHANGED <<backend, size, res>>

(* swap, second store: *b = temp. *)
SwapEnd ==
  /\ tmp # None
  /\ items' = [items EXCEPT ![swapTo] = tmp] /\ tmp' = None
  /\ UNCHANGED <<backend, size, op, idx, swapTo, res>>

(* The process is killed and restarted: the mapped file keeps items and   *)
(* size, temp and the call in progress are gone, init_pq_mmap re-inits    *)
(* the mutex.  On the mem backend init_pq_mem mallocs a new queue and      *)
(* zeroes it.                                                              *)
CrashRestart ==
  /\ CrashMidOp \/ op = "idle"
  /\ op' = "idle" /\ tmp' = None /\ idx' = 0 /\ swapTo' = 0
  /\ IF backend = "mmap"
       THEN UNCHANGED <<items, size>>
       ELSE items' = [i \in Index |-> None] /\ size' = 0
  /\ UNCHANGED <<backend, res>>

Next ==
  \/ \E b \in Batches : EnqueueMmap(b) \/ EnqueueMem(b)
  \/ HeapifyUp \/ DequeueMmap \/ DequeueMem \/ MoveLast \/ HeapifyDown \/ SwapEnd
  \/ CrashRestart

Spec == Init /\ [][Next]_vars

Abstract == INSTANCE MinQueue WITH Capacity <- MaxQueueSize, queue <- Contents, last <- res,
                                   volatile <- (backend = "mem")

\* Every enqueue and dequeue, with all the swaps of its heapify, is one step
\* of a bounded min-priority queue: no descriptor is lost or duplicated and
\* dequeue always returns one with the earliest deadline.  Only the mem
\* backend may lose the queue, and only all of it, at a restart.
PQueueRefinesMinQueue == Abstract!Spec
=============================================================================

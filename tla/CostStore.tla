------------------------------ MODULE CostStore -----------------------------
(***************************************************************************)
(* The cost store of src/src/cost_store: MAX_ENTRIES slots searched        *)
(* linearly, LRU by a per-process global_time, on the backend STORAGE_MODE *)
(* selects.  On the mmap backend MAP_SHARED stores reach the page cache at *)
(* once, so a killed process leaves every store it made; the msync calls   *)
(* only matter for a power loss, which is not modelled.  On the mem        *)
(* backend a restart starts from a zeroed calloc.  An                      *)
(* insert is the sequence of field stores the C code makes, staged in      *)
(* pending, so that a kill can land between two of them.                   *)
(***************************************************************************)
EXTENDS Integers, Sequences, SequencesExt, FiniteSets

CONSTANTS
  Hashes,      \* fingerprints
  NoHash,      \* the hash field of a zeroed slot
  Lats, Engs,  \* measured latencies and energy costs (nonzero)
  MaxEntries,  \* MAX_ENTRIES
  MaxClock,    \* bound on global_time
  CrashMidOp   \* whether a kill may land between two stores of an insert

VARIABLES
  backend,     \* "mmap" | "mem": the CostStoreImpl in use
  items,       \* CostStore.items
  globalTime,  \* global_time
  pending,     \* field stores of the insert in progress, in program order
  snapshot     \* items when that insert began

vars == <<backend, items, globalTime, pending, snapshot>>

Slots == 1..MaxEntries
Entry == [hash : Hashes \cup {NoHash}, lat : Lats \cup {0}, eng : Engs \cup {0},
          ts : 0..MaxClock, valid : BOOLEAN]
ZeroEntry == [hash |-> NoHash, lat |-> 0, eng |-> 0, ts |-> 0, valid |-> FALSE]
Store(i, f, v) == [slot |-> i, field |-> f, value |-> v]

TypeOK ==
  /\ backend \in {"mmap", "mem"}
  /\ items \in [Slots -> Entry] /\ snapshot \in [Slots -> Entry]
  /\ globalTime \in 0..MaxClock
  /\ \A k \in DOMAIN pending :
       /\ pending[k].slot \in Slots /\ pending[k].field \in DOMAIN ZeroEntry
       /\ [ZeroEntry EXCEPT ![pending[k].field] = pending[k].value] \in Entry

\* First index whose entry satisfies P, or 0 (the C code's -1).
First(P(_)) == IF \E i \in Slots : P(i) THEN CHOOSE i \in Slots : P(i) /\ \A j \in 1..i-1 : ~P(j)
                                        ELSE 0

\* find_entry
FindEntry(h) == First(LAMBDA i : items[i].valid /\ items[i].hash = h)

FindLruIndex == First(LAMBDA i : items[i].valid /\ \A j \in Slots :
                                   items[j].valid => items[i].ts <= items[j].ts)

\* The largest timestamp of a valid entry (0 if none).
MaxValidTs(it) == LET T == {it[i].ts : i \in {k \in Slots : it[k].valid}}
                  IN  IF T = {} THEN 0 ELSE CHOOSE t \in T : \A u \in T : u <= t

(* cost_store_init_mmap on a file that does not exist, or                 *)
(* cost_store_init_mem: zeroed contents.                                   *)
Init ==
  /\ backend \in {"mmap", "mem"}
  /\ items = [i \in Slots |-> ZeroEntry] /\ snapshot = items
  /\ globalTime = 0 /\ pending = <<>>

(* cache_lookup on a hit: timestamp := ++global_time.  A miss changes nothing. *)
CacheLookup(h) ==
  /\ pending = <<>> /\ globalTime < MaxClock
  /\ FindEntry(h) # 0
  /\ globalTime' = globalTime + 1
  /\ items' = [items EXCEPT ![FindEntry(h)].ts = globalTime + 1]
  /\ UNCHANGED <<backend, pending, snapshot>>

\* Fault variant: the existing entry is not searched for first.
InsertStoresNoFind(h, lat, eng) ==
  LET g == globalTime + 1
      free == First(LAMBDA i : ~items[i].valid)
      slot == IF free # 0 THEN free ELSE FindLruIndex
  IN  <<Store(slot, "hash", h), Store(slot, "lat", lat), Store(slot, "eng", eng),
        Store(slot, "valid", TRUE), Store(slot, "ts", g)>>

(* The stores of an insert, in the order the code makes them, after        *)
(* global_time++: update the entry for h, else fill the first invalid      *)
(* slot, else overwrite the LRU slot.                                      *)
InsertStores(h, lat, eng) ==
  LET g == globalTime + 1
      idx == FindEntry(h)
      free == First(LAMBDA i : ~items[i].valid)
      slot == IF free # 0 THEN free ELSE FindLruIndex
  IN  IF idx # 0
      THEN <<Store(idx, "lat", lat), Store(idx, "eng", eng), Store(idx, "ts", g)>>
      ELSE <<Store(slot, "hash", h), Store(slot, "lat", lat), Store(slot, "eng", eng),
             Store(slot, "valid", TRUE), Store(slot, "ts", g)>>

(* insert_mmap and insert_mem: the same code; mmap then msyncs. *)
InsertMmap(h, lat, eng) ==
  /\ backend = "mmap" /\ pending = <<>> /\ globalTime < MaxClock
  /\ globalTime' = globalTime + 1
  /\ pending' = InsertStores(h, lat, eng)
  /\ snapshot' = items
  /\ UNCHANGED <<backend, items>>

InsertMem(h, lat, eng) ==
  /\ backend = "mem" /\ pending = <<>> /\ globalTime < MaxClock
  /\ globalTime' = globalTime + 1
  /\ pending' = InsertStores(h, lat, eng)
  /\ snapshot' = items
  /\ UNCHANGED <<backend, items>>

(* One store of the insert in progress reaches the mapping. *)
StoreField ==
  /\ pending # <<>>
  /\ LET w == Head(pending)
     IN  items' = [items EXCEPT ![w.slot] = [@ EXCEPT ![w.field] = w.value]]
  /\ pending' = Tail(pending)
  /\ UNCHANGED <<backend, globalTime, snapshot>>

\* Fault variant: global_time is not recovered from the file.
CrashRestartNoRecovery ==
  /\ CrashMidOp \/ pending = <<>>
  /\ globalTime' = 0
  /\ pending' = <<>> /\ snapshot' = items
  /\ UNCHANGED <<backend, items>>

(* The process is killed and restarted: the mapping keeps its contents,   *)
(* or cost_store_init_mem callocs a zeroed store; global_time starts at 0  *)
(* and the init raises it to the largest valid timestamp.                  *)
CrashRestart ==
  /\ CrashMidOp \/ pending = <<>>
  /\ items' = IF backend = "mmap" THEN items ELSE [i \in Slots |-> ZeroEntry]
  /\ globalTime' = MaxValidTs(items')
  /\ pending' = <<>> /\ snapshot' = items'
  /\ UNCHANGED backend

Next ==
  \/ \E h \in Hashes : CacheLookup(h)
  \/ \E h \in Hashes, l \in Lats, e \in Engs : InsertMmap(h, l, e) \/ InsertMem(h, l, e)
  \/ StoreField
  \/ CrashRestart

Spec == Init /\ [][Next]_vars

(***************************************************************************)
(* Refinement mapping: while an insert is in progress the abstract cache   *)
(* is the one before it; the cached fingerprints are those of valid slots, *)
(* ordered by timestamp.                                                   *)
(***************************************************************************)
Committed == IF pending = <<>> THEN items ELSE snapshot
ValidSlotsOf(it) == {i \in Slots : it[i].valid}
SlotOf(h) == CHOOSE i \in ValidSlotsOf(Committed) : Committed[i].hash = h
CachedHashes == {Committed[i].hash : i \in ValidSlotsOf(Committed)}

LRU == INSTANCE CostCacheLRU
         WITH Costs <- Lats \X Engs,
              cache <- [h \in CachedHashes |-> <<Committed[SlotOf(h)].lat, Committed[SlotOf(h)].eng>>],
              order <- SetToSortSeq(CachedHashes,
                         LAMBDA a, b : Committed[SlotOf(a)].ts < Committed[SlotOf(b)].ts),
              volatile <- (backend = "mem")

\* Spec 4.2 invariant: for every fingerprint at most one valid entry has
\* that hash, whatever stores of an insert a kill has cut off.
UniqueHash ==
  \A i, j \in Slots : items[i].valid /\ items[j].valid /\ items[i].hash = items[j].hash => i = j

\* The slot array with its timestamps and global_time, recovered after a
\* restart, behaves as an LRU map: every lookup, insert, eviction and
\* restart is a step of CostCacheLRU: a restart keeps the map on the mmap
\* backend and empties it on the mem backend.
CostStoreRefinesLRU == LRU!Spec
=============================================================================

--------------------------- MODULE CostCacheLRU ----------------------------
(***************************************************************************)
(* What the cost cache promises (spec 4.2): a map from fingerprint to      *)
(* (latency, energy) of at most MaxEntries entries, kept in least-recently *)
(* used order; lookup and insert both make the fingerprint the most recent *)
(* one, and an insert of a new fingerprint into a full cache evicts the    *)
(* least recently used one.  The mmap backend keeps the map across a       *)
(* restart, so a restart is a stuttering step; the RAM backend (volatile)  *)
(* starts again empty.                                                     *)
(***************************************************************************)
EXTENDS Integers, Sequences, SequencesExt

CONSTANTS Hashes, Costs, MaxEntries

VARIABLES cache,  \* fingerprint -> cost, for the fingerprints cached
          order,  \* the cached fingerprints, least recently used first
          volatile \* the cache is RAM-backed

\* The map with no fingerprint.
EmptyCache == [h \in {} |-> CHOOSE c \in Costs : TRUE]

Touch(h) == Append(Remove(order, h), h)

Lookup(h) ==
  /\ h \in DOMAIN cache
  /\ order' = Touch(h)
  /\ UNCHANGED cache

Insert(h, c) ==
  \/ /\ h \in DOMAIN cache \/ Len(order) < MaxEntries
     /\ cache' = (h :> c) @@ cache
     /\ order' = Touch(h)
  \/ /\ h \notin DOMAIN cache /\ Len(order) = MaxEntries
     /\ cache' = (h :> c) @@ Restrict(cache, DOMAIN cache \ {Head(order)})
     /\ order' = Append(Tail(order), h)

Forget ==
  /\ volatile
  /\ cache' = EmptyCache /\ order' = <<>>

Init == cache = EmptyCache /\ order = <<>>

Next ==
  \/ \E h \in Hashes : Lookup(h)
  \/ \E h \in Hashes, c \in Costs : Insert(h, c)
  \/ Forget

Spec == Init /\ [][Next /\ UNCHANGED volatile]_<<cache, order, volatile>>
=============================================================================

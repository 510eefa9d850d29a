---------------------------- MODULE MCCostStore ----------------------------
(* The cost store keyed by real fingerprints: murmur3_batch_fingerprint of *)
(* batch shapes seeded with the hashes setup_module_config takes of module *)
(* config buffers.                                                         *)
EXTENDS CostStore, Murmur3, FiniteSets, TLC

\* Module config buffers as the parameter plane delivers them: two that
\* differ in one byte, one of another length, and the empty buffer of a
\* config with every field at its default.
ConfigBuffers == {<<8, 1, 16, 20>>, <<8, 2, 16, 20>>, <<8, 1, 16, 20, 26, 3, 107, 61, 49>>, <<>>}

\* Batch shapes: num_images, batch_size in bytes, pipeline_id.
BatchShapes == [num_images : {1, 4}, batch_size : {3145728, 12582912}, pipeline_id : {1, 2, 3}]

\* module_parameter_lists[i].hash of each config, as setup_module_config
\* stores it.
ImplHashes == {ModuleConfigHash(cb) : cb \in ConfigBuffers}

\* The inputs of a fingerprint: the batch and the implementation's hash.
Keys == BatchShapes \X ImplHashes

FingerprintOf == [fk \in Keys |-> murmur3_batch_fingerprint(fk[1], fk[2])]

\* Three keys that share all but one input: the pipeline, or the config.
Shape(pid) == [num_images |-> 1, batch_size |-> 3145728, pipeline_id |-> pid]
HashA == ModuleConfigHash(<<8, 1, 16, 20>>)
HashB == ModuleConfigHash(<<8, 2, 16, 20>>)
\* The store's fingerprints are held in a definition of their own, which TLC
\* evaluates once; the substitution Hashes <- MCHashes is evaluated at
\* every use.
StoreKeys == {FingerprintOf[<<Shape(1), HashA>>], FingerprintOf[<<Shape(2), HashA>>],
              FingerprintOf[<<Shape(1), HashB>>]}
MCHashes == StoreKeys

\* Fingerprints that two keys of the domain share.
SharedFingerprints ==
  {FingerprintOf[fk] : fk \in {fk \in Keys : \E gk \in Keys \ {fk} : FingerprintOf[gk] = FingerprintOf[fk]}}

\* Every valid cost entry answers the lookups of one key only: the
\* murmur3_batch_fingerprint of a (batch shape, pipeline, module config)
\* that insert_mmap or insert_mem stored is the fingerprint of no other key,
\* so no heuristic reads a cost measured for another batch shape, pipeline
\* or config buffer.  Two modules with byte-identical config buffers share
\* a seed, and hence every key; that is outside this property.
CostEntryHasOneKey ==
  \A i \in Slots : items[i].valid => items[i].hash \notin SharedFingerprints

=============================================================================

# TLA+ models of the SIPP batch-processing core

These modules model the scheduler of `src/src` (the `dipp` process), together with the components it relies on:
- the effort-level heuristics;
- the persistent cost cache;
- the persistent priority queues;
- the battery simulator;
- the module executor (fork, pipes and alarm);
- the configuration cache (`dipp_config.c`);
- the batch storage (`image/image_store.c`);
- the fingerprint hash (`utils/murmur_hash.c`).

Every definition is translated from the C source. `PROJECT.json` maps each definition to the lines it models. `spec.md` is used only for what the code promises, which is the abstract specifications and the findings.

## The system

One process, `process_images_loop` (`dipp_process.c`), runs two threads:

* **The scheduler thread** loops forever. Each iteration:
  - It drains the System V message queue into `ingest_pq`.
  - It dequeues a batch from `partially_processed_pq`, or from `ingest_pq` if that is empty.
  - It calls `setup_cache_if_needed` (configuration, `dipp_config.c`) and `update_heuristic`. `update_heuristic` switches between the best-effort and the lowest-effort heuristic by queue depth.
  - It runs `process()`:
    - `execute_pipeline` (`pipeline/pipeline_executor.c`) runs the remaining modules of the batch's pipeline.
    - For each module, the heuristic picks an effort level from the batch's latency budget, the battery level and the cost cache.
    - The module runs in a forked child (`process/process_module.c`).
    - A first run of an uncached level inserts its cost into the cost store and charges the battery.
  - A complete batch is read, uploaded and cleaned up. An incomplete one goes to the partial queue. A failed one is dropped, and the configuration cache is invalidated.
  - If the partial queue is below `MAX_PARTIAL_QUEUE_SIZE`, the iteration pulls one more batch from ingest.
* **The battery thread** (`simulate_battery`) calls `simulator_step` every 10 ms. The step integrates generation and load over an orbit and writes the `battery_level` parameter. The scheduler reads this parameter and also writes it (`put_load_on_battery`).

`process_images_loop` sets `global_storage_mode` to `STORAGE_MMAP`, and `get_env_vars` switches it to `STORAGE_MEM` when `STORAGE_MODE=MEM`. In MMAP mode, the cost store (`cost_store/`) and the two priority queues (`priority_queue/`) are backed by `MAP_SHARED` files and outlive a kill of the process. In MEM mode they are heap memory. `while (1)` never exits, so every restart is a kill.

Batch data arrives in a System V shared-memory segment made by the producer. In MMAP mode, `image_batch_setup_storage` copies it at drain time to a fresh file under `/usr/share/dipp/data` and removes the segment; `image_batch_read_data` maps the file back when the pipeline completes. In MEM mode, `read_data` attaches the segment.

The configuration tables (`pipelines[]`, `module_parameter_lists[]`) are rebuilt from libparam parameters by `setup_cache_if_needed` whenever `is_setup` is 0. A module failure resets it, and a parameter server may rewrite the parameters at any time.

## Modules

| Module | Models | State | Actions |
|---|---|---|---|
| `Heuristic` | `heuristics/*.c` | none (pure operators) | `LatencyRequirements`, `EnergyRequirement`, `JudgeImplementation`, `GetDefaultImplementation`, `GetBestEffortImplementationConfig`, `GetLowestEffortImplementationConfig`, `Select` |
| `Scheduler` | `dipp_process.c`, `pipeline_executor.c`, module outcomes of `process_module.c`, `is_setup` of `dipp_config.c`, the simulator | inbox, ingest, partial, progress, current batch and module index, `is_setup`, heuristic, cost cache (as a map), battery, clock | `Send` (producer), `GetMessageFromQueue`, `PickBatch`, `ExecuteModule`, `FinishProcess`, `PullFromIngest`, `SimulatorStep`, `Tick` |
| `Battery` | `battery_simulator.c` and the heuristic's battery read | level; simulator and scheduler program counters and locals | `SimulatorRead`/`SimulatorWrite`, `Admit`, `PutLoadRead`/`PutLoadWrite` |
| `BatteryAtomic` | spec 4.1: the battery as atomic operations | level, time, total load | `Step`, `ApplyLoad` |
| `CostStore` | `cost_store.c`, `cost_store_mmap.c`, `cost_store_mem.c` | backend, the slots, `global_time`, stores of the insert in progress | `CacheLookup`, `InsertMmap`, `InsertMem`, `StoreField`, `CrashRestart` |
| `CostCacheLRU` | spec 4.2: an LRU map | map, recency order, whether the map is volatile | `Lookup`, `Insert`, `Forget` (volatile only) |
| `PQueue` | `priority_queue.c`, `priority_queue_mmap.c`, `priority_queue_mem.c` | backend, `items`, `size`, heapify position, swap temp, returned item | `EnqueueMmap`, `EnqueueMem`, `HeapifyUp`, `DequeueMmap`, `DequeueMem`, `MoveLast`, `HeapifyDown`, `SwapEnd`, `CrashRestart` |
| `MinQueue` | spec 4.3: a bounded min-priority set | queue, last dequeued, whether the queue is volatile | `Enqueue`, `Dequeue`, `Restart` (volatile only) |
| `ModuleExecutor` | the module loop of `execute_pipeline` with `execute_module_in_process` | loop index, progress, child state and exit status, both pipes, `is_setup`, reported error | `ExecutePipeline`, `Choose`, `ChildExit`, `WaitChild`, `ReadError`, `ReadOutput` |
| `ImageStore` | `image/image_store.c`, the storage part of `get_env_vars` | storage mode; per batch: segment, file, filename set | operators `SetupStorage`, `PersistOutcomes`, `ReadOutcomes`, `Content` used by `ConfigCache` |
| `ConfigCache` | `dipp_config.c`; the batch lifecycle of `dipp_process.c` and `pipeline_executor.c` around it; composes `ImageStore` | parameter plane, both tables, `is_setup`, rebuild index, inbox, queues (as one set), progress, batch in hand, uploads | `SetPipelineParam`, `SetModuleParam` (parameter server), `Produce`, `GetMessage`, `PickBatch`, `SetupPipeline`, `SetupModuleConfig`, `LoadPipeline`, `ExecuteModule`, `ExecuteDone`, `FinishProcess`, `CrashRestart` |
| `Murmur3` | `utils/murmur_hash.c`, the config hash of `setup_module_config` | none (pure operators) | `murmur3_32`, `murmur3_batch_fingerprint`, `ModuleConfigHash` |
| `MCScheduler`, `MCCostStore`, `MCPQueue`, `MCConfigCache` | model values and constant definitions for TLC | | |

How the code maps to the model:

* **Scheduler.**
  - The queues are sets of batches. Dequeue takes one of least deadline; `PQueue` checks separately that the heap delivers this.
  - The cost cache is a map from the fingerprint `<<pipeline, module index, level>>` to the measured cost. Its LRU slots are `CostStore`.
  - `ExecuteModule` is one iteration of `execute_pipeline`'s loop:
    - it evaluates the heuristic;
    - NotFound ends the pipeline;
    - a module failure (nonzero exit, crash or timeout) invalidates `is_setup` and drops the batch;
    - a success inserts the cost on a `FoundNotCached` run, charges the battery and copies back `progress`.
  - The latency requirement is in milliseconds. A passed deadline converts a negative double to `uint32_t`, which is undefined behaviour, so the model takes both outcomes a build produces: 0 (AArch64) and the wrapped value (x86-64).
* **Battery.**
  - Each of the two updates of `battery_level` is a read step followed by a write step, because each is a `get_battery_level_wh()` followed by a `param_set_float` of a value computed from it.
  - An aligned float is written whole, so reads are never torn.
  - `runSteps` counts simulator steps during a module run, bounded by `MaxRunSteps`. The bound stands for `module_timeout`: a module still running after it is killed and never reaches `put_load_on_battery`.
* **CostStore.**
  - `InsertMmap` computes the slot exactly as the C code does (`find_entry`, then the first invalid slot, then `find_lru_index`). It then queues the field stores in program order; `StoreField` performs one of them.
  - `backend` is chosen in `Init`, as `STORAGE_MODE` chooses it once at start. `InsertMem` is `InsertMmap` without the `msync`; both compute the stores with `InsertStores`.
  - On the mmap backend, `CrashRestart` keeps the mapping, as `MAP_SHARED` stores survive a kill, and recomputes `global_time` as `cost_store_init_mmap` does. On the mem backend it starts from the zeroed `calloc` of `cost_store_init_mem`.
  - `msync` only matters for a power loss, which is not modelled.
* **PQueue.**
  - `swap` is its two stores into the array: `*a = *b`, then `*b = temp`, with `temp` held in `tmp` between them.
  - `dequeue` is `*res = items[0]; --size`, then `items[0] = items[size]`.
  - A descriptor is copied as a whole.
  - `EnqueueMem` and `DequeueMem` are the mmap actions without `msync`, on the `backend` chosen in `Init`. `CrashRestart` keeps the mapped heap, but on the mem backend it re-creates the heap empty, as `pq_init_mem` does.
  - A malloc failure in `dequeue` returns NULL and leaves the queue as it was, which is a stuttering step.
* **ModuleExecutor.**
  - The pipes are sequences created empty by each `execute_pipeline` call.
  - The parent never closes their write ends before reading, so a read from an empty pipe blocks. `ReadError` and `ReadOutput` are therefore enabled only when their pipe holds data.
  - The child's whole run is one step, since the parent is blocked in `waitpid` meanwhile. It ends in one of the ways its code allows (`ChildEnds`):
    - the result is written and the child exits 0;
    - a code is written, then a non-zero exit;
    - the alarm fires and `timeout_handler` writes `MODULE_EXIT_TIMEOUT`;
    - a code is written and the alarm fires before the exit;
    - a non-zero exit with no code;
    - a signal.
* **ConfigCache and ImageStore.**
  - Parameter values are names. A name stands for a definition that decodes to a module list or an `n_parameters`. Three names are special: `"zero"` (an all-zero buffer), `"badBrotli"` and `"badProto"`.
  - `Unpacked` gives what `*_unpack` makes of `get_param_buffer`'s result. A Brotli failure and an all-zero buffer both yield 0 bytes. With `EmptyMessageDecodes`, those 0 bytes decode to an empty message: a pipeline with no modules, or a config with no parameters.
  - The rebuild is one step per descriptor, as the lazy loop in `setup_cache_if_needed` does between module runs. A parameter write can therefore land between two steps.
  - `setup_module_config` stores `n_parameters` before it allocates the parameters array. `ParamsOutcomes` lists what a malloc failure leaves: a NULL array, or a freed one.
  - `ExecuteModule` is one iteration of `execute_pipeline`'s loop. The module's outcome is NotFound, a failure (`invalidate_cache`, and the batch is dropped), or success (progress `i` copied back).
  - `PersistOutcomes` lists what each failing call of `persist_data_if_necessary` leaves behind: the file and the segment. `ReadOutcomes` does the same for `image_batch_read_data`, with the `batch->data` it leaves. Both enqueues store the descriptor with `data = NULL`, so the pointer never travels through a queue.
  - `process()` tests only `data == NULL`. A non-NULL invalid pointer (`MAP_FAILED` or `(void *)-1`) is uploaded as `"bad"`.
  - `CrashRestart` zeroes the tables and loses the batch in hand. It empties the queues in MEM mode only.

## Refinement

Three components are shown to implement an abstract specification. Each uses `INSTANCE ... WITH`, and the abstract `Spec` is checked as a `PROPERTY`:

* `Battery` → `BatteryAtomic`. `level`, `simT` and `drawn` map to themselves.
* `CostStore` → `CostCacheLRU`:
  - the cache maps each fingerprint of a valid slot to its `(lat, eng)`;
  - `order` is those fingerprints sorted by timestamp (`SetToSortSeq`);
  - during an insert, the map is taken from the snapshot before it, so the insert's last store is the abstract step;
  - `volatile` is `backend = "mem"`: only then may a restart be the abstract `Forget`, which empties the map.
* `PQueue` → `MinQueue`. `queue` is the set of descriptors in `items[0..size-1]`, corrected in two cases:
  - the swap temp is counted while a swap is half done;
  - between `--size` and the move, the last item is counted in place of the returned root.

  `last` is the descriptor `dequeue` returned. `volatile` is `backend = "mem"`: only the mem backend may lose the queue at a restart (`Restart`), and then all of it.

## Runs

| Run | Config | Expect | What it shows |
|---|---|---|---|
| `sched_safety` | `MCScheduler.cfg` | pass | Under both heuristics, with module and read failures, the scheduler preserves five invariants (below). |
| `sched_live` | `MCSchedulerLive.cfg` | pass | `EveryBatchResolved`: with energy to spare, every sent batch is eventually uploaded or dropped as failed. |
| `modexec_protocol` | `ModuleExecutor.cfg` | pass | With children that end within the module contract, every `execute_pipeline` call returns (`ExecutePipelineReturns`). |
| `modexec_nocode_hang` | `ModuleExecutorNoCode.cfg` | violation | A child that exits non-zero without a code blocks the scheduler forever in `read(error_pipe[0])`. Spec 4.4 says the subordinate "may" write a code, and spec 5 says the wait is bounded by the alarm. |
| `battery_margin` | `Battery.cfg` | pass | `LoadKeepsMinCap`, under every interleaving of the two threads (below). |
| `battery_lost_update` | `BatteryLostUpdate.cfg` | violation | `put_load_on_battery` and `simulator_step` overwrite each other's update; spec 4.1 says apply_load is atomic. |
| `coststore_lru` | `MCCostStore.cfg` | pass | `UniqueHash`, `CostEntryHasOneKey` and `CostStoreRefinesLRU`, with kills between operations (below). |
| `pqueue_heap` | `MCPQueue.cfg` | pass | `PQueueRefinesMinQueue`, with kills between operations (below). |
| `pqueue_torn` | `MCPQueueTorn.cfg` | violation | A kill inside a swap loses a queued descriptor and duplicates another. |
| `config_cache` | `MCConfigCache.cfg` | pass | `UploadsImageData` in both storage modes, with reloads that keep pipeline lengths, decode errors, module failures, concurrent producers and a kill (below). |
| `config_shrink` | `MCConfigCacheShrink.cfg` | violation | A reload after a module failure shortens a pipeline under a batch waiting in the partial queue. The batch then has progress >= length and is re-enqueued forever. |
| `config_storage` | `MCConfigCacheStorage.cfg` | violation | In MMAP mode with failing storage calls, a batch is uploaded with data that is not its producer's. The trace goes through a failed `mmap` in `read_data`: `MAP_FAILED` passes the `NULL` test. A zero-filled file is a second path. |

The project is limited to twelve runs. Other configurations were checked while modelling, and their results are recorded as hazard notes in `PROJECT.json` rather than as runs:
- a module offering only `Low` starves under the best-effort heuristic;
- a descriptor drained while `ingest_pq` is full is lost;
- a kill between the stores of a cost insert leaves a torn slot;
- a Brotli failure turns a pipeline into an empty one;
- a malloc failure leaves `n_parameters > 0` with a NULL or freed array;
- a child that writes a code and exits 0 leaves that code for a later failure to read (not enumerated).

What the pass runs check:

* **`sched_safety`** holds these invariants:
  - `BatchConservation`: every received batch is in exactly one place: ingest, partial, in flight, uploaded or failed.
  - `PartialBounded`: the partial queue stays within its bound.
  - `ModulesRunInOrder`: modules run in pipeline order, none skipped or repeated.
  - `UploadOnceWhenComplete`: upload happens once, and only after the last module.
  - `BatteryWithinCaps`: the battery stays within its caps.
* **`battery_margin`** checks `LoadKeepsMinCap`: a load admitted above the safety margin never takes the battery below `min_capacity`, even though the simulator drains it during the run and either update may be lost.
* **`coststore_lru`** checks three properties:
  - `UniqueHash`: at most one valid slot per fingerprint, even after kills;
  - `CostEntryHasOneKey`: no valid slot holds a fingerprint that two keys of the batch-shape domain share, so a lookup never returns the cost measured for another batch shape, pipeline or module config;
  - `CostStoreRefinesLRU`: on both backends, slots plus timestamps implement an LRU map, with kills between operations, `global_time` recovery on mmap and a zeroed store on mem.
* **`pqueue_heap`** checks `PQueueRefinesMinQueue`: on both backends, the heap with all its swaps implements a bounded min-priority queue, with kills between operations. A kill loses nothing on mmap and everything on mem.
* **`config_cache`** checks `UploadsImageData`: while the storage calls succeed, every upload carries the producer's bytes, in both modes and across a kill that may fall between the drain's setup and the read. `ProgressWithinPipeline` (spec 8: `-1 <= progress < len` against the tables the scheduler has built) is checked only in `config_shrink`. In `config_cache` every pipeline has three modules, so there it would only restate `ExecuteModule`'s guard.

Each property of a pass run has a mutant in `PROJECT.json`: a plausible bug in the mapped code that TLC then reports. Examples:
- a dropped clamp;
- dequeue that peeks;
- `<=` for `<` on the partial-queue bound;
- progress taken instead of progress + 1;
- an off-by-one on the last module;
- `find_lru_index` starting `oldest` at 0, so it returns -1;
- the safety margin dropped;
- the lowest level not lifted to `UINT32_MAX`;
- `global_time` not recovered;
- the entry search skipped;
- the full check dropped;
- `heapifyDown` ignoring the right child;
- a fingerprint struct without `pipeline_id`.

## Bounds and why they are enough

* **Scheduler.**
  - Three batches on two pipelines. Pipeline 1 has a `Default` module and a `{High, Low}` module; pipeline 2 has a `{High, Medium, Low}` module. Batches b1 and b3 share pipeline 1, so they share fingerprints.
  - Deadlines 1, 4 and 2 against a clock that runs to `MaxTime = 5`, so requirements go from generous, through tight, to past the deadline.
  - The latency gates are the code's 3 s and 1 s. The static latencies (200, 800, 2500 ms) and measured latencies (300, 2600 ms) fall on both sides of them.
  - `MaxQueueSize = 3` holds all three batches. `MaxPartialQueueSize = 1` and `LowQueueDepthThreshold = 2` make the extra-pull bound and the heuristic switch happen.
  - The battery runs from `MinCap = 4` to `MaxCap = 9` and starts at 8. A 4-step orbit, half sunlit, reaches both clamps. `SafetyMargin = 4` makes admission refuse some levels.
  - The liveness run uses two batches and `SafetyMargin = 0`. There, any level is affordable at `MinCap`, so the only way to starve is the heuristic.
* **ModuleExecutor.** Four modules, module codes 7, 42 and 150 (both sides of the remap at 100), and every way a child may end. Each call creates fresh pipes, so more modules add nothing new.
* **Battery.** Loads of 2 and 4, three admissions, and `MaxRunSteps = 2` simulator steps per module run. `SafetyMargin = 6 = MinCap + MaxRunSteps·LoadPerStep` is the boundary case, so one unit less is violated (see the mutant).
* **CostStore.**
  - Three fingerprints, two slots and `MaxClock = 6`. Lookups, updates, free-slot inserts and LRU evictions all occur, and restarts happen at every point.
  - Two latency values are enough to tell one insert's costs from another's.
  - The three fingerprints are real ones. They are murmur3 fingerprints of shapes with pipelines 1 and 2, seeded with the hashes of two module-config buffers. `CostEntryHasOneKey` checks 24 batch shapes (1 or 4 images, 3 MiB or 12 MiB, pipelines 1 to 3) against 4 config buffers, the empty one included.
* **PQueue.**
  - Five descriptors with priorities 1, 2, 2, 3, 4, and a capacity of 4, so the heap is two levels deep.
  - Enqueue reaches a full queue, and equal priorities exercise the strict comparisons.
  - One priority is distinct from all the others, so `heapifyDown` has to choose the right child.
* **ConfigCache.**
  - Two pipeline slots and two module slots. Pipelines `A = <<0,1,0>>` and `B = <<1,0,1>>` have three modules each; `S` has one. Two batches, one per pipeline.
  - The parameter server makes two writes. These are enough for a rewrite to land between a batch's turns and during a rebuild. A shrink needs a length-3 pipeline: from length 2, a waiting batch is always at progress 0 or 1, and both complete.
  - One kill. Producers deposit batches at any time, so a drain can follow a rebuild.
  - Both storage modes are chosen in the initial state (`StorageModes`). `config_storage` takes MMAP only, the mode in which `setup_storage` copies the data.

## The fingerprint hash

`Murmur3` translates `murmur3_32` line by line. TLC's integers are 32-bit signed, so a `uint32_t` is a pair of 16-bit halves. Products are split by bytes, so no intermediate value passes 2^31. XOR and OR go through 256×256 byte tables. Applying a table forces its argument, which keeps TLC's lazy evaluation of the nested word operations within its stack. Blocks are read little-endian, as on the x86-64 and AArch64 targets; on a big-endian target the code's `blocks[i]` would give other hashes. The `switch` on `len & 3` falls through, so the tail bytes add into `k1`.

An `ASSUME` checks `murmur3_32` against 13 published MurmurHash3 x86_32 test vectors. They cover every tail length and seeds 0, 1 and `0xffffffff`. Every run that loads the module evaluates it; a tail switch with a `break` after each case fails it. `Scheduler` keeps an injective fingerprint, so its runs stay independent of the hash. `MCCostStore` uses the real one.

## Fairness

`Scheduler` assumes weak fairness of three actions:
- `SchedulerStep`: the loop never blocks; `msgrcv` is `IPC_NOWAIT`.
- `SimulatorStep`: the battery thread wakes every 10 ms.
- `Tick`: the clock advances.

Producers (`Send`) are not fair: nothing obliges them to send.

`ModuleExecutor` assumes weak fairness of two things:
- the scheduler thread;
- a child's exit. Every child ends, by itself or through `alarm(module_timeout)`.

The other modules check only safety and refinement, so they need no fairness. `config_cache` turns deadlock checking off, because once every batch is done the real loop polls empty queues forever.

## Not modelled

* **Parts of the image store**: `image_batch_cleanup` only releases process-local mappings. `read_data`'s branch for an MMAP batch without a filename is never reached by a batch that `setup_storage` has handled. `Scheduler` still keeps only the read outcome, read or failed; `ConfigCache` has the full storage model.
* **The `read() == -1` paths of `execute_pipeline`**: they would leak the pipes, but they are unreachable while the parent holds the write ends. They are listed as a hazard. Modules that break their contract (writing a code and then exiting 0) are not enumerated.
* **The bytes of configuration decoding** (protobuf, Brotli): only their outcomes are modelled (`Unpacked`). `dlopen` and timestamp logging are pure I/O.
* **Telemetry** (`telemetry.c`): the reading is a mock, `rand() % 1000 / 10.0f`, and it is pushed to a parameter that nothing in the executor reads.
* **The VMEM/DTP server** (`vmem_dtp_server.c`): it serves ring-buffer observation metadata over CSP. That is network I/O, outside the batch path.
* **`dipp_config.h`**: it holds only macros and struct declarations, with no operations to model.
* **Power loss**: unsynced writeback.
* **`lowest_effort_heuristic`**: it has no source in the repository, so it is modelled from spec 4.5.1.

## Plan for further work

1. Compose `Scheduler` with `PQueue` and `CostStore` by instance, replacing the set and map abstractions, and add a kill of the scheduler with the in-flight batch.
2. Scheduler with the two-step battery of `Battery`, to relate the lost update to admission decisions.
3. Merge `ConfigCache`'s lifecycle into `Scheduler`, so that reloads, storage and heuristics are checked in one model.

---------------------------- MODULE ConfigCache ----------------------------
(***************************************************************************)
(* The pipeline and module configuration tables of dipp_config.c, with    *)
(* the batch lifecycle that reads them (process, load_pipeline_and_execute, *)
(* execute_pipeline, get_pipeline_length in dipp_process.c and            *)
(* pipeline_executor.c), and the batch storage of ImageStore it drives:    *)
(* the inbox drain sets a batch's storage up, the completion reads it and  *)
(* uploads it.                                                             *)
(*                                                                         *)
(* The parameter server writes the configuration parameters at any time.  *)
(* The scheduler rebuilds its tables from them lazily, one descriptor per  *)
(* step, when is_setup is 0, and a module failure resets is_setup.  A      *)
(* kill of the process loses the tables and the batch in hand; the queues *)
(* survive it as MAP_SHARED files in MMAP mode and are lost in MEM mode;  *)
(* the inbox, segments and data files survive it.                          *)
(*                                                                         *)
(* Parameter values are names: "zero" (all-zero buffer), "badBrotli",      *)
(* "badProto" (a buffer that does not decode), or the name of a            *)
(* definition that decodes to DefModules[name] (a pipeline: its modules'   *)
(* module_parameter_lists indices) or NParams[name] (a module config: its *)
(* n_parameters).                                                          *)
(***************************************************************************)
EXTENDS Integers, Sequences, FiniteSets, ImageStore

CONSTANTS
  NumPipelines,       \* MAX_PIPELINES
  NumModules,         \* MAX_MODULES
  PipelineDefs,       \* names of pipeline definitions the operator may upload
  DefModules,         \* [PipelineDefs -> Seq(0..NumModules-1)]
  ModuleDefs,         \* names of module configs the operator may upload
  NParams,            \* [ModuleDefs -> Nat]: n_parameters
  InitPipelineParam,  \* [0..NumPipelines-1 -> PipelineValues] at start
  InitModuleParam,    \* [0..NumModules-1 -> ModuleValues] at start
  PipelineWrites,     \* values the parameter server may write to a pipeline
  ModuleWrites,       \* values it may write to a module config
  EmptyMessageDecodes,\* *_unpack(NULL, 0, NULL) returns an empty message
  MallocFails,        \* malloc in setup_module_config may return NULL
  NoBatch,
  PipelineOf,         \* [Batches -> 1..NumPipelines]: ImageBatch.pipeline_id
  MaxParamWrites,     \* bound on parameter-server writes
  MaxRestarts         \* bound on kills of the process

VARIABLES
  pipelineParam,  \* pipeline_config_params (parameter plane)
  moduleParam,    \* module_config_params (parameter plane)
  pipelines,      \* pipelines[]: [id, mods]
  configs,        \* module_parameter_lists[]: [n, params]
  isSetup,        \* is_setup
  pc, rb,         \* scheduler position; rebuild loop index
  queued,         \* batches in ingest_pq / partially_processed_pq
  progress,       \* ImageBatch.progress
  cur, mi,        \* batch in hand; execute_pipeline's loop index
  inbox,          \* descriptors in the message queue
  produced,       \* batches the producers have deposited (history)
  uploaded,       \* [batch, data] passed to upload (history)
  dropped,        \* batches freed after a failure (history)
  writes, restarts

vars == <<pipelineParam, moduleParam, pipelines, configs, isSetup, pc, rb,
          queued, progress, cur, mi, uploaded, dropped, writes, restarts,
          inbox, produced, storeVars>>

Slots == 0..NumPipelines - 1
MSlots == 0..NumModules - 1
DecodeErrors == {"badBrotli", "badProto"}
PipelineValues == PipelineDefs \cup DecodeErrors \cup {"zero"}
ModuleValues == ModuleDefs \cup DecodeErrors \cup {"zero"}
MaxPipelineLen == CHOOSE k \in {Len(DefModules[d]) : d \in PipelineDefs} :
                    \A d \in PipelineDefs : Len(DefModules[d]) <= k

\* params is the number of ModuleParameter records the parameters array
\* holds, NullArray for a NULL array, FreedArray for a freed one.
NullArray == -1
FreedArray == -2

\* The tables are zero-initialised globals.
ZeroPipeline == [id |-> 0, mods |-> <<>>]
ZeroConfig == [n |-> 0, params |-> NullArray]

TypeOK ==
  /\ pipelineParam \in [Slots -> PipelineValues]
  /\ moduleParam \in [MSlots -> ModuleValues]
  /\ pipelines \in [Slots -> [id : 0..NumPipelines, mods : Seq(MSlots)]]
  /\ configs \in [MSlots -> [n : Nat, params : Nat \cup {NullArray, FreedArray}]]
  /\ isSetup \in BOOLEAN
  /\ pc \in {"pick", "setupPipelines", "setupModules", "lookup", "module", "finish"}
  /\ queued \subseteq Batches /\ cur \in Batches \cup {NoBatch}
  /\ progress \in [Batches -> -1..MaxPipelineLen]
  /\ uploaded \subseteq [batch : Batches, data : {"img", "zeros", "bad"}]
  /\ dropped \subseteq Batches
  /\ inbox \subseteq Batches /\ produced \subseteq Batches
  /\ StoreTypeOK

Init ==
  /\ pipelineParam = InitPipelineParam /\ moduleParam = InitModuleParam
  /\ pipelines = [s \in Slots |-> ZeroPipeline]
  /\ configs = [m \in MSlots |-> ZeroConfig]
  /\ isSetup = FALSE
  /\ pc = "pick" /\ rb = 0 /\ mi = 0 /\ cur = NoBatch
  /\ queued = {} /\ progress = [b \in Batches |-> -1]
  /\ uploaded = {} /\ dropped = {}
  /\ writes = 0 /\ restarts = 0
  /\ inbox = {} /\ produced = {}
  /\ StoreInit

(***************************************************************************)
(* get_param_buffer: an all-zero buffer and a Brotli failure both return   *)
(* size 0 and leave the buffer NULL.  The unpack of those 0 bytes, and of  *)
(* an undecodable buffer, is Unpacked; NoMessage is a NULL result.         *)
(***************************************************************************)
NoMessage == "none"
Unpacked(v, defs) ==
  IF v \in defs THEN v
  ELSE IF v = "badProto" \/ ~EmptyMessageDecodes THEN NoMessage
  ELSE "empty"

(***************************************************************************)
(* Parameter server: a write of a configuration parameter.                 *)
(***************************************************************************)
SetPipelineParam(s, v) ==
  /\ writes < MaxParamWrites
  /\ pipelineParam' = [pipelineParam EXCEPT ![s] = v]
  /\ writes' = writes + 1
  /\ UNCHANGED <<moduleParam, pipelines, configs, isSetup, pc, rb, queued,
                 progress, cur, mi, uploaded, dropped, restarts,
                 inbox, produced, storeVars>>

SetModuleParam(m, v) ==
  /\ writes < MaxParamWrites
  /\ moduleParam' = [moduleParam EXCEPT ![m] = v]
  /\ writes' = writes + 1
  /\ UNCHANGED <<pipelineParam, pipelines, configs, isSetup, pc, rb, queued,
                 progress, cur, mi, uploaded, dropped, restarts,
                 inbox, produced, storeVars>>

(***************************************************************************)
(* Scheduler: dequeue a batch, then setup_cache_if_needed.                 *)
(***************************************************************************)
\* A producer deposits a descriptor whose data is in a fresh segment.
Produce(b) ==
  /\ b \notin produced
  /\ produced' = produced \cup {b} /\ inbox' = inbox \cup {b}
  /\ shm' = [shm EXCEPT ![b] = "img"]
  /\ UNCHANGED <<pipelineParam, moduleParam, pipelines, configs, isSetup, pc, rb,
                 queued, progress, cur, mi, uploaded, dropped, writes, restarts,
                 storageMode, file, fname>>

\* The drain loop: get_message_from_queue receives a descriptor and calls
\* image_batch_setup_storage, ignoring its result; the batch is then
\* enqueued onto ingest_pq.
GetMessage(b) ==
  /\ pc = "pick" /\ b \in inbox
  /\ inbox' = inbox \ {b}
  /\ SetupStorage(b)
  /\ queued' = queued \cup {b}
  /\ UNCHANGED <<pipelineParam, moduleParam, pipelines, configs, isSetup, pc, rb,
                 progress, cur, mi, uploaded, dropped, writes, restarts,
                 produced, storageMode>>

\* The dequeue follows the drain, which stops when the inbox is empty.
PickBatch(b) ==
  /\ pc = "pick" /\ inbox = {} /\ b \in queued
  /\ queued' = queued \ {b}
  /\ cur' = b
  /\ pc' = IF isSetup THEN "lookup" ELSE "setupPipelines"
  /\ rb' = 0
  /\ UNCHANGED <<pipelineParam, moduleParam, pipelines, configs, isSetup,
                 progress, mi, uploaded, dropped, writes, restarts,
                 inbox, produced, storeVars>>

\* Fault variant: the slot gets pipeline_id rb+2.
SetupPipelineIdOffByOne ==
  /\ pc = "setupPipelines"
  /\ LET msg == Unpacked(pipelineParam[rb], PipelineDefs)
     IN  pipelines' =
           IF msg = NoMessage THEN pipelines
           ELSE [pipelines EXCEPT ![rb] =
                   [id |-> rb + 2,
                    mods |-> IF msg = "empty" THEN <<>> ELSE DefModules[msg]]]
  /\ IF rb + 1 < NumPipelines
       THEN rb' = rb + 1 /\ pc' = pc
       ELSE rb' = 0 /\ pc' = "setupModules"
  /\ UNCHANGED <<pipelineParam, moduleParam, configs, isSetup, queued,
                 progress, cur, mi, uploaded, dropped, writes, restarts,
                 inbox, produced, storeVars>>

\* setup_pipeline(pipeline_config_params[rb]): an undecoded descriptor is
\* skipped; otherwise the slot gets pipeline_id rb+1 and the modules.
SetupPipeline ==
  /\ pc = "setupPipelines"
  /\ LET msg == Unpacked(pipelineParam[rb], PipelineDefs)
     IN  pipelines' =
           IF msg = NoMessage THEN pipelines
           ELSE [pipelines EXCEPT ![rb] =
                   [id |-> rb + 1,
                    mods |-> IF msg = "empty" THEN <<>> ELSE DefModules[msg]]]
  /\ IF rb + 1 < NumPipelines
       THEN rb' = rb + 1 /\ pc' = pc
       ELSE rb' = 0 /\ pc' = "setupModules"
  /\ UNCHANGED <<pipelineParam, moduleParam, configs, isSetup, queued,
                 progress, cur, mi, uploaded, dropped, writes, restarts,
                 inbox, produced, storeVars>>

\* setup_module_config(module_config_params[rb]): n_parameters is stored
\* before the parameters array is allocated.  A failed malloc of the array
\* leaves it NULL; a failed malloc of record i frees the array and returns.
ParamsOutcomes(n) ==
  {n} \cup (IF MallocFails THEN {NullArray} \cup (IF n > 0 THEN {FreedArray} ELSE {})
                           ELSE {})

SetupModuleConfig ==
  /\ pc = "setupModules"
  /\ LET msg == Unpacked(moduleParam[rb], ModuleDefs)
         n   == IF msg = "empty" THEN 0 ELSE NParams[msg]
     IN  IF msg = NoMessage
           THEN configs' = configs
           ELSE \E p \in ParamsOutcomes(n) :
                  configs' = [configs EXCEPT ![rb] = [n |-> n, params |-> p]]
  /\ IF rb + 1 < NumModules
       THEN rb' = rb + 1 /\ pc' = pc /\ isSetup' = isSetup
       ELSE rb' = 0 /\ pc' = "lookup" /\ isSetup' = TRUE
  /\ UNCHANGED <<pipelineParam, moduleParam, pipelines, queued, progress, cur,
                 mi, uploaded, dropped, writes, restarts,
                 inbox, produced, storeVars>>

(***************************************************************************)
(* process -> load_pipeline_and_execute: get_pipeline_by_id matches        *)
(* pipeline_id; a miss returns FAILURE and process frees the batch.        *)
(***************************************************************************)
Slot(b) == PipelineOf[b] - 1
Found(b) == pipelines[Slot(b)].id = PipelineOf[b]
Mods(b) == pipelines[Slot(b)].mods

LoadPipeline ==
  /\ pc = "lookup"
  /\ IF Found(cur)
       THEN pc' = "module" /\ mi' = progress[cur] + 1
            /\ UNCHANGED <<cur, dropped>>
       ELSE pc' = "pick" /\ cur' = NoBatch /\ dropped' = dropped \cup {cur}
            /\ mi' = mi
  /\ UNCHANGED <<pipelineParam, moduleParam, pipelines, configs, isSetup, rb,
                 queued, progress, uploaded, writes, restarts,
                 inbox, produced, storeVars>>

(***************************************************************************)
(* One iteration of execute_pipeline's loop (i = mi).  The module's        *)
(* outcome is the heuristic's NotFound, a failure (invalidate_cache, and   *)
(* process drops the batch), or success, whose result carries progress i.  *)
(***************************************************************************)
ExecuteModule ==
  /\ pc = "module" /\ mi < Len(Mods(cur))
  /\ \/ pc' = "finish" /\ UNCHANGED <<progress, mi, cur, dropped, isSetup>>
     \/ /\ isSetup' = FALSE
        /\ dropped' = dropped \cup {cur} /\ cur' = NoBatch /\ pc' = "pick"
        /\ UNCHANGED <<progress, mi>>
     \/ /\ progress' = [progress EXCEPT ![cur] = mi]
        /\ mi' = mi + 1
        /\ UNCHANGED <<pc, cur, dropped, isSetup>>
  /\ UNCHANGED <<pipelineParam, moduleParam, pipelines, configs, rb, queued,
                 uploaded, writes, restarts,
                 inbox, produced, storeVars>>

ExecuteDone ==
  /\ pc = "module" /\ mi >= Len(Mods(cur))
  /\ pc' = "finish"
  /\ UNCHANGED <<pipelineParam, moduleParam, pipelines, configs, isSetup, rb,
                 queued, progress, cur, mi, uploaded, dropped, writes, restarts,
                 inbox, produced, storeVars>>

\* process after a 0 return: complete iff progress == pipeline_length - 1;
\* then image_batch_read_data, whose result is not checked: a NULL data
\* pointer frees the batch, any other goes to upload, then
\* image_batch_cleanup.  An incomplete batch goes to
\* the partial queue.
FinishProcess ==
  /\ pc = "finish"
  /\ IF progress[cur] = Len(Mods(cur)) - 1
       THEN \E r \in ReadOutcomes(cur) :
              /\ file' = [file EXCEPT ![cur] = r.file]
              /\ IF r.data = "null"
                   THEN dropped' = dropped \cup {cur} /\ uploaded' = uploaded
                   ELSE /\ uploaded' = uploaded \cup
                             {[batch |-> cur, data |-> Content(cur, r.data)]}
                        /\ dropped' = dropped
              /\ queued' = queued
       ELSE /\ queued' = queued \cup {cur}
            /\ UNCHANGED <<uploaded, dropped, file>>
  /\ cur' = NoBatch /\ pc' = "pick"
  /\ UNCHANGED <<pipelineParam, moduleParam, pipelines, configs, isSetup, rb,
                 progress, mi, writes, restarts, inbox, produced,
                 storageMode, shm, fname>>

(***************************************************************************)
(* Kill and restart: the tables and is_setup are process memory and start *)
(* again zeroed, and the batch in hand is lost.  The queues are files in   *)
(* MMAP mode and heap in MEM mode.  The parameter plane, the message queue,*)
(* the segments and the data files persist.                                *)
(***************************************************************************)
CrashRestart ==
  /\ restarts < MaxRestarts
  /\ pipelines' = [s \in Slots |-> ZeroPipeline]
  /\ configs' = [m \in MSlots |-> ZeroConfig]
  /\ isSetup' = FALSE /\ pc' = "pick" /\ rb' = 0 /\ mi' = 0 /\ cur' = NoBatch
  /\ queued' = IF storageMode = "MMAP" THEN queued ELSE {}
  /\ restarts' = restarts + 1
  /\ UNCHANGED <<pipelineParam, moduleParam, progress, uploaded,
                 dropped, writes, inbox, produced, storeVars>>

Next ==
  \/ \E s \in Slots, v \in PipelineWrites : SetPipelineParam(s, v)
  \/ \E m \in MSlots, v \in ModuleWrites : SetModuleParam(m, v)
  \/ \E b \in Batches : Produce(b) \/ GetMessage(b) \/ PickBatch(b)
  \/ SetupPipeline \/ SetupModuleConfig \/ LoadPipeline
  \/ ExecuteModule \/ ExecuteDone \/ FinishProcess
  \/ CrashRestart

Spec == Init /\ [][Next]_vars

(***************************************************************************)
(* Properties                                                              *)
(***************************************************************************)

\* Spec 8: for every batch, -1 <= progress < pipeline.len, judged against
\* the tables the scheduler has built.  process() completes a batch only
\* when progress == pipeline_length - 1, so a batch whose progress has
\* run past its pipeline is re-enqueued into the partial queue forever.
ProgressWithinPipeline ==
  \A b \in queued \cup ({cur} \ {NoBatch}) :
    isSetup /\ Found(b) => -1 <= progress[b] /\ progress[b] < Len(Mods(b))

\* Spec 7 (storage errors abort the op) and spec 6 (upload the batch's
\* data): every upload passes the bytes its producer deposited.  The drain
\* ignores a failed image_batch_setup_storage and enqueues the batch, and
\* image_batch_read_data creates or extends a missing or short file.
UploadsImageData == \A u \in uploaded : u.data = "img"

=============================================================================

----------------------------- MODULE Scheduler -----------------------------
(***************************************************************************)
(* The batch-processing loop (process_images_loop, process,                *)
(* execute_pipeline) with its two priority queues, the configuration       *)
(* cache flag, the cost cache as seen by the heuristic, the simulated      *)
(* battery and the wall clock.                                             *)
(*                                                                         *)
(* The scheduler is one thread; its position in the loop is pc.  The       *)
(* producers (message-queue writers), the battery-simulator thread and the *)
(* clock run concurrently with it.  Queues are sets of batches dequeued by *)
(* minimum deadline (PQueue.tla refines this by the array heap).  A        *)
(* batch's record in the queues is represented by progress[b].             *)
(***************************************************************************)
EXTENDS Heuristic, FiniteSets

CONSTANTS
  Batches,            \* batch descriptors the producers may send
  NoBatch,            \* model value: no batch in hand
  PipelineOf,         \* [Batches -> DOMAIN Pipelines]: ImageBatch.pipeline_id
  Deadline,           \* [Batches -> Nat]: ImageBatch.priority (seconds)
  Pipelines,          \* [ids -> Seq(SUBSET Levels)]: implementations per module
  MaxQueueSize,       \* MAX_QUEUE_SIZE
  MaxPartialQueueSize,\* MAX_PARTIAL_QUEUE_SIZE
  LowQueueDepthThreshold, \* LOW_QUEUE_DEPTH_THRESHOLD
  MeasuredLatencies,  \* wall-clock latencies a module run can measure (ms)
  MinCap, MaxCap,     \* simulator min/max capacity
  InitBattery,        \* initial battery level
  GenPerStep,         \* energy generated per simulator step when sunlit
  LoadPerStep,        \* constant load per simulator step
  OrbitSteps,         \* orbit period in simulator steps
  SunlitSteps,        \* sunlit part of the orbit in simulator steps
  MaxTime             \* bound on the wall clock (seconds)

VARIABLES
  inbox,        \* the System V message queue (FIFO of descriptors)
  sent,         \* batches the producers have sent (history)
  ingest,       \* ingest_pq
  partial,      \* partially_processed_pq
  progress,     \* ImageBatch.progress of each batch
  cur,          \* the batch being processed
  stage,        \* 1: batch pulled first in the iteration, 2: the extra ingest pull
  mi,           \* module index of execute_pipeline's loop
  pc,           \* scheduler's position in the loop
  isSetup,      \* dipp_config.c is_setup (configuration cache valid)
  heuristic,    \* current_heuristic
  cache,        \* cost cache contents the heuristic sees, by fingerprint
  battery,      \* battery_level parameter
  simT,         \* simulator time within the orbit (steps)
  now,          \* CLOCK_MONOTONIC seconds
  failed,       \* batches dropped after a module or storage failure (history)
  ran,          \* module indices executed per batch, in order (history)
  uploads       \* number of upload() calls per batch (history)

vars == <<inbox, sent, ingest, partial, progress, cur, stage, mi, pc, isSetup,
          heuristic, cache, battery, simT, now, failed, ran, uploads>>

Len_(b) == Len(Pipelines[PipelineOf[b]])

\* Fingerprint: murmur3 over (shape, pipeline_id) seeded with the
\* implementation's hash; batches of one pipeline share the shape here.
Fingerprints ==
  UNION {{<<p, i, l>> : i \in 0..Len(Pipelines[p]) - 1, l \in Levels} : p \in DOMAIN Pipelines}
Fp(b, i, l) == <<PipelineOf[b], i, l>>

PCs == {"drain", "pick", "exec", "finish", "next"}

TypeOK ==
  /\ inbox \in Seq(Batches)
  /\ sent \subseteq Batches
  /\ ingest \subseteq Batches /\ partial \subseteq Batches
  /\ progress \in [Batches -> -1..10]
  /\ cur \in Batches \cup {NoBatch}
  /\ stage \in {1, 2} /\ mi \in 0..10 /\ pc \in PCs
  /\ isSetup \in BOOLEAN /\ heuristic \in {"BEST", "LOWEST"}
  /\ cache \in [Fingerprints -> Entries]
  /\ battery \in 0..MaxCap /\ simT \in 0..OrbitSteps - 1 /\ now \in 0..MaxTime
  /\ failed \subseteq Batches
  /\ ran \in [Batches -> Seq(Nat)] /\ uploads \in [Batches -> Nat]

Init ==
  /\ inbox = <<>> /\ sent = {}
  /\ ingest = {} /\ partial = {}
  /\ progress = [b \in Batches |-> -1]
  /\ cur = NoBatch /\ stage = 1 /\ mi = 0 /\ pc = "drain"
  /\ isSetup = FALSE
  /\ heuristic \in {"BEST", "LOWEST"}          \* HEURISTIC environment variable
  /\ cache = [f \in Fingerprints |-> Miss]
  /\ battery = InitBattery /\ simT = 0 /\ now = 0
  /\ failed = {} /\ ran = [b \in Batches |-> <<>>] /\ uploads = [b \in Batches |-> 0]

(***************************************************************************)
(* Environment: a producer sends a new descriptor (progress -1).           *)
(***************************************************************************)
Send(b) ==
  /\ b \notin sent
  /\ sent' = sent \cup {b}
  /\ inbox' = Append(inbox, b)
  /\ UNCHANGED <<ingest, partial, progress, cur, stage, mi, pc, isSetup, heuristic,
                 cache, battery, simT, now, failed, ran, uploads>>

(***************************************************************************)
(* Scheduler loop, step 1: drain the message queue.  The result of         *)
(* enqueue onto ingest_pq is ignored: on a full queue the descriptor is    *)
(* consumed and dropped.                                                   *)
(***************************************************************************)
EnqueueIfRoom(q, b) == IF Cardinality(q) < MaxQueueSize THEN q \cup {b} ELSE q

GetMessageFromQueue ==
  /\ pc = "drain" /\ inbox # <<>>
  /\ inbox' = Tail(inbox)
  /\ ingest' = EnqueueIfRoom(ingest, Head(inbox))
  /\ UNCHANGED <<sent, partial, progress, cur, stage, mi, pc, isSetup, heuristic,
                 cache, battery, simT, now, failed, ran, uploads>>

InboxEmpty ==
  /\ pc = "drain" /\ inbox = <<>>
  /\ pc' = "pick"
  /\ UNCHANGED <<inbox, sent, ingest, partial, progress, cur, stage, mi, isSetup,
                 heuristic, cache, battery, simT, now, failed, ran, uploads>>

\* dequeue: an item of minimum priority (ties: heap position, unspecified).
MinPriority(q) == {b \in q : \A c \in q : Deadline[b] <= Deadline[c]}

\* update_heuristic: best effort below the queue-depth threshold.
UpdateHeuristic(ingestDepth, partialDepth) ==
  IF ingestDepth + partialDepth < LowQueueDepthThreshold THEN "BEST" ELSE "LOWEST"

\* Fault variant: execution restarts at module progress instead of progress+1.
StartProcessFromProgress(b, ing, par, st) ==
  /\ cur' = b /\ stage' = st
  /\ isSetup' = TRUE
  /\ heuristic' = UpdateHeuristic(Cardinality(ing), Cardinality(par))
  /\ mi' = IF progress[b] < 0 THEN 0 ELSE progress[b]
  /\ pc' = "exec"

\* setup_cache_if_needed; update_heuristic; enter process(b).
StartProcess(b, ing, par, st) ==
  /\ cur' = b /\ stage' = st
  /\ isSetup' = TRUE
  /\ heuristic' = UpdateHeuristic(Cardinality(ing), Cardinality(par))
  /\ mi' = progress[b] + 1
  /\ pc' = "exec"

\* Fault variant: the partial queue is peeked instead of dequeued.
PickBatchPeek ==
  /\ pc = "pick"
  /\ \/ /\ partial # {}
        /\ \E b \in MinPriority(partial) : StartProcess(b, ingest, partial, 1)
        /\ UNCHANGED <<ingest, partial>>
     \/ /\ partial = {} /\ ingest # {}
        /\ \E b \in MinPriority(ingest) :
             /\ ingest' = ingest \ {b}
             /\ StartProcess(b, ingest', partial, 1)
        /\ UNCHANGED partial
     \/ /\ partial = {} /\ ingest = {}
        /\ pc' = "drain"
        /\ UNCHANGED <<ingest, partial, cur, stage, mi, isSetup, heuristic>>
  /\ UNCHANGED <<inbox, sent, progress, cache, battery, simT, now, failed, ran, uploads>>

\* Step 2: partial queue first, then ingest, else sleep and restart.
PickBatch ==
  /\ pc = "pick"
  /\ \/ /\ partial # {}
        /\ \E b \in MinPriority(partial) :
             /\ partial' = partial \ {b}
             /\ StartProcess(b, ingest, partial', 1)
        /\ UNCHANGED ingest
     \/ /\ partial = {} /\ ingest # {}
        /\ \E b \in MinPriority(ingest) :
             /\ ingest' = ingest \ {b}
             /\ StartProcess(b, ingest', partial, 1)
        /\ UNCHANGED partial
     \/ /\ partial = {} /\ ingest = {}
        /\ pc' = "drain"
        /\ UNCHANGED <<ingest, partial, cur, stage, mi, isSetup, heuristic>>
  /\ UNCHANGED <<inbox, sent, progress, cache, battery, simT, now, failed, ran, uploads>>

(***************************************************************************)
(* One iteration of execute_pipeline's loop for module mi of cur: the      *)
(* heuristic, then execute_module_in_process.  A failed module (non-zero   *)
(* exit, timeout, crash, or an empty/failed result pipe) invalidates the   *)
(* configuration cache and ends process() with the batch dropped.  On      *)
(* success an uncached cost is stored and charged to the battery, and the  *)
(* module's returned descriptor (progress = mi) is copied back.            *)
(***************************************************************************)
EntryOf(b, i) == [l \in Levels |-> cache[Fp(b, i, l)]]

Choice(b, i, lreq) ==
  Select(heuristic, Pipelines[PipelineOf[b]][i + 1], EntryOf(b, i), lreq,
         EnergyRequirement(battery))

PutLoadOnBattery(load) == IF battery - load < 0 THEN 0 ELSE battery - load

ExecuteModule ==
  /\ pc = "exec" /\ mi < Len_(cur)
  /\ \E lreq \in LatencyRequirements(Deadline[cur], now, Len_(cur) - (progress[cur] + 1)) :
       LET r == Choice(cur, mi, lreq) IN
       \/ /\ r.res = "NotFound"                     \* no level fits: stop the loop
          /\ pc' = "finish"
          /\ UNCHANGED <<progress, cur, mi, isSetup, cache, battery, failed, ran>>
       \/ /\ r.res # "NotFound"                     \* module failed
          /\ isSetup' = FALSE
          /\ failed' = failed \cup {cur}
          /\ cur' = NoBatch /\ pc' = "next"
          /\ UNCHANGED <<progress, mi, cache, battery, ran>>
       \/ /\ r.res # "NotFound"                     \* module succeeded
          /\ IF r.res = "FoundNotCached"
             THEN /\ \E lat \in MeasuredLatencies :
                       cache' = [cache EXCEPT ![Fp(cur, mi, r.level)] =
                                   [valid |-> TRUE, lat |-> lat, eng |-> EnergyCost[r.level]]]
                  /\ battery' = PutLoadOnBattery(EnergyCost[r.level] * StepsPerUpdate)
             ELSE UNCHANGED <<cache, battery>>
          /\ progress' = [progress EXCEPT ![cur] = mi]
          /\ ran' = [ran EXCEPT ![cur] = Append(@, mi)]
          /\ mi' = mi + 1
          /\ UNCHANGED <<cur, pc, isSetup, failed>>
  /\ UNCHANGED <<inbox, sent, ingest, partial, stage, heuristic, simT, now, uploads>>

PipelineDone ==
  /\ pc = "exec" /\ mi = Len_(cur)
  /\ pc' = "finish"
  /\ UNCHANGED <<inbox, sent, ingest, partial, progress, cur, stage, mi, isSetup,
                 heuristic, cache, battery, simT, now, failed, ran, uploads>>

(***************************************************************************)
(* Rest of process(): a complete batch is read, uploaded and released (a  *)
(* failed read returns without upload); an incomplete one is pushed onto  *)
(* the partial queue (dropped if the queue is full).                       *)
(***************************************************************************)
\* Fault variant: completion tested against the pipeline length off by one.
FinishProcessOffByOne ==
  /\ pc = "finish"
  /\ \/ /\ progress[cur] >= Len_(cur) - 2
        /\ \/ uploads' = [uploads EXCEPT ![cur] = @ + 1] /\ UNCHANGED failed
           \/ failed' = failed \cup {cur} /\ UNCHANGED uploads
        /\ UNCHANGED partial
     \/ /\ progress[cur] < Len_(cur) - 2
        /\ partial' = EnqueueIfRoom(partial, cur)
        /\ UNCHANGED <<uploads, failed>>
  /\ cur' = NoBatch /\ pc' = "next"
  /\ UNCHANGED <<inbox, sent, ingest, progress, stage, mi, isSetup, heuristic,
                 cache, battery, simT, now, ran>>

FinishProcess ==
  /\ pc = "finish"
  /\ \/ /\ progress[cur] = Len_(cur) - 1              \* complete: read, upload
        /\ \/ uploads' = [uploads EXCEPT ![cur] = @ + 1] /\ UNCHANGED failed
           \/ failed' = failed \cup {cur} /\ UNCHANGED uploads   \* read failed
        /\ UNCHANGED partial
     \/ /\ progress[cur] # Len_(cur) - 1              \* incomplete: re-enqueue
        /\ partial' = EnqueueIfRoom(partial, cur)
        /\ UNCHANGED <<uploads, failed>>
  /\ cur' = NoBatch /\ pc' = "next"
  /\ UNCHANGED <<inbox, sent, ingest, progress, stage, mi, isSetup, heuristic,
                 cache, battery, simT, now, ran>>

\* After process(): in the first half of the iteration, if the partial
\* queue is below MAX_PARTIAL_QUEUE_SIZE, pull one more batch from ingest.
\* Fault variant: the partial-size test admits the threshold itself.
PullFromIngestAtThreshold ==
  /\ pc = "next"
  /\ \/ /\ stage = 1 /\ Cardinality(partial) <= MaxPartialQueueSize /\ ingest # {}
        /\ \E b \in MinPriority(ingest) :
             /\ ingest' = ingest \ {b}
             /\ StartProcess(b, ingest', partial, 2)
     \/ /\ \/ stage = 2
           \/ Cardinality(partial) > MaxPartialQueueSize
           \/ ingest = {}
        /\ pc' = "drain"
        /\ UNCHANGED <<ingest, cur, stage, mi, isSetup, heuristic>>
  /\ UNCHANGED <<inbox, sent, partial, progress, cache, battery, simT, now, failed,
                 ran, uploads>>

PullFromIngest ==
  /\ pc = "next"
  /\ \/ /\ stage = 1 /\ Cardinality(partial) < MaxPartialQueueSize /\ ingest # {}
        /\ \E b \in MinPriority(ingest) :
             /\ ingest' = ingest \ {b}
             /\ StartProcess(b, ingest', partial, 2)
     \/ /\ \/ stage = 2
           \/ Cardinality(partial) >= MaxPartialQueueSize
           \/ ingest = {}
        /\ pc' = "drain"
        /\ UNCHANGED <<ingest, cur, stage, mi, isSetup, heuristic>>
  /\ UNCHANGED <<inbox, sent, partial, progress, cache, battery, simT, now, failed,
                 ran, uploads>>

(***************************************************************************)
(* Battery-simulator thread: simulator_step, clamped to [min, max].        *)
(***************************************************************************)
\* Fault variant: the level is not clamped to the maximum capacity.
SimulatorStepUnclamped ==
  LET gen == IF simT < SunlitSteps THEN GenPerStep ELSE 0
      lvl == battery + gen - LoadPerStep
  IN  /\ battery' = IF lvl < MinCap THEN MinCap ELSE lvl
      /\ simT' = (simT + 1) % OrbitSteps
      /\ UNCHANGED <<inbox, sent, ingest, partial, progress, cur, stage, mi, pc,
                     isSetup, heuristic, cache, now, failed, ran, uploads>>

SimulatorStep ==
  LET gen == IF simT < SunlitSteps THEN GenPerStep ELSE 0
      lvl == battery + gen - LoadPerStep
  IN  /\ battery' = IF lvl < MinCap THEN MinCap ELSE IF lvl > MaxCap THEN MaxCap ELSE lvl
      /\ simT' = (simT + 1) % OrbitSteps
      /\ UNCHANGED <<inbox, sent, ingest, partial, progress, cur, stage, mi, pc,
                     isSetup, heuristic, cache, now, failed, ran, uploads>>

\* The wall clock advances (bounded by MaxTime).
Tick ==
  /\ now < MaxTime
  /\ now' = now + 1
  /\ UNCHANGED <<inbox, sent, ingest, partial, progress, cur, stage, mi, pc, isSetup,
                 heuristic, cache, battery, simT, failed, ran, uploads>>

SchedulerStep ==
  \/ GetMessageFromQueue \/ InboxEmpty \/ PickBatch
  \/ ExecuteModule \/ PipelineDone \/ FinishProcess \/ PullFromIngest

Next ==
  \/ \E b \in Batches : Send(b)
  \/ SchedulerStep
  \/ SimulatorStep
  \/ Tick

(***************************************************************************)
(* The scheduler thread never stops (its loop always has a step), the      *)
(* simulator thread steps every 10 ms and the clock advances; producers    *)
(* are not obliged to send anything.                                       *)
(***************************************************************************)
Fairness == WF_vars(SchedulerStep) /\ WF_vars(SimulatorStep) /\ WF_vars(Tick)

Spec == Init /\ [][Next]_vars /\ Fairness

-----------------------------------------------------------------------------
(***************************************************************************)
(* Properties                                                              *)
(***************************************************************************)
Received == sent \ {inbox[k] : k \in DOMAIN inbox}
InFlight == IF cur = NoBatch THEN {} ELSE {cur}
Uploaded == {b \in Batches : uploads[b] > 0}

\* Every descriptor taken from the message queue is, at every moment, in
\* exactly one place: ingest_pq, partially_processed_pq, in the hands of
\* process(), uploaded, or dropped after a reported failure.  A descriptor
\* consumed by get_message_from_queue and lost on a full queue breaks it.
BatchConservation ==
  LET places == <<ingest, partial, InFlight, Uploaded, failed>>
      count(b) == Cardinality({k \in 1..5 : b \in places[k]})
  IN  \A b \in Batches : count(b) = IF b \in Received THEN 1 ELSE 0

\* The partial queue never holds more than MAX_PARTIAL_QUEUE_SIZE batches:
\* the loop only pulls a new ingest batch (which may land in partial) when
\* partial is below the threshold, so the enqueue in process() never meets
\* a full queue.
PartialBounded == Cardinality(partial) <= MaxPartialQueueSize

\* Across any number of partial executions and re-enqueues, each batch has
\* run exactly modules 0..progress, each once and in pipeline order.
ModulesRunInOrder ==
  \A b \in Batches : ran[b] = [k \in 1..progress[b] + 1 |-> k - 1]

\* upload() is called at most once per batch, and only for a batch whose
\* every module has run.
UploadOnceWhenComplete ==
  \A b \in Batches : uploads[b] <= 1 /\ (uploads[b] = 1 => Len(ran[b]) = Len_(b))

\* The battery level stays within the simulator's [min, max] capacity even
\* though put_load_on_battery only floors it at 0: admission keeps every
\* charged load above the safety margin.
BatteryWithinCaps == MinCap <= battery /\ battery <= MaxCap

\* Every batch that a producer sends is eventually uploaded or dropped
\* after a failure.
EveryBatchResolved == \A b \in Batches : b \in sent ~> (b \in Uploaded \/ b \in failed)
=============================================================================

--------------------------- MODULE ModuleExecutor ---------------------------
(***************************************************************************)
(* The module loop of execute_pipeline (pipeline/pipeline_executor.c) with *)
(* execute_module_in_process (process/process_module.c): the two pipes are *)
(* created once per execute_pipeline call; per module the parent forks a   *)
(* child, waitpid()s for it, then reads the error pipe (non-zero exit) or  *)
(* the output pipe (exit 0).  The parent keeps both write ends open, so a  *)
(* read of an empty pipe blocks: it is a step enabled only when the pipe   *)
(* holds data.  The child's whole run (module, alarm, write, exit) is one  *)
(* step: the parent is blocked in waitpid meanwhile.                       *)
(***************************************************************************)
EXTENDS Integers, Sequences

CONSTANTS
  NumModules,    \* pipeline->num_modules
  ModuleCodes,   \* error codes modules write to the error pipe
  CustomBase,    \* MODULE_EXIT_CUSTOM
  TimeoutCode,   \* MODULE_EXIT_TIMEOUT
  CrashCode,     \* MODULE_EXIT_CRASH
  Behaviours     \* how a child may end: a subset of ChildEnds

\* The ways a child ends: the module returns and the result is written;
\* the module writes a code and exits non-zero; the alarm fires and
\* timeout_handler writes MODULE_EXIT_TIMEOUT; the module writes a code and
\* the alarm fires before it exits; the child exits non-zero without a code;
\* the child is killed by a signal.
ChildEnds == {"ok", "code", "timeout", "code_timeout", "nocode", "signal"}

VARIABLES
  pc,        \* "idle" | "choose" | "wait" | "readErr" | "readOut"
  i,         \* module index of the loop
  progress,  \* data->progress
  child,     \* "none" | "running" | "exited"
  status,    \* how the child exited: "zero" | "nonzero" | "signal"
  outPipe,   \* bytes in output_pipe, as descriptors (their progress)
  errPipe,   \* bytes in error_pipe, as 16-bit codes
  isSetup,   \* dipp_config.c is_setup
  reported   \* the error parameter set during this call (NoError if none)

vars == <<pc, i, progress, child, status, outPipe, errPipe, isSetup, reported>>

NoError == -1

\* set_error_param's argument for a code read from the error pipe.
Report(c) == IF c < 100 THEN CustomBase + c ELSE c

TypeOK ==
  /\ pc \in {"idle", "choose", "wait", "readErr", "readOut"}
  /\ i \in 0..NumModules - 1 /\ progress \in -1..NumModules - 1
  /\ child \in {"none", "running", "exited"} /\ status \in {"zero", "nonzero", "signal"}
  /\ outPipe \in Seq(0..NumModules - 1) /\ errPipe \in Seq(ModuleCodes \cup {TimeoutCode})
  /\ isSetup \in BOOLEAN

Init ==
  /\ pc = "idle" /\ i = 0 /\ progress = -1
  /\ child = "none" /\ status = "zero"
  /\ outPipe = <<>> /\ errPipe = <<>>
  /\ isSetup = TRUE /\ reported = NoError

(* The scheduler calls execute_pipeline for a new batch (progress -1) after *)
(* setup_cache_if_needed; pipe() creates both pipes empty.                 *)
ExecutePipeline ==
  /\ pc = "idle"
  /\ pc' = "choose" /\ i' = 0 /\ progress' = -1
  /\ outPipe' = <<>> /\ errPipe' = <<>> /\ isSetup' = TRUE
  /\ reported' = NoError
  /\ UNCHANGED <<child, status>>

(* One turn of the loop for module i: the heuristic finds an implementation *)
(* and execute_module_in_process forks the child, or it finds none and the  *)
(* pipes are closed and 0 returned.                                         *)
Choose ==
  /\ pc = "choose"
  /\ \/ pc' = "wait" /\ child' = "running"
     \/ pc' = "idle" /\ UNCHANGED child
  /\ UNCHANGED <<i, progress, status, outPipe, errPipe, isSetup, reported>>

(* The child ends as one of Behaviours; what it wrote is in the pipes. *)
ChildExit(b) ==
  /\ child = "running"
  /\ child' = "exited"
  /\ CASE b = "ok"     -> outPipe' = Append(outPipe, i) /\ status' = "zero"
                          /\ UNCHANGED errPipe
       [] b = "signal" -> status' = "signal"
                          /\ UNCHANGED <<outPipe, errPipe>>
       [] b = "nocode" -> status' = "nonzero" /\ UNCHANGED <<outPipe, errPipe>>
       [] b = "timeout" -> errPipe' = Append(errPipe, TimeoutCode) /\ status' = "nonzero"
                           /\ UNCHANGED outPipe
       [] OTHER -> \E c \in ModuleCodes :
                     /\ errPipe' = errPipe \o (IF b = "code" THEN <<c>> ELSE <<c, TimeoutCode>>)
                     /\ status' = "nonzero" /\ UNCHANGED outPipe
  /\ UNCHANGED <<pc, i, progress, isSetup, reported>>

(* waitpid returns: a signal sets MODULE_EXIT_CRASH, invalidates the cache *)
(* and closes the pipes, returning -1; a non-zero exit goes on to read the *)
(* error pipe; exit 0 goes on to read the output pipe.                      *)
WaitChild ==
  /\ pc = "wait" /\ child = "exited"
  /\ child' = "none"
  /\ \/ status = "signal" /\ reported' = CrashCode /\ isSetup' = FALSE /\ pc' = "idle"
     \/ status = "nonzero" /\ pc' = "readErr" /\ UNCHANGED <<isSetup, reported>>
     \/ status = "zero" /\ pc' = "readOut" /\ UNCHANGED <<isSetup, reported>>
  /\ UNCHANGED <<i, progress, status, outPipe, errPipe>>

(* read(error_pipe[0]) of one code, blocking while the pipe is empty; the *)
(* code is remapped, the cache invalidated, the pipes closed, -1 returned. *)
ReadError ==
  /\ pc = "readErr" /\ errPipe # <<>>
  /\ reported' = Report(Head(errPipe)) /\ errPipe' = Tail(errPipe)
  /\ isSetup' = FALSE /\ pc' = "idle"
  /\ UNCHANGED <<i, progress, child, status, outPipe>>

\* Fault variant: the loop runs while i < num_modules + 1.
ReadOutputOffByOne ==
  /\ pc = "readOut" /\ outPipe # <<>>
  /\ progress' = Head(outPipe) /\ outPipe' = Tail(outPipe)
  /\ IF i + 1 < NumModules + 1 THEN i' = i + 1 /\ pc' = "choose"
                               ELSE pc' = "idle" /\ UNCHANGED i
  /\ UNCHANGED <<child, status, errPipe, isSetup, reported>>

\* Fault variant: the loop index is not advanced past the module run.
ReadOutputNoAdvance ==
  /\ pc = "readOut" /\ outPipe # <<>>
  /\ progress' = Head(outPipe) /\ outPipe' = Tail(outPipe)
  /\ IF i + 1 < NumModules THEN pc' = "choose" ELSE pc' = "idle"
  /\ UNCHANGED <<i, child, status, errPipe, isSetup, reported>>

(* After the cost insert, read(output_pipe[0]) of the result, blocking     *)
(* while the pipe is empty; its progress is copied into the batch and the  *)
(* loop goes on to the next module, or ends and returns 0.                 *)
ReadOutput ==
  /\ pc = "readOut" /\ outPipe # <<>>
  /\ progress' = Head(outPipe) /\ outPipe' = Tail(outPipe)
  /\ IF i + 1 < NumModules THEN i' = i + 1 /\ pc' = "choose"
                           ELSE pc' = "idle" /\ UNCHANGED i
  /\ UNCHANGED <<child, status, errPipe, isSetup, reported>>

SchedulerThread == ExecutePipeline \/ Choose \/ WaitChild \/ ReadError \/ ReadOutput

Next == SchedulerThread \/ \E b \in Behaviours : ChildExit(b)

(* The scheduler thread runs whenever it can; a child always ends, by     *)
(* itself or by its alarm (module_timeout).                                *)
Spec == Init /\ [][Next]_vars /\ WF_vars(SchedulerThread) /\ WF_vars(\E b \in Behaviours : ChildExit(b))

\* Spec 4.4 and 5: waiting on a module is bounded by its alarm, so every
\* execute_pipeline call returns (pc back to idle) whatever the modules do.
ExecutePipelineReturns == []<>(pc = "idle")
=============================================================================

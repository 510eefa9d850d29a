------------------------------ MODULE Battery ------------------------------
(***************************************************************************)
(* The battery_level parameter shared by two threads of one process: the   *)
(* simulator thread (simulate_battery -> simulator_step) and the scheduler *)
(* thread, which reads the level in the heuristic and, after running an    *)
(* uncached module, calls put_load_on_battery.  Both updates are a         *)
(* get_battery_level_wh() followed by a param_set_float() of a value       *)
(* computed from it, so each is split into a read step and a write step.   *)
(* An aligned float is read and written whole, so reads are not torn.      *)
(***************************************************************************)
EXTENDS Integers

CONSTANTS
  MinCap, MaxCap, GenPerStep, LoadPerStep, OrbitSteps, SunlitSteps,
  SafetyMargin,   \* BATTERY_SAFETY_MARGIN_WH
  Loads,          \* scaled energy costs a module can be admitted with
  InitBattery,
  MaxAdmissions,  \* bound on the number of modules the scheduler runs
  MaxRunSteps     \* simulator steps a module can take before module_timeout

VARIABLES
  level,      \* battery_level
  simT,       \* simulator time within the orbit
  simPc,      \* "read" | "write": position in simulator_step
  simLocal,   \* battery_level_wh read by simulator_step
  schedPc,    \* "idle" | "running" | "write": scheduler thread
  load,       \* energy admitted for the running module
  loadLocal,  \* battery_level_wh read by put_load_on_battery
  drawn,      \* total load written by put_load_on_battery (history)
  admissions, \* modules admitted so far
  runSteps    \* simulator steps since the running module was admitted

vars == <<level, simT, simPc, simLocal, schedPc, load, loadLocal, drawn, admissions, runSteps>>

Clamp(x) == IF x < MinCap THEN MinCap ELSE IF x > MaxCap THEN MaxCap ELSE x
Delta(t) == (IF t < SunlitSteps THEN GenPerStep ELSE 0) - LoadPerStep

TypeOK ==
  /\ level \in 0..MaxCap /\ simT \in 0..OrbitSteps - 1
  /\ simPc \in {"read", "write"} /\ simLocal \in 0..MaxCap
  /\ schedPc \in {"idle", "running", "write"}
  /\ load \in Loads \cup {0} /\ loadLocal \in 0..MaxCap
  /\ drawn \in Nat /\ admissions \in 0..MaxAdmissions
  /\ runSteps \in 0..MaxRunSteps

Init ==
  /\ level = InitBattery /\ simT = 0
  /\ simPc = "read" /\ simLocal = 0
  /\ schedPc = "idle" /\ load = 0 /\ loadLocal = 0
  /\ drawn = 0 /\ admissions = 0 /\ runSteps = 0

(* simulator_step, first half: float battery_level_wh = get_battery_level_wh() *)
SimulatorRead ==
  /\ simPc = "read"
  /\ simLocal' = level /\ simPc' = "write"
  /\ UNCHANGED <<level, simT, schedPc, load, loadLocal, drawn, admissions, runSteps>>

\* Fault variant: the new capacity is not clamped to [min, max].
SimulatorWriteUnclamped ==
  /\ simPc = "write"
  /\ schedPc = "idle" \/ runSteps < MaxRunSteps
  /\ level' = simLocal + Delta(simT)
  /\ simT' = (simT + 1) % OrbitSteps
  /\ simPc' = "read"
  /\ runSteps' = IF schedPc = "idle" THEN 0 ELSE runSteps + 1
  /\ UNCHANGED <<simLocal, schedPc, load, loadLocal, drawn, admissions>>

(* simulator_step, second half: clamp and param_set_float, advance time.  *)
(* A module that is still running after MaxRunSteps steps has been killed  *)
(* by its alarm; only modules that succeed reach put_load_on_battery, so   *)
(* the steps counted are those of a run that ends in a load.               *)
SimulatorWrite ==
  /\ simPc = "write"
  /\ schedPc = "idle" \/ runSteps < MaxRunSteps
  /\ level' = Clamp(simLocal + Delta(simT))
  /\ simT' = (simT + 1) % OrbitSteps
  /\ simPc' = "read"
  /\ runSteps' = IF schedPc = "idle" THEN 0 ELSE runSteps + 1
  /\ UNCHANGED <<simLocal, schedPc, load, loadLocal, drawn, admissions>>

\* Fault variant: the safety margin is not kept free.
AdmitNoMargin(x) ==
  /\ schedPc = "idle" /\ admissions < MaxAdmissions
  /\ x <= level
  /\ load' = x /\ schedPc' = "running" /\ admissions' = admissions + 1
  /\ UNCHANGED <<level, simT, simPc, simLocal, loadLocal, drawn, runSteps>>

(* The heuristic reads the level and admits a module whose scaled energy  *)
(* fits above the safety margin; the module then runs.                     *)
Admit(x) ==
  /\ schedPc = "idle" /\ admissions < MaxAdmissions
  /\ x <= level - SafetyMargin
  /\ load' = x /\ schedPc' = "running" /\ admissions' = admissions + 1
  /\ runSteps' = 0
  /\ UNCHANGED <<level, simT, simPc, simLocal, loadLocal, drawn>>

(* put_load_on_battery, first half: read the level. *)
PutLoadRead ==
  /\ schedPc = "running"
  /\ loadLocal' = level /\ schedPc' = "write"
  /\ UNCHANGED <<level, simT, simPc, simLocal, load, drawn, admissions, runSteps>>

(* put_load_on_battery, second half: fmax(0, level - load), param_set_float. *)
PutLoadWrite ==
  /\ schedPc = "write"
  /\ level' = IF loadLocal - load < 0 THEN 0 ELSE loadLocal - load
  /\ drawn' = drawn + load
  /\ schedPc' = "idle" /\ load' = 0
  /\ UNCHANGED <<simT, simPc, simLocal, loadLocal, admissions, runSteps>>

Next ==
  \/ SimulatorRead \/ SimulatorWrite
  \/ \E x \in Loads : Admit(x)
  \/ PutLoadRead \/ PutLoadWrite

Spec == Init /\ [][Next]_vars

\* The admission check (energy cost <= level - BATTERY_SAFETY_MARGIN_WH)
\* keeps the battery at or above min_capacity when put_load_on_battery
\* writes the module's load, although the simulator thread may have
\* drained it meanwhile and either thread's update may be lost.
LoadKeepsMinCap == [][PutLoadWrite => level' >= MinCap]_vars

(***************************************************************************)
(* Refinement: with level, simT and drawn mapped to themselves, every step *)
(* must be a step of the atomic battery.  The read steps are stutters; a   *)
(* write computed from a level the other thread has since overwritten is   *)
(* not.                                                                    *)
(***************************************************************************)
Atomic == INSTANCE BatteryAtomic

\* Every battery update by either thread is an atomic step of the battery
\* spec: no load applied by put_load_on_battery and no simulator step is
\* lost to the other thread's concurrent read-modify-write.
BatteryRefinesAtomic == Atomic!Spec
=============================================================================

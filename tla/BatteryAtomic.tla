--------------------------- MODULE BatteryAtomic ---------------------------
(***************************************************************************)
(* What the battery promises (spec 4.1): current_energy is read as a whole *)
(* value, a simulator step integrates one step of generation and load,     *)
(* clamped to [min, max], and apply_load atomically subtracts, floored at  *)
(* 0.  drawn is the total load the scheduler has applied.                  *)
(***************************************************************************)
EXTENDS Integers

CONSTANTS MinCap, MaxCap, GenPerStep, LoadPerStep, OrbitSteps, SunlitSteps, Loads, InitBattery

VARIABLES level, simT, drawn

Clamp(x) == IF x < MinCap THEN MinCap ELSE IF x > MaxCap THEN MaxCap ELSE x
Delta(t) == (IF t < SunlitSteps THEN GenPerStep ELSE 0) - LoadPerStep

Step ==
  /\ level' = Clamp(level + Delta(simT))
  /\ simT' = (simT + 1) % OrbitSteps
  /\ UNCHANGED drawn

ApplyLoad(x) ==
  /\ level' = IF level - x < 0 THEN 0 ELSE level - x
  /\ drawn' = drawn + x
  /\ UNCHANGED simT

Next == Step \/ \E x \in Loads : ApplyLoad(x)

Init == level = InitBattery /\ simT = 0 /\ drawn = 0

Spec == Init /\ [][Next]_<<level, simT, drawn>>
=============================================================================

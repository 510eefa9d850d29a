----------------------------- MODULE Heuristic -----------------------------
(***************************************************************************)
(* Effort-level selection of the scheduler (src/src/heuristics/*.c).       *)
(*                                                                         *)
(* Pure operators: given the implementations a module offers, the cost     *)
(* cache entry of each, the latency requirement and the energy             *)
(* requirement, return which effort level to run and whether its cost was  *)
(* cached.  Latencies are in milliseconds (the code's microseconds / 1000),*)
(* energies in abstract units already multiplied by the same factor the    *)
(* code uses.                                                              *)
(***************************************************************************)
EXTENDS Integers, Sequences

CONSTANTS
  LatencyCost,           \* [Levels -> Nat]: ModuleParameterList.latency_cost (0 = unset)
  EnergyCost,            \* [Levels -> Nat]: ModuleParameterList.energy_cost (0 = unset)
  StepsPerUpdate,        \* SIMULATION_STEPS_PER_UPDATE
  SafetyMargin,          \* BATTERY_SAFETY_MARGIN_WH
  DefaultEffortLatency,  \* DEFAULT_EFFORT_LATENCY
  DefaultEffortEnergy,   \* DEFAULT_EFFORT_ENERGY
  MaxLatencyMedium,      \* BEST_EFFORT_MAX_LATENCY_MEDIUM_EFFORT
  MaxLatencyLow,         \* BEST_EFFORT_MAX_LATENCY_LOW_EFFORT
  UInt32Max              \* UINT32_MAX in the latency unit

Levels == {"Default", "Low", "Medium", "High"}
Results == {"FoundCached", "FoundNotCached", "NotFound"}

\* A cost-cache entry as returned by cache_lookup; valid = FALSE is a miss.
Entries == [valid : BOOLEAN, lat : Nat, eng : Nat]
Miss == [valid |-> FALSE, lat |-> 0, eng |-> 0]

Found(res, lvl) == [res |-> res, level |-> lvl]
NotFound == [res |-> "NotFound", level |-> "Default"]

(***************************************************************************)
(* latency_requirement = (uint32_t)(((priority - now) * 1e6) / left).      *)
(* The conversion of a negative double to uint32_t is undefined: x86-64    *)
(* builds keep the low 32 bits of the 64-bit truncation (a value near      *)
(* UINT32_MAX), AArch64 builds saturate to 0.  Both are possible outcomes. *)
(***************************************************************************)
LatencyRequirements(deadline, now, left) ==
  LET x == ((deadline - now) * 1000) \div left
  IN  IF x >= 0 THEN {IF x > UInt32Max THEN UInt32Max ELSE x}
               ELSE {0, UInt32Max + 1 + x}

\* Fault variant: the safety margin is not subtracted.
EnergyRequirementNoMargin(battery) == battery

\* energy_requirement = (battery_level - BATTERY_SAFETY_MARGIN) * 1e6
EnergyRequirement(battery) == battery - SafetyMargin

\* get_default_implementation: energy-only admission of the Default level.
GetDefaultImplementation(entry, ereq) ==
  IF entry.valid
  THEN IF entry.eng * StepsPerUpdate <= ereq
       THEN Found("FoundCached", "Default") ELSE NotFound
  ELSE LET eng == IF EnergyCost["Default"] = 0 THEN DefaultEffortEnergy
                                               ELSE EnergyCost["Default"]
       IN  IF eng * StepsPerUpdate <= ereq
           THEN Found("FoundNotCached", "Default") ELSE NotFound

\* Fault variant: the lowest level is held to the latency requirement too.
JudgeImplementationNoLift(lvl, avail, entry, lreq, ereq, isLowest) ==
  LET lat == IF LatencyCost[lvl] = 0 THEN DefaultEffortLatency ELSE LatencyCost[lvl]
      eng == IF EnergyCost[lvl] = 0 THEN DefaultEffortEnergy ELSE EnergyCost[lvl]
  IN  CASE lvl \notin avail -> NotFound
        [] entry.valid ->
             IF entry.lat <= lreq /\ entry.eng * StepsPerUpdate <= ereq
             THEN Found("FoundCached", lvl) ELSE NotFound
        [] OTHER ->
             IF lat <= lreq /\ eng * StepsPerUpdate <= ereq
             THEN Found("FoundNotCached", lvl) ELSE NotFound

\* judge_implementation: one effort level against both requirements; the
\* lowest available level ignores the latency requirement (UINT32_MAX).
JudgeImplementation(lvl, avail, entry, lreq, ereq, isLowest) ==
  LET req == IF isLowest THEN UInt32Max ELSE lreq
      lat == IF LatencyCost[lvl] = 0 THEN DefaultEffortLatency ELSE LatencyCost[lvl]
      eng == IF EnergyCost[lvl] = 0 THEN DefaultEffortEnergy ELSE EnergyCost[lvl]
  IN  CASE lvl \notin avail -> NotFound
        [] entry.valid ->
             IF entry.lat <= req /\ entry.eng * StepsPerUpdate <= ereq
             THEN Found("FoundCached", lvl) ELSE NotFound
        [] OTHER ->
             IF lat <= req /\ eng * StepsPerUpdate <= ereq
             THEN Found("FoundNotCached", lvl) ELSE NotFound

\* The lowest of the Low/Medium/High levels a module offers (High if none).
LowestEffortLevel(avail) ==
  CASE "Low" \in avail -> "Low" [] "Medium" \in avail -> "Medium" [] OTHER -> "High"

(***************************************************************************)
(* get_best_effort_implementation_config: High first; Medium only if High  *)
(* exists and lreq < 3 s; Low only if High or Medium exists and lreq < 1 s.*)
(* entryOf maps each level to its cache entry for this batch.              *)
(***************************************************************************)
GetBestEffortImplementationConfig(avail, entryOf, lreq, ereq) ==
  LET lowest == LowestEffortLevel(avail)
      Try(l) == JudgeImplementation(l, avail, entryOf[l], lreq, ereq, lowest = l)
      considered ==
        <<"High">>
        \o (IF "High" \in avail /\ lreq < MaxLatencyMedium THEN <<"Medium">> ELSE <<>>)
        \o (IF ({"High", "Medium"} \cap avail # {}) /\ lreq < MaxLatencyLow
            THEN <<"Low">> ELSE <<>>)
      hits == {k \in DOMAIN considered : Try(considered[k]).res # "NotFound"}
  IN  IF "Default" \in avail THEN GetDefaultImplementation(entryOf["Default"], ereq)
      ELSE IF hits = {} THEN NotFound
      ELSE Try(considered[CHOOSE k \in hits : \A j \in hits : k <= j])

(***************************************************************************)
(* lowest_effort_heuristic: its source is not in the repository; the spec  *)
(* (4.5.1) gives it the same shape with High and Medium skipped: the       *)
(* lowest available level, with the latency requirement lifted.            *)
(***************************************************************************)
GetLowestEffortImplementationConfig(avail, entryOf, lreq, ereq) ==
  IF "Default" \in avail THEN GetDefaultImplementation(entryOf["Default"], ereq)
  ELSE LET l == LowestEffortLevel(avail)
       IN  JudgeImplementation(l, avail, entryOf[l], lreq, ereq, TRUE)

\* current_heuristic->heuristic_function
Select(heuristic, avail, entryOf, lreq, ereq) ==
  IF heuristic = "BEST"
  THEN GetBestEffortImplementationConfig(avail, entryOf, lreq, ereq)
  ELSE GetLowestEffortImplementationConfig(avail, entryOf, lreq, ereq)
=============================================================================

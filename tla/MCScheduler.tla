---------------------------- MODULE MCScheduler ----------------------------
(***************************************************************************)
(* Model-checking instance of Scheduler: three batches on two pipelines.   *)
(* Pipeline 1 is a Default-only module followed by a High/Low module,      *)
(* pipeline 2 a single High/Medium/Low module.  Deadlines 1, 2 and 4 s     *)
(* against a clock bounded by 5 s make the latency requirement cross both  *)
(* best-effort gates (3 s and 1 s) and go negative.  Energy is in units of *)
(* which High costs 2, scaled by 2 per update, against a margin of 4.      *)
(***************************************************************************)
EXTENDS Scheduler, TLC

CONSTANTS b1, b2, b3

MCBatches == {b1, b2, b3}
MCPipelineOf == (b1 :> 1 @@ b2 :> 2 @@ b3 :> 1)
MCDeadline == (b1 :> 1 @@ b2 :> 4 @@ b3 :> 2)
MCPipelines == (1 :> <<{"Default"}, {"High", "Low"}>> @@ 2 :> <<{"High", "Medium", "Low"}>>)
MCLatencyCost == [l \in Levels |-> CASE l = "Default" -> 0 [] l = "Low" -> 200
                                     [] l = "Medium" -> 800 [] OTHER -> 2500]
MCEnergyCost == [l \in Levels |-> CASE l = "Default" -> 0 [] l = "High" -> 2 [] OTHER -> 1]

\* Liveness instance: two batches, one per pipeline.
MCBatchesLive == {b1, b2}
=============================================================================

--------------------------- MODULE MCConfigCache ---------------------------
(* Two pipelines of three modules, two module configs, two batches.  *)
EXTENDS ConfigCache

CONSTANTS b1, b2

MCBatches == {b1, b2}
MCPipelineOf == [b \in MCBatches |-> IF b = b1 THEN 1 ELSE 2]

\* "A" and "B" are three modules over the two configs; "S" is one module.
MCPipelineDefs == {"A", "B", "S"}
MCDefModules == [d \in MCPipelineDefs |->
                   CASE d = "A" -> <<0, 1, 0>> [] d = "B" -> <<1, 0, 1>> [] d = "S" -> <<0>>]
MCModuleDefs == {"c1", "c2"}
MCNParams == [d \in MCModuleDefs |-> IF d = "c1" THEN 1 ELSE 2]

MCInitPipelineParam == [s \in 0..1 |-> "A"]
MCInitModuleParam == [m \in 0..1 |-> IF m = 0 THEN "c1" ELSE "c2"]

\* Writes of the parameter server per run.
WritesSameShape == {"B", "badProto"}
WritesShrink == {"S"}
WritesBrotli == {"badBrotli"}
ModuleWritesAll == {"c1", "c2", "badProto"}
=============================================================================

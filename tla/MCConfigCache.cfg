CONSTANTS
  NumPipelines = 2
  NumModules = 2
  PipelineDefs <- MCPipelineDefs
  DefModules <- MCDefModules
  ModuleDefs <- MCModuleDefs
  NParams <- MCNParams
  InitPipelineParam <- MCInitPipelineParam
  InitModuleParam <- MCInitModuleParam
  PipelineWrites <- WritesSameShape
  ModuleWrites <- ModuleWritesAll
  EmptyMessageDecodes = TRUE
  MallocFails = FALSE
  StorageModes = {"MMAP", "MEM"}
  StorageFails = FALSE
  b1 = b1
  b2 = b2
  NoBatch = NoBatch
  Batches <- MCBatches
  PipelineOf <- MCPipelineOf
  MaxParamWrites = 2
  MaxRestarts = 1
SPECIFICATION Spec
INVARIANT TypeOK UploadsImageData
CHECK_DEADLOCK FALSE

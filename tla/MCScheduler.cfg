CONSTANTS
  b1 = b1
  b2 = b2
  b3 = b3
  NoBatch = NoBatch
  Batches <- MCBatches
  PipelineOf <- MCPipelineOf
  Deadline <- MCDeadline
  Pipelines <- MCPipelines
  LatencyCost <- MCLatencyCost
  EnergyCost <- MCEnergyCost
  StepsPerUpdate = 2
  SafetyMargin = 4
  DefaultEffortLatency = 3
  DefaultEffortEnergy = 1
  MaxLatencyMedium = 3000
  MaxLatencyLow = 1000
  UInt32Max = 4294967
  MaxQueueSize = 3
  MaxPartialQueueSize = 1
  LowQueueDepthThreshold = 2
  MeasuredLatencies = {300, 2600}
  MinCap = 4
  MaxCap = 9
  InitBattery = 8
  GenPerStep = 2
  LoadPerStep = 1
  OrbitSteps = 4
  SunlitSteps = 2
  MaxTime = 5
SPECIFICATION Spec
INVARIANT TypeOK
INVARIANT BatchConservation
INVARIANT PartialBounded
INVARIANT ModulesRunInOrder
INVARIANT UploadOnceWhenComplete
INVARIANT BatteryWithinCaps

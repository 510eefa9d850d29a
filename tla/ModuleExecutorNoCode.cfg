CONSTANTS
  NumModules = 4
  ModuleCodes = {7, 42, 150}
  CustomBase = 200
  TimeoutCode = 101
  CrashCode = 102
  Behaviours = {"ok", "code", "timeout", "code_timeout", "nocode", "signal"}
SPECIFICATION Spec
PROPERTY ExecutePipelineReturns
CHECK_DEADLOCK FALSE

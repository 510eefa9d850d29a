CONSTANTS
  MinCap = 4
  MaxCap = 9
  GenPerStep = 2
  LoadPerStep = 1
  OrbitSteps = 4
  SunlitSteps = 2
  SafetyMargin = 6
  Loads = {2, 4}
  InitBattery = 8
  MaxAdmissions = 3
  MaxRunSteps = 2
SPECIFICATION Spec
INVARIANT TypeOK
PROPERTY LoadKeepsMinCap

CONSTANTS
  MinCap = 4
  MaxCap = 9
  GenPerStep = 2
  LoadPerStep = 1
  OrbitSteps = 4
  SunlitSteps = 2
  SafetyMargin = 4
  Loads = {2, 4}
  InitBattery = 8
  MaxAdmissions = 2
  MaxRunSteps = 2
SPECIFICATION Spec
PROPERTY BatteryRefinesAtomic

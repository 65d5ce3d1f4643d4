\* All backends with every fault.
SPECIFICATION Spec
CONSTANTS
  Backends = {"mac", "windows", "x11", "portal"}
  Faults = {"policy", "io"}
  MaxCount = 2
  DragSteps = 2
  MaxFlips = 2
CHECK_DEADLOCK FALSE
INVARIANTS
  TypeOK
  TruthfulOutcomes
  StopsSoon
  NothingStaysDown

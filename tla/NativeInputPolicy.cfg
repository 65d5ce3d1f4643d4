\* The policy changes while macOS delivers global input.
SPECIFICATION Spec
CONSTANTS
  Backends = {"mac"}
  Faults = {"policy"}
  MaxCount = 1
  DragSteps = 2
  MaxFlips = 1
CHECK_DEADLOCK FALSE
INVARIANTS
  RefusalsHaveNoEffect

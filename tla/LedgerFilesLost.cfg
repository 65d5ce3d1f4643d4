\* Two operations; a failed step, then power loss.
SPECIFICATION Spec
CONSTANTS
  Op = {a, b}
  Scenarios = {{"io", "power"}}
INVARIANTS
  DurableAtMostOnce

\* Keys for the focused element of an observation.
SPECIFICATION Spec
CONSTANTS
  t1 = t1
  t2 = t2
  Thread = {t1}
  Offered <- Keys
  Looks <- Undone
  MaxCalls = 2
  MaxChanges = 0
  MaxEvents = 2
CHECK_DEADLOCK FALSE
INVARIANTS
  RefusedWithReason

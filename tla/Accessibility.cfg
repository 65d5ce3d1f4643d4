\* On each platform three calls of two threads while the desktop changes or
\* Praefectus restarts once, or two calls while this happens twice.
SPECIFICATION Spec
CONSTANTS
  t1 = t1
  t2 = t2
  Thread = {t1, t2}
  Offered <- Working
  Looks <- Undone
  MaxCalls = 3
  MaxChanges = 2
  MaxEvents = 4
SYMMETRY Twins
CHECK_DEADLOCK FALSE
INVARIANTS
  TypeOK
  TruthfulOutcomes
  RefusedWithReason
PROPERTIES
  StaleIsNoticed
  SameBeforeAndAfter

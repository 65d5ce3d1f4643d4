\* Three calls of two threads, every operation, and a page that changes once.
\* Two observations in the hands of a reader, over three moments.
SPECIFICATION PageSpec
CONSTANTS
  t1 = t1
  t2 = t2
  Thread = {t1, t2}
  Ops = {"observe", "read", "invoke", "set_value", "scroll"}
  MaxCalls = 3
  MaxChanges = 1
  Id = {"a", "b", "c"}
  Tag = {"e0", "e1", "e2"}
  Fingerprint = {"p", "q"}
  Given <- Lists
  Age = 1
  MaxTime = 3
  MaxHanded = 2
SYMMETRY Twins
CHECK_DEADLOCK FALSE
INVARIANTS
  PageTypeOK
  TruthfulOutcomes
  EffectInNamedDocument
  OneDocument
  NobodyIsStuck
  OnlyForests
  FoundIsNamed
PROPERTY
  KeepsContract

\* Two processes share a ledger file and have no outcome ledger; I/O errors,
\* killed processes and power loss.
SPECIFICATION Spec
CONSTANTS
  t1 = t1
  t2 = t2
  host = host
  shared = shared
  None = None
  Thread = {t1, t2}
  Process = {t1, t2}
  ProcessOf <- SingleThreaded
  File = {shared}
  LedgerOf <- SharedFile
  Store = {shared}
  StoreOf <- SharedStore
  HostLedger = "null"
  Op = {a}
  Hash = {h1, h2}
  VerifyHash = {h1}
  GuardedHash = {}
  Faults = {"io", "kill", "power"}
SYMMETRY Twins
INVARIANTS
  TypeOK
  AtMostOncePerLedger
  DispatchIsClaimed
  TruthfulTerminals
  KnownStaysKnown
  NeverCorrupt

\* Two processes with a ledger file each share a durable outcome ledger that may
\* fail; processes are killed.
SPECIFICATION Spec
CONSTANTS
  t1 = t1
  t2 = t2
  host = host
  shared = shared
  None = None
  Thread = {t1, t2}
  Process = {t1, t2}
  ProcessOf <- SingleThreaded
  File = {t1, t2}
  LedgerOf <- OwnFile
  Store = {shared}
  StoreOf <- SharedStore
  HostLedger = "durable"
  Op = {a}
  Hash = {h1}
  VerifyHash = {}
  GuardedHash = {h1}
  Faults = {"host", "kill"}
SYMMETRY Twins
INVARIANTS
  AtMostOncePerKey
  HostAgrees

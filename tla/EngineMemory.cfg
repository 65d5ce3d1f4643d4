\* Two threads of one process share a ledger file and a MemoryOutcomeLedger; I/O
\* errors, and the process is killed; fair scheduling.
SPECIFICATION FairSpec
CONSTANTS
  t1 = t1
  t2 = t2
  host = host
  shared = shared
  None = None
  Thread = {t1, t2}
  Process = {host}
  ProcessOf <- TwoThreads
  File = {shared}
  LedgerOf <- SharedFile
  Store = {shared}
  StoreOf <- SharedStore
  HostLedger = "memory"
  Op = {a}
  Hash = {h1}
  VerifyHash = {}
  GuardedHash = {}
  Faults = {"io", "kill"}
PROPERTIES
  KeepsPromise
  ExecuteReturns

\* The ledgers: two operations; either I/O errors and killed processes while the
\* machine stays up, or power loss alone.  The other files: two processes, two
\* observations, every fault at any step.
SPECIFICATION FilesSpec
CONSTANTS
  Op = {a, b}
  Scenarios = {{"io", "kill"}, {"power"}}
  Process = {p, q}
  Observation = {x, y}
  System = {"unix", "unix_group", "windows"}
SYMMETRY Symmetry
INVARIANTS
  FilesTypeOK
  DurableAtMostOnce
  TrajectoryFollowsLedger
  ConfirmedLasts
  RefusedAfterCrash

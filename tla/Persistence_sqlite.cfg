SPECIFICATION Spec
CONSTANTS
  Oid = {i1}
  Setting <- Sqlite
  Raw = {r}
  Lvar = {}
  Deployer = {}
  Creator = {c}
  Destroyer = {}
  Enabler = {e}
  Saver = {s}
  Main = Main
  OneAdmin = TRUE
  MaxState = 4
  QueueSize = 2
  MaxBoots = 1
INVARIANTS
  ShutdownKeepsStates
\* The core is not started again.
CHECK_DEADLOCK FALSE

SPECIFICATION MCSpec
CONSTANTS
  Oid = {i1}
  Setting <- KeptSettings
  Raw = {r}
  Lvar = {v}
  Deployer = {d}
  Creator = {c}
  Destroyer = {x}
  Enabler = {e}
  Saver = {s}
  Main = Main
  OneAdmin = TRUE
  MaxState = 4
  QueueSize = 1
  MaxBoots = 2
  Nil = Nil
  Handler = {"h"}
  Caller = {"c1", "c2"}
  HandlerOps <- TwoKinds
  CallerOp = {"deploy", "action", "lvar_new", "write", "read"}
  Databases = {TRUE, FALSE}
  Manager = {"a1", "a2"}
  Loaded <- OldService
  Deployed <- NewService
  MaxStarts = 2
  MaxCalls = 2
  MaxFaults = 1
  SeqCaller = {"c1", "c2"}
  SeqUuid = {"u"}
  NoCaller = NoCaller
  Plans <- DelayThenTwo
  OnAbort = {"z"}
  MaxTerminates = 2
INVARIANTS
  ShutdownKeepsStates
  DestroyedLeavesNothing
  
  
  
  AbortFollowsFailure

  
\* The core is not started again for ever, bulk frames may end in a circular wait of all
\* tasks, and the calls of services and sequences are bounded.
CHECK_DEADLOCK FALSE

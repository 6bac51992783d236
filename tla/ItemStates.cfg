SPECIFICATION Spec
CONSTANTS
  Ref = {r1, r2}
  NoRef = NoRef
  Value <- Numbers
  MaxInRange = 1
  No = No
  Blank = Blank
  Handler = {"h"}
  Actor = {"a1", "a2"}
  LvarCaller = {"l1", "l2"}
  Deployer = {"d"}
  Announcer = {"n"}
  Setting <- AllSettings
\* The clock stops at its bound.
CHECK_DEADLOCK FALSE
INVARIANTS
  AnnouncedIsCurrent
  LogicApplied
PROPERTIES
  StatesGoForward

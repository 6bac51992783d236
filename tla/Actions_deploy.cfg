\* Two actions on one unit that is deployed anew, removed or replaced by a remote one
\* while they run; one call is cut off.
CONSTANTS
  a1 = a1
  a2 = a2
  u1 = u1
  Uuid <- TwoActions
  Oid <- OneUnit
  Unit <- OneUnit
  Remote <- OneUnit
  Reports <- SomeReports
  MaxDeploys = 2
  MaxAborts = 1
SYMMETRY Symmetry
SPECIFICATION Spec
INVARIANT TriggersFireOnce
INVARIANT TaskEndsFinished
INVARIANT ActCounts
INVARIANT LocalStateOnlyTerminates
PROPERTY StatusNeverGoesBack
\* Each uuid is used once.
CHECK_DEADLOCK FALSE

\* A state-only action on an item of a remote source.
CONSTANTS
  a1 = a1
  a2 = a2
  u1 = u1
  Uuid <- OneAction
  Oid <- OneUnit
  Unit <- OneUnit
  Remote <- OneUnit
  Reports <- FewReports
  MaxDeploys = 1
  MaxAborts = 0
SPECIFICATION Spec
INVARIANT StateOnlyTerminates
\* Each uuid is used once.
CHECK_DEADLOCK FALSE

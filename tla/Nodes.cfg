SPECIFICATION FairSpec
CONSTANTS
  Discovery = TRUE
  MaxChanges = 2
  MaxMail = 2
INVARIANTS
  TasksOfTable
PROPERTIES
  CoreKnowsNode
\* The service may be down for good.
CHECK_DEADLOCK FALSE

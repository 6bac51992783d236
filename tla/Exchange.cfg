SPECIFICATION MCSpec
CONSTANTS
  Ref = {r1, r2, r3}
  NoRef = NoRef
  NoItem = NoItem
  Meta = {m1}
  Full = {f1, f2}
  Quick = {}
  Events = {e}
  ForceAccept = FALSE
  MaxIeid = 4
  MaxNet = 3
  None = None
  CallId = {c1, c2}
  Acls <- ItemsThenNone
  Nodes <- SomeNodes
  MaxDisturbances = 1
  NoValue = NoValue
  User = {"t1", "t2", "t3"}
  Plans <- SomePlans
  Kinds <- SomeKinds
  Conn = {1, 2}
  RegisterCount = 5
  Bits = {0, 1}
  MaxLosses = 1
  Nobody = Nobody
  Client = {"t", "u", "r", "a", "b"}
  ClientKind <- KindOf
  Holding = 1
  MaxRequests = 2
  MaxWrites = 2
  MaxStarts = 2
  MaxFaults = 1
  NoData = NoData
  Level <- OnAndOff
  Rules <- ThreeRules
  MaxRuns = 1
  MaxCycleStarts = 2
INVARIANTS
  AnswersMatch
  
  
  ContextKept
  OneLoop
PROPERTIES
  Follows
  
  ReplicasCatchUp
  RequestsEnd
\* The messages, faults and requests are bounded: a part stops when they are used up.
CHECK_DEADLOCK FALSE

SPECIFICATION HistorySpec
CONSTANTS
  None = None
  Account = Account
  AclId = AclId
  Browser = Browser
  TokenWs = TokenWs
  KeyWs = KeyWs
INVARIANTS
  LimitHolds
\* The clock and the faults are bounded: the service stops when they are used up.
CHECK_DEADLOCK FALSE

SPECIFICATION MCSpec
CONSTANTS
  None = None
  Account = Account
  AclId = AclId
  Browser = Browser
  TokenWs = TokenWs
  KeyWs = KeyWs
INVARIANTS
  
  AccountsAgree
  RecordsKept
  PeriodsTrue
  
  OnceOnly
PROPERTIES
  ClientFollows
  EverythingServed
\* The calls, events and faults are bounded: a part stops when they are used up.
CHECK_DEADLOCK FALSE

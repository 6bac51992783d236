SPECIFICATION WriterSpec
CONSTANTS
  None = None
  Account = Account
  AclId = AclId
  Browser = Browser
  TokenWs = TokenWs
  KeyWs = KeyWs
PROPERTIES
  NewNameUsed
\* The events and faults are bounded: the service stops when they are used up.
CHECK_DEADLOCK FALSE

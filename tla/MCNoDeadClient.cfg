CONSTANTS
  c1 = c1
  c2 = c2
  Conn <- MCConn
  None = none
SPECIFICATION Spec
INVARIANTS NoDeadClient
CHECK_DEADLOCK FALSE

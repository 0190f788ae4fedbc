CONSTANTS
  c1 = c1
  c2 = c2
  Conn <- MCConn
  None = none
SPECIFICATION FairSpec
INVARIANTS TypeOK RefsExact OneSession AutosendIsLive
PROPERTIES LoginAnswered PlayerFreed
CHECK_DEADLOCK FALSE

\* A connection that the packet limit left without a read never ends, and then no
\* member of Conn is free for the port.
CHECK_DEADLOCK FALSE
SPECIFICATION FairSpec
CONSTANTS
  c1 = c1
  Conn = {c1}
  None = None
  MaxQueue = 3
  MaxChains = 2
INVARIANTS TypeOK Watched OneWrite NoOrphan RetryPending
PROPERTIES CloseEnds SilentIsClosed OutputIsSent

CONSTANTS
  e1 = e1
  q1 = q1
  r1 = r1
  sig1 = sig1
  sig2 = sig2
  Event <- NoneOf
  Query <- NoneOf
  Request <- NoneOf
  Sig <- OneSig
  Delay <- MCDelay
  IdRange = 2
  MaxTime = 1
  Kill = kill
  Stop = stop
  None = none
SPECIFICATION FairSpec
PROPERTIES ServerExits
CHECK_DEADLOCK FALSE

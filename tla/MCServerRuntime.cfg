CONSTANTS
  e1 = e1
  q1 = q1
  r1 = r1
  sig1 = sig1
  sig2 = sig2
  Event <- MCEvent
  Query <- MCQuery
  Request <- MCRequest
  Sig <- MCSig
  Delay <- MCDelay
  IdRange = 2
  MaxTime = 1
  Kill = kill
  Stop = stop
  None = none
SPECIFICATION DispatcherSpec
INVARIANTS NoEventAfterShutdown ExitIsClean
PROPERTIES DispatcherEnds
CHECK_DEADLOCK FALSE

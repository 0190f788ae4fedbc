CONSTANTS
  dispatcher = dispatcher
  io = io
  e1 = e1
  e2 = e2
  Caller <- MCCaller
  Event <- MCEvent
  Delay <- MCDelay
  IdRange = 3
  MaxTime = 3
  NoEvent = none
SPECIFICATION FairSpec
INVARIANTS TypeOK NoOversleep NeverEarly
PROPERTIES StopIsExact DueEventFires
CHECK_DEADLOCK FALSE

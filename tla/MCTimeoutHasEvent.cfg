CONSTANTS
  dispatcher = dispatcher
  io = io
  e1 = e1
  e2 = e2
  Caller <- MCCaller
  Event <- MCEvent
  Delay <- MCDelay
  IdRange = 3
  MaxTime = 3
  NoEvent = none
SPECIFICATION Spec
INVARIANTS TimeoutHasEvent
CHECK_DEADLOCK FALSE

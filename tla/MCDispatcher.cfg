CONSTANTS
  io = io
  sched = sched
  t1 = t1
  t2 = t2
  t3 = t3
  Thread <- MCThread
  Task <- MCTask
  Timed <- MCTimed
  Worker = worker
  Stop = stop
  NoTask = none
SPECIFICATION FairSpec
INVARIANTS NoLostWakeup OneOwner
PROPERTIES NoOvertaking AcceptedTaskRuns ImplementsExecutor
CHECK_DEADLOCK FALSE

CONSTANTS
  dispatcher = dispatcher
  io = io
  q1 = q1
  q2 = q2
  q3 = q3
  Thread <- MCThread
  Query <- MCQuery
  WithCallback <- MCWithCallback
  NoQuery = none
SPECIFICATION FairSpec
INVARIANTS ExecutedOnce CallbackAfterQuery
PROPERTIES OnlyInFlightOvertaken AcceptedQueryRuns
CHECK_DEADLOCK FALSE

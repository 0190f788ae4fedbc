------------------------- MODULE ServerRuntimeProofs -------------------------
(***************************************************************************)
(* The composition of the threads: each of the three queues behaves as its *)
(* component specification says, and after Game::shutdown no timed event   *)
(* is run, for any events, queries, requests and signals.  What is proved  *)
(* of the components then holds in the whole server: the proof modules are *)
(* instantiated as the components are, and the properties carried over.    *)
(***************************************************************************)
EXTENDS ServerRuntime, TLAPS

\* What is proved of the components.
DP == INSTANCE DispatcherProofs WITH
        Timed <- Request, Thread <- {Sched, Db, Io}, NoTask <- None,
        threadState <- dState, pc <- dpc, task <- dTask, doSignal <- dSignal, phase <- dPhase
SP == INSTANCE SchedulerProofs WITH
        Caller <- {Worker, Io}, NoEvent <- None, threadState <- sState, pc <- spc,
        task <- sTask, doSignal <- sSignal, halt <- sHalt, phase <- sPhase, shared <- sShared
BP == INSTANCE DatabaseTasksProofs WITH
        WithCallback <- Query, Thread <- {Worker}, NoQuery <- None,
        threadState <- bState, tasks <- queries, pc <- bpc, task <- bTask,
        doSignal <- bSignal, halt <- bHalt

\* The assumptions of the components hold of their constants here.
LEMMA ComponentAssumptions ==
  DP!DispatcherAssumption /\ SP!SchedulerAssumption /\ BP!DatabaseTasksAssumption
BY RuntimeAssumption
   DEF DP!DispatcherAssumption, SP!SchedulerAssumption, BP!DatabaseTasksAssumption,
       Task, Worker, Sched, Db, Io

-----------------------------------------------------------------------------
(* The inductive invariant                                                 *)

TaskObject == Task \union {Stop}

\* The dispatcher's list and task are made of task objects, each in one place.
ListSound ==
  /\ taskList \in Seq(TaskObject)
  /\ dTask \in TaskObject \union {None}
  /\ dPhase \in [TaskObject -> D!Phases]
  /\ D!OneOwner

\* What the scheduler is about to hand over is an event.
SchedulerSound ==
  /\ sSignal \subseteq {Worker, Io}
  /\ eventList \subseteq Event
  /\ spc = "firing" => sTask \in Event

\* Whose callback the database thread or flush() is about to hand over is a query.
DatabaseSound ==
  /\ bSignal \subseteq {Worker}
  /\ queries \in Seq(Query)
  /\ bHalt = "popping" => queries # <<>>
  /\ bpc \in {"taken", "executed"} => bTask \in Query

\* Every event of the list is in front of Game::shutdown.
EventsFirst ==
  \A i, j \in DOMAIN taskList : taskList[i] = Kill /\ taskList[j] \in Event => j < i

\* While Game::shutdown waits in a list that still accepts tasks, the signal's
\* task is on its way from queueing it to closing the list.
ClosesBehind ==
  dPhase[Kill] = "queued" /\ dState = "RUNNING" =>
    /\ dpc = "running" /\ dTask \in Sig
    /\ step \in {"stopScheduler", "stopDatabase", "stopDispatcher"}

\* When Game::shutdown runs the list is closed, and there are no events.
EventsOver ==
  dPhase[Kill] \in {"taken", "executed"} =>
    /\ dState # "RUNNING"
    /\ \A e \in Event : dPhase[e] \notin {"queued", "taken"}

Queue == ListSound /\ EventsFirst /\ EventsOver
Inv   == Queue /\ ClosesBehind /\ SchedulerSound /\ DatabaseSound

-----------------------------------------------------------------------------
(* Steps on the dispatcher's variables                                     *)

\* What has to be shown of a step that keeps ListSound.
LEMMA ListSoundFrom ==
  ASSUME taskList' \in Seq(TaskObject),
         dTask' \in TaskObject \union {None},
         dPhase' \in [TaskObject -> D!Phases],
         DP!NoDuplicates(taskList'),
         \A t \in TaskObject : dPhase'[t] = "queued" <=> t \in DP!ElementsOf(taskList'),
         \A t \in TaskObject : dPhase'[t] = "taken" <=> t = dTask',
         dpc' \in {"taken", "running"} <=> dTask' # None
  PROVE  ListSound'
BY DEF ListSound, D!OneOwner, D!AnyTask, D!Queued, TaskObject, Task,
       DP!NoDuplicates, DP!ElementsOf

LEMMA ListFacts ==
  ASSUME ListSound
  PROVE  /\ taskList \in Seq(TaskObject) /\ dTask \in TaskObject \union {None}
         /\ dPhase \in [TaskObject -> D!Phases]
         /\ DP!NoDuplicates(taskList)
         /\ \A t \in TaskObject : dPhase[t] = "queued" <=> t \in DP!ElementsOf(taskList)
         /\ \A t \in TaskObject : dPhase[t] = "taken" <=> t = dTask
         /\ dpc \in {"taken", "running"} <=> dTask # None
         /\ Kill \in TaskObject /\ Stop \in TaskObject /\ Task \subseteq TaskObject
         /\ Event \subseteq TaskObject /\ Kill \notin Event /\ Stop \notin Event
         /\ Stop # Kill /\ None \notin TaskObject
BY RuntimeAssumption
   DEF ListSound, D!OneOwner, D!AnyTask, D!Queued, TaskObject, Task, DP!NoDuplicates, DP!ElementsOf

\* Where a task goes in the list, for EventsFirst.
LEMMA KillAndEvents ==
  ASSUME ListSound
  PROVE  /\ \A x : /\ taskList' = Append(taskList, x) /\ x \notin Event
                   /\ EventsFirst
                   => EventsFirst'
         /\ \A x : /\ taskList' = <<x>> \o taskList /\ x # Kill
                   /\ EventsFirst
                   => EventsFirst'
         /\ taskList # <<>> /\ taskList' = Tail(taskList) /\ EventsFirst => EventsFirst'
<1>1. taskList \in Seq(TaskObject)
  BY DEF ListSound
<1>2. ASSUME NEW x, taskList' = Append(taskList, x), x \notin Event, EventsFirst
      PROVE  EventsFirst'
  <2>1. /\ Len(taskList) \in Nat
        /\ DOMAIN taskList = 1 .. Len(taskList)
        /\ DOMAIN taskList' = 1 .. Len(taskList) + 1
        /\ \A i \in 1 .. Len(taskList) + 1 :
             taskList'[i] = IF i = Len(taskList) + 1 THEN x ELSE taskList[i]
    <3>1. taskList \in Seq(TaskObject \union {x}) /\ x \in TaskObject \union {x}
      BY <1>1
    <3> QED BY <3>1, <1>2
  <2> QED BY <2>1, <1>2 DEF EventsFirst
<1>3. ASSUME NEW x, taskList' = <<x>> \o taskList, x # Kill, EventsFirst
      PROVE  EventsFirst'
  <2>1. /\ Len(taskList) \in Nat
        /\ DOMAIN taskList = 1 .. Len(taskList)
        /\ DOMAIN taskList' = 1 .. Len(taskList) + 1
        /\ \A i \in 1 .. Len(taskList) + 1 :
             taskList'[i] = IF i = 1 THEN x ELSE taskList[i - 1]
    <3>1. taskList \in Seq(TaskObject \union {x}) /\ x \in TaskObject \union {x}
      BY <1>1
    <3> QED BY <3>1, <1>3
  <2> SUFFICES ASSUME NEW i \in DOMAIN taskList', NEW j \in DOMAIN taskList',
                      taskList'[i] = Kill, taskList'[j] \in Event
               PROVE  j < i
    BY DEF EventsFirst
  <2>2. i # 1 /\ i - 1 \in DOMAIN taskList /\ taskList[i - 1] = Kill
    BY <2>1, <1>3
  <2>3. CASE j = 1
    BY <2>1, <2>2, <2>3
  <2>4. CASE j # 1
    <3>1. j - 1 \in DOMAIN taskList /\ taskList[j - 1] \in Event
      BY <2>1, <2>4
    <3> QED BY <2>1, <2>2, <3>1, <1>3 DEF EventsFirst
  <2> QED BY <2>3, <2>4
<1>4. ASSUME taskList # <<>>, taskList' = Tail(taskList), EventsFirst
      PROVE  EventsFirst'
  <2>1. /\ Len(taskList) \in Nat
        /\ DOMAIN taskList = 1 .. Len(taskList)
        /\ DOMAIN taskList' = 1 .. Len(taskList) - 1
        /\ \A i \in 1 .. Len(taskList) - 1 : taskList'[i] = taskList[i + 1]
    BY <1>1, <1>4
  <2> SUFFICES ASSUME NEW i \in DOMAIN taskList', NEW j \in DOMAIN taskList',
                      taskList'[i] = Kill, taskList'[j] \in Event
               PROVE  j < i
    BY DEF EventsFirst
  <2>2. /\ i + 1 \in DOMAIN taskList /\ taskList[i + 1] = Kill
        /\ j + 1 \in DOMAIN taskList /\ taskList[j + 1] \in Event
    BY <2>1
  <2> QED BY <2>1, <2>2, <1>4 DEF EventsFirst
<1> QED BY <1>2, <1>3, <1>4

\* addTask: events go in front, everything else to the back.
LEMMA AddKeeps ==
  ASSUME Queue, NEW c, NEW t \in Task, NEW pushFront \in BOOLEAN, D!AddTask(c, t, pushFront),
         pushFront <=> t \in Event
  PROVE  Queue'
<1>1. t \in TaskObject /\ t \notin DP!ElementsOf(taskList) /\ t # dTask /\ dPhase[t] = "created"
  BY ListFacts DEF Queue, D!AddTask
<1>2. UNCHANGED <<dpc, dTask, dState>>
  BY DEF D!AddTask
<1>3. CASE dState = "RUNNING"
  <2>1. /\ taskList' = IF pushFront THEN <<t>> \o taskList ELSE Append(taskList, t)
        /\ dPhase' = [dPhase EXCEPT ![t] = "queued"]
    BY <1>3 DEF D!AddTask, D!Insert
  <2>2. /\ taskList' \in Seq(TaskObject) /\ DP!NoDuplicates(taskList')
        /\ DP!ElementsOf(taskList') = DP!ElementsOf(taskList) \union {t}
    BY <2>1, <1>1, ListFacts, ComponentAssumptions, DP!PushBack, DP!PushFront DEF Queue
  <2>3. ListSound'
    BY <1>1, <1>2, <2>1, <2>2, ListFacts, ListSoundFrom DEF Queue, D!Phases
  <2>4. EventsFirst'
    <3>1. t \in Event => t # Kill
      BY RuntimeAssumption
    <3> QED BY <2>1, <3>1, KillAndEvents DEF Queue
  <2>5. EventsOver'
    BY <1>1, <1>2, <1>3, <2>1, ListFacts DEF Queue, EventsOver
  <2> QED BY <2>3, <2>4, <2>5 DEF Queue
<1>4. CASE dState # "RUNNING"
  <2>1. taskList' = taskList /\ dPhase' = [dPhase EXCEPT ![t] = "dropped"]
    BY <1>4 DEF D!AddTask
  <2>2. ListSound'
    BY <1>1, <1>2, <2>1, ListFacts, ListSoundFrom DEF Queue, D!Phases
  <2>3. EventsFirst'
    BY <2>1 DEF Queue, EventsFirst
  <2>4. EventsOver'
    BY <1>1, <1>2, <2>1, ListFacts DEF Queue, EventsOver
  <2> QED BY <2>2, <2>3, <2>4 DEF Queue
<1> QED BY <1>3, <1>4

\* pop_front: Game::shutdown is taken only when no event is left before it, and
\* the list has been closed.
LEMMA TakeKeeps ==
  ASSUME Queue, ClosesBehind, D!TakeFirst, dpc \in {"lock", "woken"}
  PROVE  Queue'
<1> DEFINE t == Head(taskList)
<1>1. /\ t \in TaskObject /\ t \in DP!ElementsOf(taskList)
      /\ Tail(taskList) \in Seq(TaskObject)
      /\ DP!NoDuplicates(Tail(taskList))
      /\ DP!ElementsOf(Tail(taskList)) = DP!ElementsOf(taskList) \ {t}
  BY ListFacts, ComponentAssumptions, DP!PopFront DEF Queue, D!TakeFirst
<1>2. /\ taskList' = Tail(taskList) /\ dTask' = t /\ dpc' = "taken" /\ dState' = dState
      /\ dPhase' = [dPhase EXCEPT ![t] = "taken"]
      /\ taskList # <<>> /\ t = taskList[1] /\ 1 \in DOMAIN taskList
  BY ListFacts DEF Queue, D!TakeFirst
<1>3. dTask = None
  BY ListFacts DEF Queue
<1> HIDE DEF t
<1>4. ListSound'
  BY <1>1, <1>2, <1>3, ListFacts, ListSoundFrom DEF Queue, D!Phases
<1>5. EventsFirst'
  BY <1>2, KillAndEvents DEF Queue
<1>6. EventsOver'
  <2>1. CASE t = Kill
    <3>1. dPhase[Kill] = "queued" /\ dState # "RUNNING"
      BY <1>1, <2>1, ListFacts DEF Queue, ClosesBehind
    <3>2. ASSUME NEW e \in Event  PROVE dPhase[e] # "queued"
      <4>1. ASSUME NEW j \in DOMAIN taskList, taskList[j] = e  PROVE FALSE
        <5>1. j < 1
          BY <1>2, <2>1, <4>1 DEF Queue, EventsFirst
        <5>2. j \in 1 .. Len(taskList)
          BY ListFacts DEF Queue
        <5> QED BY <5>1, <5>2
      <4> QED BY <4>1, ListFacts DEF Queue, DP!ElementsOf
    <3>3. \A e \in Event : dPhase[e] # "taken"
      BY <1>3, ListFacts DEF Queue
    <3> QED BY <1>1, <1>2, <2>1, <3>1, <3>2, <3>3, ListFacts DEF Queue, EventsOver
  <2>2. CASE t # Kill
    BY <1>1, <1>2, <2>2, ListFacts DEF Queue, EventsOver
  <2> QED BY <2>1, <2>2
<1> QED BY <1>4, <1>5, <1>6 DEF Queue

\* The other steps of threadMain.
LEMMA ThreadKeeps ==
  ASSUME Queue, ClosesBehind,
         D!TestState \/ D!LockList \/ D!Wakeup \/ D!Expire \/ D!Begin \/ D!Finish
  PROVE  Queue'
<1>1. ASSUME taskList' = taskList, dState' = dState, dPhase' = dPhase, dTask' = dTask,
             dpc' \in {"taken", "running"} <=> dpc \in {"taken", "running"}
      PROVE  Queue'
  BY <1>1, ListFacts, ListSoundFrom DEF Queue, EventsFirst, EventsOver
<1>2. CASE D!TestState
  BY <1>1, <1>2 DEF D!TestState
<1>3. CASE D!LockList
  BY <1>1, <1>3, TakeKeeps DEF D!LockList, D!WaitForSignal
<1>4. CASE D!Wakeup
  BY <1>1, <1>4, TakeKeeps DEF D!Wakeup
<1>5. CASE D!Begin
  BY <1>1, <1>5 DEF D!Begin
<1>6. CASE D!Expire \/ D!Finish
  <2>1. /\ taskList' = taskList /\ dTask' = None /\ dpc' = "test"
        /\ dpc \in {"taken", "running"}
        /\ dState' = IF dTask = Stop /\ dpc = "running" THEN "TERMINATED" ELSE dState
        /\ dTask = Kill => dpc = "running"
        /\ \/ dPhase' = [dPhase EXCEPT ![dTask] = "executed"]
           \/ dPhase' = [dPhase EXCEPT ![dTask] = "expired"]
    BY <1>6, RuntimeAssumption DEF D!Expire, D!Finish
  <2>2. dTask \in TaskObject /\ dTask \notin DP!ElementsOf(taskList)
    BY <2>1, ListFacts DEF Queue
  <2>3. ListSound'
    BY <2>1, <2>2, ListFacts, ListSoundFrom DEF Queue, D!Phases
  <2>4. EventsFirst'
    BY <2>1 DEF Queue, EventsFirst
  <2>5. EventsOver'
    BY <2>1, <2>2, ListFacts DEF Queue, EventsOver
  <2> QED BY <2>3, <2>4, <2>5 DEF Queue
<1> QED BY <1>2, <1>3, <1>4, <1>5, <1>6

\* Late signals, spurious wakeups and the end of the dispatcher.
LEMMA OthersKeep ==
  ASSUME Queue, NEW c,
         D!Signal(c) \/ D!SpuriousWakeup \/ D!Close \/ D!Shutdown(c) \/ UNCHANGED dVars
  PROVE  Queue'
<1>1. ASSUME taskList' = taskList, dState' = dState \/ dState' # "RUNNING",
             dPhase' = dPhase, dTask' = dTask,
             dpc' \in {"taken", "running"} <=> dpc \in {"taken", "running"}
      PROVE  Queue'
  BY <1>1, ListFacts, ListSoundFrom DEF Queue, EventsFirst, EventsOver
<1>2. CASE D!Signal(c) \/ D!SpuriousWakeup \/ D!Close \/ UNCHANGED dVars
  BY <1>1, <1>2 DEF D!Signal, D!NotifyOne, D!SpuriousWakeup, D!Close, dVars
<1>3. CASE D!Shutdown(c)
  <2>1. /\ taskList' = Append(taskList, Stop) /\ dTask' = dTask /\ dState' = dState
        /\ dPhase[Stop] = "created" /\ dPhase' = [dPhase EXCEPT ![Stop] = "queued"]
        /\ dpc' \in {"taken", "running"} <=> dpc \in {"taken", "running"}
    BY <1>3 DEF D!Shutdown, D!StopLast, D!NotifyOne
  <2>2. Stop \notin DP!ElementsOf(taskList) /\ Stop # dTask
    BY <2>1, ListFacts DEF Queue
  <2>3. /\ taskList' \in Seq(TaskObject) /\ DP!NoDuplicates(taskList')
        /\ DP!ElementsOf(taskList') = DP!ElementsOf(taskList) \union {Stop}
    BY <2>1, <2>2, ListFacts, ComponentAssumptions, DP!PushBack DEF Queue
  <2>4. ListSound'
    BY <2>1, <2>2, <2>3, ListFacts, ListSoundFrom DEF Queue, D!Phases
  <2>5. EventsFirst'
    BY <2>1, ListFacts, KillAndEvents DEF Queue
  <2>6. EventsOver'
    BY <2>1, ListFacts DEF Queue, EventsOver
  <2> QED BY <2>4, <2>5, <2>6 DEF Queue
<1> QED BY <1>2, <1>3

-----------------------------------------------------------------------------
(* The three components                                                    *)

\* Every step of the server is one of the scheduler's, or leaves it alone.
LEMMA SchedulerStepOf ==
  ASSUME SchedulerSound, [Next]_vars
  PROVE  [S!Next]_(S!vars)
<1>1. CASE DispatcherStep \/ CallDatabase \/ DatabaseStep \/ PostCallback \/ Handler \/ Die
           \/ Join \/ SetGameState \/ ShutdownDatabase \/ ShutdownDispatcher \/ StopServices
  BY <1>1 DEF DispatcherStep, CallDatabase, DatabaseStep, PostCallback, Handler, Die, Join,
              SetGameState, ShutdownDatabase, ShutdownDispatcher, StopServices, sVars, S!vars
<1>2. CASE CreateEvent
  BY <1>2 DEF CreateEvent, S!Next
<1>3. CASE CallScheduler
  BY <1>3 DEF CallScheduler, S!Next
<1>4. CASE SchedulerStep \/ HandOver
  BY <1>4 DEF SchedulerStep, HandOver, S!Next, S!ThreadMain
<1>5. ASSUME NEW c \in {Worker, Sched, Db, Io}, Notify(c)
      PROVE  [S!Next]_(S!vars)
  BY <1>5 DEF Notify, S!Next, S!Signal, S!vars, sVars, SchedulerSound
<1>6. CASE Tick \/ SpuriousWakeup
  BY <1>6 DEF Tick, SpuriousWakeup, S!Next, S!vars, sVars
<1>7. CASE StopThreads
  BY <1>7 DEF StopThreads, S!Next, S!vars, sVars
<1>8. CASE ShutdownScheduler
  BY <1>8 DEF ShutdownScheduler, S!Next
<1>9. CASE UNCHANGED vars
  BY <1>9 DEF vars, sVars, S!vars
<1> QED BY <1>1, <1>2, <1>3, <1>4, <1>5, <1>6, <1>7, <1>8, <1>9 DEF Next, Shutdown

LEMMA SchedulerKeeps ==
  ASSUME SchedulerSound, [S!Next]_(S!vars)
  PROVE  SchedulerSound'
<1>1. ASSUME NEW c \in {Worker, Io}, NEW e \in Event, S!AddEvent(c, e)  PROVE SchedulerSound'
  BY <1>1 DEF SchedulerSound, S!AddEvent
<1>2. CASE S!ThreadMain
  <2>1. CASE S!PopTop
    BY <2>1 DEF SchedulerSound, S!PopTop, S!Tops
  <2>2. CASE ~S!PopTop
    BY <1>2, <2>2 DEF SchedulerSound, S!ThreadMain, S!Step, S!TestState, S!WaitForSignal,
       S!WaitUntilTop, S!WaitTimeout, S!NoTimeout, S!TimeoutOnEmpty, S!HandOver
  <2> QED BY <2>1, <2>2
<1>3. ASSUME NEW e \in Event, NEW d \in Delay, S!Create(e, d) PROVE SchedulerSound'
  BY <1>3 DEF SchedulerSound, S!Create
<1>4. ASSUME NEW c \in {Worker, Io}, S!Signal(c) PROVE SchedulerSound'
  BY <1>4 DEF SchedulerSound, S!Signal, S!NotifyOne
<1>5. ASSUME NEW e \in Event, S!StopEvent(e) \/ S!Forget(e) PROVE SchedulerSound'
  BY <1>5 DEF SchedulerSound, S!StopEvent, S!Forget
<1>6. CASE S!Close \/ S!Tick \/ UNCHANGED S!vars
  BY <1>6 DEF SchedulerSound, S!Close, S!Tick, S!vars
<1>7. CASE S!Shutdown
  BY <1>7 DEF SchedulerSound, S!Shutdown, S!ShutdownFlag, S!ShutdownClear, S!ShutdownSignal, S!NotifyOne
<1>8. CASE S!SpuriousWakeup
  BY <1>8 DEF SchedulerSound, S!SpuriousWakeup, S!Step
<1> QED BY <1>1, <1>2, <1>3, <1>4, <1>5, <1>6, <1>7, <1>8 DEF S!Next

LEMMA DatabaseStepOf ==
  ASSUME DatabaseSound, [Next]_vars
  PROVE  [B!Next]_(B!vars)
<1>1. CASE DispatcherStep \/ CreateEvent \/ CallScheduler \/ SchedulerStep \/ HandOver \/ Handler
           \/ Tick \/ Die \/ Join \/ SetGameState \/ ShutdownScheduler \/ ShutdownDispatcher
           \/ StopServices
  BY <1>1 DEF DispatcherStep, CreateEvent, CallScheduler, SchedulerStep, HandOver, Handler,
              Tick, Die, Join, SetGameState, ShutdownScheduler, ShutdownDispatcher,
              StopServices, bVars, B!vars
<1>2. CASE CallDatabase
  BY <1>2 DEF CallDatabase, B!Next
<1>3. CASE DatabaseStep \/ PostCallback
  BY <1>3 DEF DatabaseStep, PostCallback, B!Next, B!ThreadMain
<1>4. ASSUME NEW c \in {Worker, Sched, Db, Io}, Notify(c)
      PROVE  [B!Next]_(B!vars)
  BY <1>4 DEF Notify, B!Next, B!Signal, B!vars, bVars, DatabaseSound
<1>5. CASE SpuriousWakeup
  BY <1>5 DEF SpuriousWakeup, B!Next, B!vars, bVars
<1>6. CASE StopThreads
  BY <1>6 DEF StopThreads, B!Next, B!vars, bVars
<1>7. CASE ShutdownDatabase
  BY <1>7 DEF ShutdownDatabase, B!Next, B!FinishShutdown
<1>8. CASE UNCHANGED vars
  BY <1>8 DEF vars, bVars, B!vars
<1> QED BY <1>1, <1>2, <1>3, <1>4, <1>5, <1>6, <1>7, <1>8 DEF Next, Shutdown

LEMMA DatabaseKeeps ==
  ASSUME DatabaseSound, [B!Next]_(B!vars)
  PROVE  DatabaseSound'
<1>1. ASSUME NEW c \in {Worker}, NEW q \in Query, B!AddTask(c, q)  PROVE DatabaseSound'
  <2>1. bHalt # "popping" /\ UNCHANGED <<bHalt, bpc, bTask>>
    BY <1>1 DEF B!AddTask, B!LockFree
  <2>2. bSignal' \subseteq {Worker}
    BY <1>1 DEF DatabaseSound, B!AddTask
  <2>3. queries' \in {queries, Append(queries, q)}
    BY <1>1 DEF B!AddTask
  <2>4. queries' \in Seq(Query)
    BY <2>3 DEF DatabaseSound
  <2> QED BY <2>1, <2>2, <2>4 DEF DatabaseSound
<1>2. ASSUME NEW from, B!TakeFirst(from)  PROVE DatabaseSound'
  BY <1>2 DEF DatabaseSound, B!TakeFirst, B!LockFree, B!Step
<1>3. ASSUME NEW from, B!FindNone(from, "waiting") \/ B!FindNone(from, "test")
      PROVE  DatabaseSound'
  BY <1>3 DEF DatabaseSound, B!FindNone, B!Step
<1>4. CASE B!TestState \/ B!RunQuery \/ B!RunCallback \/ B!SpuriousWakeup
  BY <1>4 DEF DatabaseSound, B!TestState, B!RunQuery, B!RunCallback, B!SpuriousWakeup, B!Step
<1>5. ASSUME NEW c \in {Worker}, B!Signal(c)  PROVE DatabaseSound'
  BY <1>5 DEF DatabaseSound, B!Signal, B!NotifyOne
<1>6. CASE B!Close \/ B!ShutdownLock \/ UNCHANGED B!vars
  BY <1>6 DEF DatabaseSound, B!Close, B!ShutdownLock, B!vars
<1>7. CASE B!FinishShutdown
  BY <1>7 DEF DatabaseSound, B!FinishShutdown, B!FlushFront, B!FlushPop, B!ShutdownUnlock,
              B!ShutdownSignal, B!NotifyOne
<1> QED BY <1>1, <1>2, <1>3, <1>4, <1>5, <1>6, <1>7
        DEF B!Next, B!ThreadMain, B!LockTasks, B!Wakeup

-----------------------------------------------------------------------------
(* Steps of the composition on the dispatcher                              *)

\* The dispatcher's steps, with who closes it and who ends it.
DispatcherOperation ==
  \/ \E c \in D!Caller, t \in Task, pushFront \in BOOLEAN : D!AddTask(c, t, pushFront)
  \/ \E c \in D!Caller : D!Signal(c)
  \/ D!Shutdown(Worker) /\ dTask = Kill
  \/ D!Close /\ dTask \in Sig
  \/ D!ThreadMain \/ D!SpuriousWakeup \/ UNCHANGED dVars

\* Whatever happens, the dispatcher takes a step of its own.
LEMMA DispatcherStepOf ==
  ASSUME SchedulerSound, DatabaseSound, [Next]_vars
  PROVE  DispatcherOperation
<1>1. CASE CreateEvent \/ CallScheduler \/ CallDatabase \/ SchedulerStep \/ DatabaseStep \/ Tick
           \/ Die \/ Join \/ ShutdownScheduler \/ StopServices
  BY <1>1 DEF CreateEvent, CallScheduler, CallDatabase, SchedulerStep, DatabaseStep, Tick,
              Die, Join, ShutdownScheduler, StopServices, DispatcherOperation
<1>2. CASE DispatcherStep
  BY <1>2 DEF DispatcherStep, DispatcherOperation, D!ThreadMain
<1>3. CASE HandOver
  <2>1. sTask \in Task /\ Sched \in D!Caller
    BY <1>3 DEF HandOver, S!HandOver, S!Step, SchedulerSound, Task, D!Caller
  <2> QED BY <1>3, <2>1 DEF HandOver, DispatcherOperation
<1>4. CASE PostCallback
  <2>1. bTask \in Task /\ Db \in D!Caller
    BY <1>4 DEF PostCallback, B!RunCallback, B!Step, DatabaseSound, Task, D!Caller
  <2> QED BY <1>4, <2>1 DEF PostCallback, DispatcherOperation
<1>5. ASSUME NEW c \in {Worker, Sched, Db, Io}, Notify(c)
      PROVE  DispatcherOperation
  <2>1. c \in D!Caller
    BY DEF D!Caller
  <2> QED BY <1>5, <2>1 DEF Notify, DispatcherOperation
<1>6. CASE SpuriousWakeup
  BY <1>6 DEF SpuriousWakeup, DispatcherOperation
<1>7. CASE Handler
  <2>1. PICK t \in Request \union Sig : D!AddTask(Io, t, FALSE)
    BY <1>7 DEF Handler
  <2>2. t \in Task /\ Io \in D!Caller
    BY DEF Task, D!Caller
  <2> QED BY <2>1, <2>2 DEF DispatcherOperation
<1>8. CASE SetGameState
  <2>1. Kill \in Task /\ Worker \in D!Caller
    BY DEF Task, D!Caller
  <2> QED BY <1>8, <2>1 DEF SetGameState, SetShutdown, AlreadyShutdown, DispatcherOperation
<1>9. CASE StopThreads
  BY <1>9 DEF StopThreads, InBody, DispatcherOperation
<1>10. CASE ShutdownDatabase
  <2>1. CASE UNCHANGED dVars
    BY <2>1 DEF DispatcherOperation
  <2>2. CASE B!FlushPop /\ D!AddTask(Worker, Head(queries), FALSE)
    <3>1. Head(queries) \in Task /\ Worker \in D!Caller
      BY <2>2 DEF B!FlushPop, DatabaseSound, Task, D!Caller
    <3> QED BY <2>2, <3>1 DEF DispatcherOperation
  <2> QED BY <1>10, <2>1, <2>2 DEF ShutdownDatabase
<1>11. CASE ShutdownDispatcher
  BY <1>11 DEF ShutdownDispatcher, InBody, DispatcherOperation
<1>12. CASE UNCHANGED vars
  BY <1>12 DEF vars, DispatcherOperation
<1> QED BY <1>1, <1>2, <1>3, <1>4, <1>5, <1>6, <1>7, <1>8, <1>9, <1>10, <1>11, <1>12
        DEF Next, Shutdown

\* Every call of a thread queues events in front and all else at the back, so Queue
\* holds on.
LEMMA QueueKeeps ==
  ASSUME Inv, [Next]_vars
  PROVE  Queue'
<1>a. ASSUME NEW c, NEW t \in Task \ Event, D!AddTask(c, t, FALSE)  PROVE Queue'
  BY <1>a, AddKeeps DEF Inv
<1>b. ASSUME UNCHANGED dVars  PROVE Queue'
  BY <1>b, OthersKeep DEF Inv
<1>1. CASE CreateEvent \/ CallScheduler \/ CallDatabase \/ SchedulerStep \/ DatabaseStep \/ Tick
           \/ Die \/ Join \/ ShutdownScheduler \/ StopServices
  <2>1. UNCHANGED dVars
    BY <1>1 DEF CreateEvent, CallScheduler, CallDatabase, SchedulerStep, DatabaseStep, Tick,
                Die, Join, ShutdownScheduler, StopServices
  <2> QED BY <2>1, <1>b
<1>2. CASE DispatcherStep
  BY <1>2, ThreadKeeps DEF DispatcherStep, Inv
<1>3. CASE HandOver
  <2>1. sTask \in Event
    BY <1>3 DEF HandOver, S!HandOver, S!Step, Inv, SchedulerSound
  <2>2. sTask \in Task /\ D!AddTask(Sched, sTask, TRUE)
    BY <1>3, <2>1 DEF HandOver, Task
  <2> QED BY <2>1, <2>2, AddKeeps DEF Inv
<1>4. CASE PostCallback
  <2>1. bTask \in Task \ Event
    BY <1>4, RuntimeAssumption DEF PostCallback, B!RunCallback, B!Step, Inv, DatabaseSound, Task
  <2> QED BY <1>4, <2>1, <1>a DEF PostCallback
<1>5. ASSUME NEW c \in {Worker, Sched, Db, Io}, Notify(c)  PROVE Queue'
  BY <1>5, <1>b, OthersKeep DEF Notify, Inv
<1>6. CASE SpuriousWakeup
  BY <1>6, <1>b, OthersKeep DEF SpuriousWakeup, Inv
<1>7. CASE Handler
  <2>1. PICK t \in Request \union Sig : D!AddTask(Io, t, FALSE)
    BY <1>7 DEF Handler
  <2>2. t \in Task \ Event
    BY RuntimeAssumption DEF Task
  <2> QED BY <2>1, <2>2, <1>a
<1>8. CASE SetGameState
  <2>1. Kill \in Task \ Event
    BY RuntimeAssumption DEF Task
  <2>2. D!AddTask(Worker, Kill, FALSE) \/ UNCHANGED dVars
    BY <1>8 DEF SetGameState, SetShutdown, AlreadyShutdown
  <2> QED BY <2>1, <2>2, <1>a, <1>b
<1>9. CASE StopThreads
  <2>1. D!Close \/ UNCHANGED dVars
    BY <1>9 DEF StopThreads
  <2> QED BY <2>1, <1>b, OthersKeep DEF Inv
<1>10. CASE ShutdownDatabase
  <2>1. CASE B!FlushPop /\ D!AddTask(Worker, Head(queries), FALSE)
    <3>1. Head(queries) \in Query
      BY <2>1 DEF B!FlushPop, Inv, DatabaseSound
    <3>2. Head(queries) \in Task \ Event
      BY <3>1, RuntimeAssumption DEF Task
    <3> QED BY <2>1, <3>2, <1>a
  <2> QED BY <1>10, <2>1, <1>b DEF ShutdownDatabase
<1>11. CASE ShutdownDispatcher
  BY <1>11, OthersKeep DEF ShutdownDispatcher, Inv
<1>12. CASE UNCHANGED vars
  BY <1>12, <1>b DEF vars
<1> QED BY <1>1, <1>2, <1>3, <1>4, <1>5, <1>6, <1>7, <1>8, <1>9, <1>10, <1>11, <1>12
        DEF Next, Shutdown

\* The body of a signal's task goes on until it has closed the list it queued
\* Game::shutdown into.
LEMMA ClosesBehindKeeps ==
  ASSUME Inv, [Next]_vars
  PROVE  ClosesBehind'
<1> SUFFICES ASSUME dPhase'[Kill] = "queued", dState' = "RUNNING"
             PROVE  /\ dpc' = "running" /\ dTask' \in Sig
                    /\ step' \in {"stopScheduler", "stopDatabase", "stopDispatcher"}
  BY DEF ClosesBehind
<1> DEFINE Goal == /\ dpc' = "running" /\ dTask' \in Sig
                   /\ step' \in {"stopScheduler", "stopDatabase", "stopDispatcher"}
<1> SUFFICES Goal
  OBVIOUS
<1>f. /\ dPhase \in [TaskObject -> D!Phases] /\ Kill \in TaskObject
      /\ dTask = Kill => dPhase[Kill] = "taken"
  BY ListFacts DEF Inv, Queue
<1>a. ASSUME dPhase'[Kill] = dPhase[Kill], dState' = dState, dTask' = dTask, step' = step,
             dpc = "running" => dpc' = dpc
      PROVE  Goal
  BY <1>a DEF Inv, ClosesBehind
<1>b. ASSUME NEW c, NEW t \in Task \ {Kill}, NEW f, D!AddTask(c, t, f)
      PROVE  dPhase'[Kill] = dPhase[Kill] /\ UNCHANGED <<dState, dTask, dpc>>
  BY <1>b, <1>f DEF D!AddTask
<1>1. CASE CreateEvent \/ CallScheduler \/ CallDatabase \/ SchedulerStep \/ DatabaseStep \/ Tick
           \/ Die \/ Join
  <2>1. UNCHANGED dVars /\ step' = step
    BY <1>1 DEF CreateEvent, CallScheduler, CallDatabase, SchedulerStep, DatabaseStep, Tick,
                Die, Join, gVars
  <2> QED BY <2>1, <1>a DEF dVars
\* The task's body is not over: BodyEnded.
<1>2. CASE DispatcherStep
  <2>1. ASSUME D!TestState \/ D!LockList \/ D!Wakeup \/ D!Expire \/ D!Begin
        PROVE  dPhase[Kill] = "queued" /\ dState = "RUNNING" /\ dpc # "running"
    BY <2>1, <1>f DEF D!TestState, D!LockList, D!TakeFirst, D!WaitForSignal, D!Wakeup, D!Expire, D!Begin
  <2>2. ASSUME D!Finish, BodyEnded
        PROVE  dPhase[Kill] = "queued" /\ dState = "RUNNING" /\ (dTask \in Sig => step = "end")
    BY <2>2, <1>f DEF D!Finish, BodyEnded
  <2> QED BY <1>2, <2>1, <2>2 DEF DispatcherStep, Inv, ClosesBehind
<1>3. CASE HandOver
  <2>1. sTask \in Task \ {Kill}
    BY <1>3, RuntimeAssumption DEF HandOver, S!HandOver, S!Step, Inv, SchedulerSound, Task
  <2>2. D!AddTask(Sched, sTask, TRUE) /\ step' = step
    BY <1>3 DEF HandOver, gVars
  <2> QED BY <2>1, <2>2, <1>a, <1>b
<1>4. CASE PostCallback
  <2>1. bTask \in Task \ {Kill}
    BY <1>4, RuntimeAssumption DEF PostCallback, B!RunCallback, B!Step, Inv, DatabaseSound, Task
  <2>2. D!AddTask(Db, bTask, FALSE) /\ step' = step
    BY <1>4 DEF PostCallback, gVars
  <2> QED BY <2>1, <2>2, <1>a, <1>b
<1>5. ASSUME NEW c \in {Worker, Sched, Db, Io}, Notify(c)  PROVE Goal
  BY <1>5, <1>a DEF Notify, D!Signal, D!NotifyOne, dVars, gVars
<1>6. CASE SpuriousWakeup
  BY <1>6, <1>a DEF SpuriousWakeup, D!SpuriousWakeup, dVars, gVars
<1>7. CASE Handler
  <2>1. PICK t \in Request \union Sig : D!AddTask(Io, t, FALSE)
    BY <1>7 DEF Handler
  <2>2. t \in Task \ {Kill} /\ step' = step
    BY <1>7, RuntimeAssumption DEF Task, Handler, gVars
  <2> QED BY <2>1, <2>2, <1>a, <1>b
<1>8. CASE SetGameState
  <2>1. dpc = "running" /\ dTask \in Sig /\ step = "none"
    BY <1>8 DEF SetGameState, InBody
  <2>2. CASE SetShutdown
    <3>1. UNCHANGED <<dpc, dTask>> /\ step' = "stopScheduler"
      BY <2>2 DEF SetShutdown, D!AddTask
    <3> QED BY <2>1, <3>1
  <2>3. CASE AlreadyShutdown
    BY <2>1, <2>3 DEF AlreadyShutdown, dVars, Inv, ClosesBehind
  <2> QED BY <1>8, <2>2, <2>3 DEF SetGameState
<1>9. CASE StopThreads
  <2>1. CASE D!Close
    BY <2>1 DEF D!Close
  <2>2. CASE UNCHANGED dVars /\ step' \in {"stopDatabase", "stopDispatcher"}
    BY <2>2 DEF dVars, Inv, ClosesBehind
  <2> QED BY <1>9, <2>1, <2>2 DEF StopThreads
\* While Game::shutdown runs it is in no list.
<1>10. ASSUME InBody({Kill}), dPhase'[Kill] = dPhase[Kill]
       PROVE  FALSE
  BY <1>10, <1>f DEF InBody
<1>11. CASE ShutdownScheduler \/ StopServices
  BY <1>10, <1>11 DEF ShutdownScheduler, StopServices, dVars
<1>12. CASE ShutdownDatabase
  <2>1. CASE B!FlushPop /\ D!AddTask(Worker, Head(queries), FALSE)
    <3>1. Head(queries) \in Query
      BY <2>1 DEF B!FlushPop, Inv, DatabaseSound
    <3>2. Head(queries) \in Task \ {Kill}
      BY <3>1, RuntimeAssumption DEF Task
    <3> QED BY <1>12, <2>1, <3>2, <1>b, <1>10 DEF ShutdownDatabase
  <2>2. CASE UNCHANGED dVars
    BY <1>12, <2>2, <1>10 DEF ShutdownDatabase, dVars
  <2> QED BY <1>12, <2>1, <2>2 DEF ShutdownDatabase
<1>13. CASE ShutdownDispatcher
  <2>1. dPhase'[Kill] = dPhase[Kill]
    BY <1>13, <1>f, RuntimeAssumption DEF ShutdownDispatcher, D!Shutdown, Task
  <2> QED BY <1>13, <2>1, <1>10 DEF ShutdownDispatcher
<1>14. CASE UNCHANGED vars
  BY <1>14, <1>a DEF vars, dVars, gVars
<1> QED BY <1>1, <1>2, <1>3, <1>4, <1>5, <1>6, <1>7, <1>8, <1>9, <1>11, <1>12, <1>13, <1>14
        DEF Next, Shutdown

LEMMA InitInv == Init => Inv
<1> SUFFICES ASSUME Init  PROVE Inv
  OBVIOUS
<1>1. /\ dState = "RUNNING" /\ taskList = <<>> /\ dpc = "test" /\ dTask = None
      /\ dPhase = [t \in TaskObject |-> "created"]
  BY DEF Init, D!Init, D!AnyTask, TaskObject
<1>2. ListSound
  BY <1>1, RuntimeAssumption
     DEF ListSound, D!Phases, D!OneOwner, D!AnyTask, D!Queued, TaskObject
<1>3. EventsFirst
  BY <1>1 DEF EventsFirst
<1>4. dPhase[Kill] = "created"
  BY <1>1 DEF TaskObject, Task
<1>5. SchedulerSound
  BY DEF Init, S!Init, SchedulerSound
<1>6. DatabaseSound
  BY DEF Init, B!Init, DatabaseSound
<1> QED BY <1>2, <1>3, <1>4, <1>5, <1>6 DEF Inv, Queue, EventsOver, ClosesBehind

LEMMA NextInv == Inv /\ [Next]_vars => Inv'
<1> SUFFICES ASSUME Inv, [Next]_vars  PROVE Inv'
  OBVIOUS
<1>1. Queue'
  BY QueueKeeps
<1>2. ClosesBehind'
  BY ClosesBehindKeeps
<1>3. SchedulerSound'
  BY SchedulerStepOf, SchedulerKeeps DEF Inv
<1>4. DatabaseSound'
  BY DatabaseStepOf, DatabaseKeeps DEF Inv
<1> QED BY <1>1, <1>2, <1>3, <1>4 DEF Inv

-----------------------------------------------------------------------------
(* The end of the server: what each thread has left behind                  *)

\* Scheduler::shutdown empties a list that accepts no more events.
SchedulerEnds ==
  /\ sHalt # "no" => sState = "TERMINATED"
  /\ sHalt \in {"emptied", "yes"} => eventList = {}

\* An accepted query waits, is being executed, or was executed; the flush of
\* DatabaseTasks::shutdown leaves none that waits.
DatabaseEnds ==
  /\ accepted \in Seq(Query) /\ executed \in Seq(Query)
  /\ bHalt # "no" => bState = "TERMINATED"
  /\ bHalt \in {"signal", "yes"} => queries = <<>>
  /\ bHalt = "popping" => Head(queries) \in DP!ElementsOf(executed)
  /\ \A q \in DP!ElementsOf(accepted) :
       \/ q \in DP!ElementsOf(queries) \union DP!ElementsOf(executed)
       \/ bpc = "taken" /\ q = bTask

\* The task of Dispatcher::shutdown is the last one ever.
StopIsLast ==
  /\ \A i \in DOMAIN taskList : taskList[i] = Stop => i = Len(taskList)
  /\ dPhase[Stop] \notin {"created", "queued"} => taskList = <<>>
  /\ dPhase[Stop] # "created" => dState # "RUNNING"
  /\ dState = "TERMINATED" => dPhase[Stop] = "executed" /\ dTask = None
  /\ dpc = "done" => dState = "TERMINATED"

\* Game::shutdown ends the threads in its order, and main joins them in its own.
EndsInOrder ==
  /\ dpc # "running" => step = "none"
  /\ dTask = Kill => /\ step # "none" => sHalt = "yes"
                     /\ step \notin {"none", "database"} => bHalt = "yes"
  /\ mainPc # "run" => sHalt = "yes" /\ bHalt = "yes"
  /\ mainPc \in {"joinDispatcher", "exit"} => bpc = "done"
  /\ mainPc = "exit" => dpc = "done"

LEMMA SchedulerEndsKeeps ==
  ASSUME SchedulerEnds, [S!Next]_(S!vars)
  PROVE  SchedulerEnds' /\ (sHalt = "yes" => sHalt' = "yes")
<1>1. ASSUME NEW c, NEW e, S!AddEvent(c, e)
      PROVE  SchedulerEnds' /\ (sHalt = "yes" => sHalt' = "yes")
  BY <1>1 DEF SchedulerEnds, S!AddEvent
<1>2. ASSUME NEW c, NEW e, NEW d, S!Create(e, d) \/ S!Signal(c) \/ S!StopEvent(e) \/ S!Forget(e)
      PROVE  SchedulerEnds' /\ (sHalt = "yes" => sHalt' = "yes")
  BY <1>2 DEF SchedulerEnds, S!Create, S!Signal, S!StopEvent, S!Forget
<1>3. CASE S!Close \/ S!Tick \/ S!SpuriousWakeup \/ UNCHANGED S!vars
  BY <1>3 DEF SchedulerEnds, S!Close, S!Tick, S!SpuriousWakeup, S!Step, S!vars
<1>4. CASE S!Shutdown
  BY <1>4 DEF SchedulerEnds, S!Shutdown, S!ShutdownFlag, S!ShutdownClear, S!ShutdownSignal
<1>5. CASE S!PopTop
  BY <1>5 DEF SchedulerEnds, S!PopTop, S!Tops
<1>6. CASE S!ThreadMain /\ ~S!PopTop
  BY <1>6 DEF SchedulerEnds, S!ThreadMain, S!Step, S!TestState, S!WaitForSignal, S!WaitUntilTop,
              S!WaitTimeout, S!NoTimeout, S!TimeoutOnEmpty, S!HandOver
<1> QED BY <1>1, <1>2, <1>3, <1>4, <1>5, <1>6 DEF S!Next

LEMMA DatabaseEndsKeeps ==
  ASSUME DatabaseSound, DatabaseEnds, [B!Next]_(B!vars)
  PROVE  /\ DatabaseEnds'
         /\ bHalt = "yes" => bHalt' = "yes"
         /\ bpc = "done" => bpc' = "done"
<1> DEFINE Goal == /\ DatabaseEnds'
                   /\ bHalt = "yes" => bHalt' = "yes"
                   /\ bpc = "done" => bpc' = "done"
<1> SUFFICES Goal
  OBVIOUS
<1>a. /\ queries \in Seq(Query) /\ accepted \in Seq(Query) /\ executed \in Seq(Query)
      /\ bpc \in {"taken", "executed"} => bTask \in Query
      /\ bHalt = "popping" => queries # <<>>
  BY DEF DatabaseSound, DatabaseEnds
<1>1. ASSUME NEW c \in {Worker}, NEW q \in Query, B!AddTask(c, q)  PROVE Goal
  <2>1. CASE bState = "RUNNING"
    <3>1. /\ queries' = Append(queries, q) /\ accepted' = Append(accepted, q)
          /\ UNCHANGED <<executed, bState, bHalt, bpc, bTask>>
      BY <1>1, <2>1 DEF B!AddTask
    <3>2. /\ accepted' \in Seq(Query)
          /\ DP!ElementsOf(accepted') = DP!ElementsOf(accepted) \union {q}
          /\ DP!ElementsOf(queries') = DP!ElementsOf(queries) \union {q}
      BY <1>a, <3>1, ComponentAssumptions, DP!PushBack
    <3> QED BY <2>1, <3>1, <3>2 DEF DatabaseEnds
  <2>2. CASE bState # "RUNNING"
    BY <1>1, <2>2 DEF B!AddTask, DatabaseEnds
  <2> QED BY <2>1, <2>2
<1>2. ASSUME NEW from \in {"lock", "woken"}, B!TakeFirst(from)  PROVE Goal
  <2>1. /\ queries # <<>> /\ queries' = Tail(queries) /\ bTask' = Head(queries) /\ bpc' = "taken"
        /\ bpc # "done" /\ bpc # "taken" /\ bHalt \notin {"popping", "flush"}
        /\ UNCHANGED <<accepted, executed, bState, bHalt>>
    BY <1>2 DEF B!TakeFirst, B!Step, B!LockFree
  <2>2. DP!ElementsOf(queries) = {Head(queries)} \union DP!ElementsOf(queries')
    BY <1>a, <2>1, ComponentAssumptions, DP!FirstAndRest
  <2> QED BY <2>1, <2>2 DEF DatabaseEnds
<1>3. ASSUME NEW from \in {"lock", "woken"}, NEW to \in {"waiting", "test"}, B!FindNone(from, to)
      PROVE  Goal
  BY <1>3 DEF B!FindNone, B!Step, DatabaseEnds
<1>4. CASE B!TestState \/ B!SpuriousWakeup
  BY <1>4 DEF B!TestState, B!SpuriousWakeup, B!Step, DatabaseEnds
<1>5. CASE B!RunQuery
  <2>1. /\ bpc = "taken" /\ bpc' = "executed" /\ executed' = Append(executed, bTask)
        /\ UNCHANGED <<queries, accepted, bState, bHalt, bTask>>
    BY <1>5 DEF B!RunQuery, B!Step
  <2>2. /\ executed' \in Seq(Query)
        /\ DP!ElementsOf(executed') = DP!ElementsOf(executed) \union {bTask}
    BY <1>a, <2>1, ComponentAssumptions, DP!PushBack
  <2> QED BY <2>1, <2>2 DEF DatabaseEnds
<1>6. CASE B!RunCallback
  BY <1>6 DEF B!RunCallback, B!Step, DatabaseEnds
<1>7. ASSUME NEW c, B!Signal(c)  PROVE Goal
  BY <1>7 DEF B!Signal, B!NotifyOne, DatabaseEnds
<1>8. CASE B!Close \/ B!ShutdownLock \/ UNCHANGED B!vars
  BY <1>8 DEF B!Close, B!ShutdownLock, B!vars, DatabaseEnds
<1>9. CASE B!FlushFront
  <2>1. /\ queries # <<>> /\ executed' = Append(executed, Head(queries))
        /\ bHalt = "flush" /\ bHalt' = "popping"
        /\ UNCHANGED <<queries, accepted, bState, bTask, bpc>>
    BY <1>9 DEF B!FlushFront
  <2>2. /\ executed' \in Seq(Query)
        /\ DP!ElementsOf(executed') = DP!ElementsOf(executed) \union {Head(queries)}
    BY <1>a, <2>1, ComponentAssumptions, DP!PushBack
  <2> QED BY <2>1, <2>2 DEF DatabaseEnds
<1>10. CASE B!FlushPop
  <2>1. /\ queries' = Tail(queries) /\ bHalt = "popping" /\ bHalt' = "flush"
        /\ UNCHANGED <<accepted, executed, bState, bTask, bpc>>
    BY <1>10 DEF B!FlushPop
  <2>2. DP!ElementsOf(queries) = {Head(queries)} \union DP!ElementsOf(queries')
    BY <1>a, <2>1, ComponentAssumptions, DP!FirstAndRest
  <2> QED BY <2>1, <2>2 DEF DatabaseEnds
<1>11. CASE B!ShutdownUnlock \/ B!ShutdownSignal
  BY <1>11 DEF B!ShutdownUnlock, B!ShutdownSignal, B!NotifyOne, DatabaseEnds
<1> QED BY <1>1, <1>2, <1>3, <1>4, <1>5, <1>6, <1>7, <1>8, <1>9, <1>10, <1>11
        DEF B!Next, B!ThreadMain, B!LockTasks, B!Wakeup, B!FinishShutdown

LEMMA StopIsLastKeeps ==
  ASSUME Inv, StopIsLast, DispatcherOperation
  PROVE  StopIsLast' /\ (dpc = "done" => dpc' = "done")
<1> DEFINE Goal == StopIsLast' /\ (dpc = "done" => dpc' = "done")
<1> SUFFICES Goal
  OBVIOUS
<1>a. /\ taskList \in Seq(TaskObject) /\ dPhase \in [TaskObject -> D!Phases]
      /\ \A t \in TaskObject : dPhase[t] = "queued" <=> t \in DP!ElementsOf(taskList)
      /\ \A t \in TaskObject : dPhase[t] = "taken" <=> t = dTask
      /\ dpc \in {"taken", "running"} <=> dTask # None
      /\ Stop \in TaskObject /\ Stop \notin Task /\ None \notin TaskObject
      /\ Kill \in TaskObject /\ Stop # Kill
  BY ListFacts, RuntimeAssumption DEF Inv, Queue
<1>b. ASSUME taskList' = taskList, dPhase'[Stop] = dPhase[Stop], dTask' = dTask,
             dState' = dState, dpc' = dpc \/ (dpc # "done" /\ dpc' # "done")
      PROVE  Goal
  BY <1>b DEF StopIsLast
<1>1. ASSUME NEW c \in D!Caller, NEW t \in Task, NEW pushFront \in BOOLEAN,
             D!AddTask(c, t, pushFront)
      PROVE  Goal
  <2>1. t \in TaskObject /\ t # Stop /\ dPhase'[Stop] = dPhase[Stop]
        /\ UNCHANGED <<dTask, dState, dpc>>
    BY <1>1, <1>a DEF D!AddTask, TaskObject
  <2>2. CASE dState = "RUNNING"
    <3>1. taskList' = IF pushFront THEN <<t>> \o taskList ELSE Append(taskList, t)
      BY <1>1, <2>2 DEF D!AddTask, D!Insert
    <3>2. DP!ElementsOf(taskList') = DP!ElementsOf(taskList) \union {t}
      BY <1>a, <2>1, <3>1, ComponentAssumptions, DP!PushBack, DP!PushFront
    <3>3. dPhase[Stop] = "created"
      BY <2>2 DEF StopIsLast
    <3>4. \A i \in DOMAIN taskList' : taskList'[i] # Stop
      BY <1>a, <2>1, <3>2, <3>3 DEF DP!ElementsOf
    <3> QED BY <2>1, <2>2, <3>3, <3>4 DEF StopIsLast
  <2>3. CASE dState # "RUNNING"
    <3>1. taskList' = taskList
      BY <1>1, <2>3 DEF D!AddTask
    <3> QED BY <2>1, <3>1, <1>b
  <2> QED BY <2>2, <2>3
<1>2. ASSUME NEW c \in D!Caller, D!Signal(c)  PROVE Goal
  BY <1>2, <1>b DEF D!Signal, D!NotifyOne
<1>3. CASE D!Shutdown(Worker) /\ dTask = Kill
  <2>1. /\ dPhase[Stop] = "created" /\ dPhase' = [dPhase EXCEPT ![Stop] = "queued"]
        /\ taskList' = Append(taskList, Stop) /\ UNCHANGED <<dState, dTask>>
        /\ dpc' = dpc \/ (dpc # "done" /\ dpc' # "done")
    BY <1>3 DEF D!Shutdown, D!StopLast, D!NotifyOne
  <2>2. dState # "RUNNING"
    BY <1>3, <1>a DEF Inv, Queue, EventsOver
  <2>3. /\ Len(taskList) \in Nat
        /\ DOMAIN taskList = 1 .. Len(taskList)
        /\ Len(taskList') = Len(taskList) + 1
        /\ DOMAIN taskList' = 1 .. Len(taskList) + 1
        /\ \A i \in 1 .. Len(taskList) : taskList'[i] = taskList[i]
    BY <1>a, <2>1
  <2>4. \A i \in DOMAIN taskList : taskList[i] # Stop
    BY <1>a, <2>1 DEF DP!ElementsOf
  <2>5. \A i \in DOMAIN taskList' : taskList'[i] = Stop => i = Len(taskList')
    BY <2>3, <2>4
  <2>6. dState # "TERMINATED"
    BY <2>1 DEF StopIsLast
  <2> QED BY <1>a, <2>1, <2>2, <2>5, <2>6 DEF StopIsLast
<1>4. CASE D!Close /\ dTask \in Sig
  <2>1. dState' = "CLOSING" /\ UNCHANGED <<taskList, dPhase, dTask, dpc>>
    BY <1>4 DEF D!Close
  <2>2. dTask # None
    BY <1>4, <1>a DEF TaskObject, Task
  <2>3. dState # "TERMINATED"
    BY <2>2 DEF StopIsLast
  <2> QED BY <2>1, <2>3 DEF StopIsLast
<1>5. ASSUME D!TakeFirst, dpc \in {"lock", "woken"}  PROVE Goal
  <2>1. /\ taskList # <<>> /\ taskList' = Tail(taskList) /\ dTask' = Head(taskList)
        /\ dPhase' = [dPhase EXCEPT ![Head(taskList)] = "taken"]
        /\ dpc' = "taken" /\ dState' = dState
    BY <1>5 DEF D!TakeFirst
  <2>2. /\ Len(taskList) \in Nat \ {0} /\ Head(taskList) = taskList[1]
        /\ DOMAIN taskList = 1 .. Len(taskList)
        /\ Head(taskList) \in TaskObject
        /\ Len(taskList') = Len(taskList) - 1
        /\ DOMAIN taskList' = 1 .. Len(taskList) - 1
        /\ \A i \in 1 .. Len(taskList) - 1 : taskList'[i] = taskList[i + 1]
    BY <1>a, <2>1
  <2>3. dState # "TERMINATED"
    BY <2>1 DEF StopIsLast
  <2>4. \A i \in DOMAIN taskList' : taskList'[i] = Stop => i = Len(taskList')
    <3> SUFFICES ASSUME NEW i \in DOMAIN taskList', taskList'[i] = Stop
                 PROVE  i = Len(taskList')
      OBVIOUS
    <3>1. i + 1 \in DOMAIN taskList /\ taskList[i + 1] = Stop
      BY <2>2
    <3>2. i + 1 = Len(taskList)
      BY <3>1 DEF StopIsLast
    <3> QED BY <2>2, <3>2
  <2>5. CASE Head(taskList) = Stop
    <3>1. 1 = Len(taskList)
      BY <2>2, <2>5 DEF StopIsLast
    <3>2. taskList' = <<>>
      BY <1>a, <2>1, <2>2, <3>1
    <3>3. dState # "RUNNING"
      <4>1. dPhase[Stop] = "queued"
        BY <1>a, <2>2, <2>5 DEF DP!ElementsOf
      <4> QED BY <4>1 DEF StopIsLast
    <3> QED BY <1>5, <2>1, <2>3, <2>4, <3>2, <3>3 DEF StopIsLast
  <2>6. CASE Head(taskList) # Stop
    <3>1. dPhase'[Stop] = dPhase[Stop]
      BY <1>a, <2>1, <2>2, <2>6
    <3>2. dPhase[Stop] \in {"created", "queued"}
      BY <2>1 DEF StopIsLast
    <3> QED BY <1>5, <2>1, <2>3, <2>4, <3>1, <3>2 DEF StopIsLast
  <2> QED BY <2>5, <2>6
<1>6. CASE D!TestState
  BY <1>6 DEF D!TestState, StopIsLast
<1>7. CASE D!LockList \/ D!Wakeup
  <2>1. CASE D!WaitForSignal /\ dpc = "lock"
    BY <2>1, <1>b DEF D!WaitForSignal
  <2>2. CASE taskList = <<>> /\ dpc' = "test" /\ dpc = "woken"
             /\ UNCHANGED <<dState, taskList, dTask, dSignal, dPhase>>
    BY <2>2, <1>b
  <2> QED BY <1>5, <1>7, <2>1, <2>2 DEF D!LockList, D!Wakeup
<1>8. CASE D!Begin
  BY <1>8, <1>b DEF D!Begin
<1>9. CASE D!Expire \/ D!Finish
  <2>1. /\ taskList' = taskList /\ dTask' = None /\ dpc' = "test"
        /\ dpc \in {"taken", "running"}
        /\ dState' = IF dTask = Stop THEN "TERMINATED" ELSE dState
        /\ dTask = Stop => dPhase' = [dPhase EXCEPT ![Stop] = "executed"]
        /\ \/ dPhase' = [dPhase EXCEPT ![dTask] = "executed"]
           \/ dPhase' = [dPhase EXCEPT ![dTask] = "expired"]
    BY <1>9, RuntimeAssumption DEF D!Expire, D!Finish, Task
  <2>2. dTask # None /\ (dTask = Stop => dPhase[Stop] = "taken")
    BY <1>a, <2>1
  <2>3. CASE dTask = Stop
    <3>1. dPhase'[Stop] = "executed" /\ dState' = "TERMINATED"
      BY <1>a, <2>1, <2>3
    <3>2. taskList = <<>>
      BY <2>2, <2>3 DEF StopIsLast
    <3> QED BY <2>1, <3>1, <3>2 DEF StopIsLast
  <2>4. CASE dTask # Stop
    <3>1. dPhase'[Stop] = dPhase[Stop] /\ dState' = dState
      BY <1>a, <2>1, <2>4
    <3> QED BY <2>1, <2>2, <3>1 DEF StopIsLast
  <2> QED BY <2>3, <2>4
<1>10. CASE D!SpuriousWakeup \/ UNCHANGED dVars
  BY <1>10, <1>b DEF D!SpuriousWakeup, dVars
<1> QED BY <1>1, <1>2, <1>3, <1>4, <1>6, <1>7, <1>8, <1>9, <1>10
        DEF DispatcherOperation, D!ThreadMain

LEMMA EndsInOrderKeeps ==
  ASSUME Inv, EndsInOrder, [Next]_vars,
         sHalt = "yes" => sHalt' = "yes", bHalt = "yes" => bHalt' = "yes",
         bpc = "done" => bpc' = "done", dpc = "done" => dpc' = "done"
  PROVE  EndsInOrder'
<1>a. Kill \notin Sig /\ Kill # None /\ Kill \notin GameTask
  BY RuntimeAssumption DEF Task, GameTask
<1>b. ASSUME dTask' = dTask, dpc' = "running" <=> dpc = "running", step' = step, mainPc' = mainPc
      PROVE  EndsInOrder'
  BY <1>b DEF EndsInOrder
<1>1. CASE CreateEvent \/ CallScheduler \/ CallDatabase \/ SchedulerStep \/ DatabaseStep \/ Tick
  BY <1>1, <1>b DEF CreateEvent, CallScheduler, CallDatabase, SchedulerStep, DatabaseStep, Tick,
                    dVars, gVars
<1>2. CASE DispatcherStep
  <2>1. step' = "none"
    BY <1>2 DEF DispatcherStep, NextStep, EndsInOrder, D!TestState, D!LockList, D!TakeFirst,
       D!WaitForSignal, D!Wakeup, D!Expire, D!Begin, D!Finish
  <2>2. mainPc' = mainPc
    BY <1>2 DEF DispatcherStep
  <2> QED BY <2>1, <2>2 DEF EndsInOrder
<1>3. CASE HandOver \/ PostCallback \/ Handler
  <2>1. UNCHANGED <<dTask, dpc, step, mainPc>>
    BY <1>3 DEF HandOver, PostCallback, Handler, D!AddTask, gVars
  <2> QED BY <2>1, <1>b
<1>4. ASSUME NEW c \in {Worker, Sched, Db, Io}, Notify(c)  PROVE EndsInOrder'
  BY <1>4, <1>b DEF Notify, D!Signal, D!NotifyOne, dVars, gVars
<1>5. CASE SpuriousWakeup
  BY <1>5, <1>b DEF SpuriousWakeup, D!SpuriousWakeup, dVars, gVars
<1>6. CASE Die \/ Join
  BY <1>6 DEF Die, Join, EndsInOrder, dVars
<1>7. CASE SetGameState \/ StopThreads
  <2>1. dpc = "running" /\ dTask # Kill
    BY <1>7, <1>a DEF SetGameState, StopThreads, InBody
  <2>2. UNCHANGED <<dpc, dTask, mainPc>>
    BY <1>7 DEF SetGameState, SetShutdown, AlreadyShutdown, StopThreads, D!AddTask, D!Close, dVars
  <2> QED BY <2>1, <2>2 DEF EndsInOrder
<1>8. CASE ShutdownScheduler
  BY <1>8 DEF ShutdownScheduler, InBody, EndsInOrder, dVars
<1>9. CASE ShutdownDatabase
  <2>1. UNCHANGED <<dpc, dTask, mainPc>>
    BY <1>9 DEF ShutdownDatabase, D!AddTask, dVars
  <2>2. dpc = "running" /\ dTask = Kill /\ step = "database"
        /\ step' = IF bHalt' = "yes" THEN "dispatcher" ELSE "database"
    BY <1>9 DEF ShutdownDatabase, InBody
  <2> QED BY <2>1, <2>2 DEF EndsInOrder
<1>10. CASE ShutdownDispatcher
  <2>1. UNCHANGED <<dTask, mainPc>> /\ (dpc = "running" => dpc' = "running")
    BY <1>10 DEF ShutdownDispatcher, D!Shutdown, D!NotifyOne
  <2>2. dpc = "running" /\ dTask = Kill /\ step = "dispatcher"
    BY <1>10 DEF ShutdownDispatcher, InBody
  <2> QED BY <2>1, <2>2 DEF EndsInOrder
<1>11. CASE StopServices
  BY <1>11 DEF StopServices, InBody, EndsInOrder, dVars
<1>12. CASE UNCHANGED vars
  BY <1>12, <1>b DEF vars, dVars, gVars
<1> QED BY <1>1, <1>2, <1>3, <1>4, <1>5, <1>6, <1>7, <1>8, <1>9, <1>10, <1>11, <1>12
        DEF Next, Shutdown

Ends == SchedulerEnds /\ DatabaseEnds /\ StopIsLast /\ EndsInOrder

LEMMA InitEnds == Init => Ends
<1> SUFFICES ASSUME Init  PROVE Ends
  OBVIOUS
<1>1. SchedulerEnds
  BY DEF Init, S!Init, SchedulerEnds
<1>2. DatabaseEnds
  BY DEF Init, B!Init, DatabaseEnds, DP!ElementsOf
<1>3. dState = "RUNNING" /\ taskList = <<>> /\ dpc = "test" /\ dPhase[Stop] = "created"
  BY DEF Init, D!Init, D!AnyTask
<1>4. StopIsLast
  BY <1>3 DEF StopIsLast
<1>5. dTask = None /\ step = "none" /\ mainPc = "run"
  BY DEF Init, D!Init
<1>6. EndsInOrder
  BY <1>3, <1>5 DEF EndsInOrder
<1> QED BY <1>1, <1>2, <1>4, <1>6 DEF Ends

LEMMA NextEnds == Inv /\ Ends /\ [Next]_vars => Ends'
<1> SUFFICES ASSUME Inv, Ends, [Next]_vars  PROVE Ends'
  OBVIOUS
<1>1. SchedulerEnds' /\ (sHalt = "yes" => sHalt' = "yes")
  BY SchedulerStepOf, SchedulerEndsKeeps DEF Inv, Ends
<1>2. DatabaseEnds' /\ (bHalt = "yes" => bHalt' = "yes") /\ (bpc = "done" => bpc' = "done")
  BY DatabaseStepOf, DatabaseEndsKeeps DEF Inv, Ends
<1>3. StopIsLast' /\ (dpc = "done" => dpc' = "done")
  BY DispatcherStepOf, StopIsLastKeeps DEF Inv, Ends
<1>4. EndsInOrder'
  BY <1>1, <1>2, <1>3, EndsInOrderKeeps DEF Ends
<1> QED BY <1>1, <1>2, <1>3, <1>4 DEF Ends

\* When main has joined the threads, none has left anything.
LEMMA EndsCleanly == Inv /\ Ends => ExitIsClean
<1> SUFFICES ASSUME Inv, Ends, mainPc = "exit"  PROVE ExitIsClean
  BY DEF ExitIsClean
<1>1. dpc = "done" /\ bpc = "done" /\ sHalt = "yes" /\ bHalt = "yes"
  BY DEF Ends, EndsInOrder
<1>2. taskList = <<>> /\ dTask = None
  BY <1>1 DEF Ends, StopIsLast
<1>3. eventList = {} /\ queries = <<>>
  BY <1>1 DEF Ends, SchedulerEnds, DatabaseEnds
<1>4. ASSUME NEW t \in Task  PROVE dPhase[t] \notin {"queued", "taken"}
  <2>1. t \in TaskObject /\ t # None
    BY RuntimeAssumption DEF TaskObject
  <2>2. DP!ElementsOf(taskList) = {}
    BY <1>2 DEF DP!ElementsOf
  <2> QED BY <1>2, <2>1, <2>2, ListFacts DEF Inv, Queue
<1>5. ASSUME NEW i \in DOMAIN accepted
      PROVE  \E j \in DOMAIN executed : executed[j] = accepted[i]
  <2>1. accepted[i] \in DP!ElementsOf(accepted)
    BY DEF DP!ElementsOf
  <2>2. accepted[i] \in DP!ElementsOf(queries) \union DP!ElementsOf(executed)
    BY <1>1, <2>1 DEF Ends, DatabaseEnds
  <2> QED BY <1>3, <2>2 DEF DP!ElementsOf
<1> QED BY <1>2, <1>3, <1>4, <1>5 DEF ExitIsClean

-----------------------------------------------------------------------------
(* The theorems                                                            *)

\* The inductive invariant holds in every state.
THEOREM Invariance == Spec => []Inv
BY InitInv, NextInv, PTL DEF Spec

\* From the moment Game::shutdown runs no timed event runs or waits: the events
\* that were handed over before it went in front (scheduler.cpp, threadMain), and
\* the list was closed before it was reached (Game::setGameState).
THEOREM NoEventsOnceShutDown == Spec => []NoEventAfterShutdown
<1>1. Inv => NoEventAfterShutdown
  BY DEF Inv, Queue, EventsOver, NoEventAfterShutdown
<1> QED BY <1>1, Invariance, PTL

\* When main returns, no task, event or query that was accepted is left behind:
\* Game::shutdown ends the threads in the order of their calls, DatabaseTasks::flush
\* runs what waits, and Dispatcher::shutdown comes after every other task.
THEOREM NothingIsLeftBehind == Spec => []ExitIsClean
BY InitInv, NextInv, InitEnds, NextEnds, EndsCleanly, PTL DEF Spec

\* The dispatcher among the other threads is the component Dispatcher: what was
\* proved of it for any callers is true of the callers it has.
THEOREM RunsDispatcher == Spec => D!Spec
<1>1. Init => D!Init
  BY DEF Init
<1>2. DispatcherOperation => [D!Next]_(D!vars)
  <2>1. Worker \in D!Caller
    BY DEF D!Caller
  <2> QED BY <2>1 DEF DispatcherOperation, D!Next, D!vars, dVars
<1>3. Inv /\ [Next]_vars => [D!Next]_(D!vars)
  BY <1>2, DispatcherStepOf DEF Inv
<1> QED BY <1>1, <1>3, Invariance, PTL DEF Spec, D!Spec

\* The same for the scheduler.
THEOREM RunsScheduler == Spec => S!Spec
<1>1. Init => S!Init
  BY DEF Init
<1>2. Inv /\ [Next]_vars => [S!Next]_(S!vars)
  BY SchedulerStepOf DEF Inv
<1> QED BY <1>1, <1>2, Invariance, PTL DEF Spec, S!Spec

\* The same for the database thread.
THEOREM RunsDatabaseTasks == Spec => B!Spec
<1>1. Init => B!Init
  BY DEF Init
<1>2. Inv /\ [Next]_vars => [B!Next]_(B!vars)
  BY DatabaseStepOf DEF Inv
<1> QED BY <1>1, <1>2, Invariance, PTL DEF Spec, B!Spec

-----------------------------------------------------------------------------
(* What was proved of the components holds in the server                   *)

\* DP is D with the theorems of its proof module, and so are SP and BP.
LEMMA SameDispatcher == D!Spec => DP!Spec
<1>1. D!Init => DP!Init
  BY DEF D!Init, DP!Init, D!AnyTask, DP!AnyTask
<1>2. D!Next => DP!Next
  BY DEF D!Next, DP!Next, D!Caller, DP!Caller, D!AddTask, DP!AddTask, D!CanCall, DP!CanCall,
         D!ListWasEmpty, DP!ListWasEmpty, D!Insert, DP!Insert, D!Signal, DP!Signal,
         D!NotifyOne, DP!NotifyOne, D!Shutdown, DP!Shutdown, D!StopLast, DP!StopLast,
         D!Close, DP!Close, D!ThreadMain, DP!ThreadMain, D!TestState, DP!TestState,
         D!LockList, DP!LockList, D!TakeFirst, DP!TakeFirst, D!WaitForSignal, DP!WaitForSignal,
         D!Wakeup, DP!Wakeup, D!Expire, DP!Expire, D!Begin, DP!Begin, D!Finish, DP!Finish,
         D!SpuriousWakeup, DP!SpuriousWakeup
<1>3. UNCHANGED D!vars => UNCHANGED DP!vars
  BY DEF D!vars, DP!vars
<1> QED BY <1>1, <1>2, <1>3, PTL DEF D!Spec, DP!Spec

LEMMA SameScheduler == S!Spec => SP!Spec
<1>1. S!Init => SP!Init
  BY DEF S!Init, SP!Init, S!EventId, SP!EventId
<1>2. S!Next => SP!Next
  BY DEF S!Next, SP!Next, S!Create, SP!Create, S!AddEvent, SP!AddEvent, S!NextId,
         SP!NextId, S!Holders, SP!Holders, S!Forget, SP!Forget, S!BecomesTop, SP!BecomesTop, S!Signal, SP!Signal, S!NotifyOne,
         SP!NotifyOne, S!StopEvent, SP!StopEvent, S!Close, SP!Close, S!Shutdown,
         SP!Shutdown, S!ShutdownFlag, SP!ShutdownFlag, S!ShutdownClear, SP!ShutdownClear,
         S!ShutdownSignal, SP!ShutdownSignal, S!ThreadMain, SP!ThreadMain, S!Step, SP!Step,
         S!TestState, SP!TestState, S!WaitForSignal, SP!WaitForSignal, S!WaitUntilTop,
         SP!WaitUntilTop, S!Tops, SP!Tops, S!WaitTimeout, SP!WaitTimeout, S!SpuriousWakeup,
         SP!SpuriousWakeup, S!TimedOut, SP!TimedOut, S!Active, SP!Active, S!NoTimeout,
         SP!NoTimeout, S!TimeoutOnEmpty, SP!TimeoutOnEmpty, S!PopTop, SP!PopTop,
         S!HandOver, SP!HandOver, S!Tick, SP!Tick
<1>3. UNCHANGED S!vars => UNCHANGED SP!vars
  BY DEF S!vars, SP!vars
<1> QED BY <1>1, <1>2, <1>3, PTL DEF S!Spec, SP!Spec

LEMMA SameDatabaseTasks == B!Spec => BP!Spec
<1>1. B!Init => BP!Init
  BY DEF B!Init, BP!Init
<1>2. B!Next => BP!Next
  BY DEF B!Next, BP!Next, B!Elements, BP!Elements, B!AddTask, BP!AddTask, B!LockFree,
         BP!LockFree, B!Signal, BP!Signal, B!NotifyOne, BP!NotifyOne, B!Close, BP!Close, B!ShutdownLock,
         BP!ShutdownLock, B!FinishShutdown, BP!FinishShutdown, B!FlushFront, BP!FlushFront,
         B!FlushPop, BP!FlushPop, B!Post, BP!Post, B!ShutdownUnlock, BP!ShutdownUnlock,
         B!ShutdownSignal, BP!ShutdownSignal, B!ThreadMain, BP!ThreadMain, B!Step, BP!Step,
         B!TestState, BP!TestState, B!LockTasks, BP!LockTasks, B!TakeFirst, BP!TakeFirst,
         B!FindNone, BP!FindNone, B!Wakeup, BP!Wakeup, B!RunQuery, BP!RunQuery,
         B!RunCallback, BP!RunCallback, B!SpuriousWakeup, BP!SpuriousWakeup
<1>3. UNCHANGED B!vars => UNCHANGED BP!vars
  BY DEF B!vars, BP!vars
<1> QED BY <1>1, <1>2, <1>3, PTL DEF B!Spec, BP!Spec

\* In the running server, whatever the network handlers, game tasks, timed events,
\* queries and signals do, no task's wakeup is lost (Dispatcher::addTask signals
\* after the unlock) and no task is run or deleted twice.
THEOREM ServerLosesNoWakeup == Spec => []D!NoLostWakeup /\ []D!OneOwner
<1>1. Spec => []DP!NoLostWakeup /\ []DP!OneOwner
  BY RunsDispatcher, SameDispatcher, ComponentAssumptions, DP!NoWakeupIsLost,
     DP!TasksHaveOneOwner, PTL
<1>2. DP!NoLostWakeup => D!NoLostWakeup
  BY DEF D!NoLostWakeup, DP!NoLostWakeup
<1>3. DP!OneOwner => D!OneOwner
  BY DEF D!OneOwner, DP!OneOwner, D!AnyTask, DP!AnyTask, D!Queued, DP!Queued
<1> QED BY <1>1, <1>2, <1>3, PTL

\* To those who call it, the dispatcher of the running server is an executor: the
\* due events pushed in front, the callbacks of flush() and the task of
\* Dispatcher::shutdown included.
THEOREM ServerRunsExecutor == Spec => D!E!Spec
<1>1. Spec => DP!E!Spec
  BY RunsDispatcher, SameDispatcher, ComponentAssumptions, DP!IsAnExecutor, PTL
<1>2. DP!E!Spec => D!E!Spec
  <2>1. DP!E!Init => D!E!Init
    BY DEF DP!E!Init, D!E!Init
  <2>2. DP!E!Next => D!E!Next
    BY DEF DP!E!Next, D!E!Next, DP!E!Submit, D!E!Submit, DP!E!Becomes, D!E!Becomes,
           DP!E!Refuse, D!E!Refuse, DP!E!SubmitStop, D!E!SubmitStop, DP!E!Close, D!E!Close,
           DP!E!Start, D!E!Start, DP!E!End, D!E!End
  <2>3. UNCHANGED DP!E!vars => UNCHANGED D!E!vars
    BY DEF DP!E!vars, D!E!vars
  <2> QED BY <2>1, <2>2, <2>3, PTL DEF DP!E!Spec, D!E!Spec
<1> QED BY <1>1, <1>2

\* No timed event of the running server reaches the dispatcher before its time, and
\* the scheduler thread does not sleep past one.
THEOREM ServerEventsAreOnTime == Spec => []S!NeverEarly /\ []S!NoOversleep
<1>1. Spec => []SP!NeverEarly /\ []SP!NoOversleep
  BY RunsScheduler, SameScheduler, ComponentAssumptions, SP!EventsAreNeverEarly,
     SP!NeverOversleeps, PTL
<1>2. SP!NeverEarly => S!NeverEarly
  BY DEF S!NeverEarly, SP!NeverEarly
<1>3. SP!NoOversleep => S!NoOversleep
  BY DEF S!NoOversleep, SP!NoOversleep
<1> QED BY <1>1, <1>2, <1>3, PTL

\* A stopEvent of the running server that answered true keeps its event from the
\* dispatcher, and no event is cancelled that was not stopped, however long the
\* server runs, as long as no other event was given the id while it was known.
THEOREM ServerStopsExactly == Spec => S!StopIsExact
<1>1. Spec => SP!StopIsExact
  BY RunsScheduler, SameScheduler, ComponentAssumptions, SP!StopsAreExact, PTL
<1>2. SP!StopIsExact => S!StopIsExact
  <2>1. [\A e \in Event \ sShared :
           /\ sPhase[e] = "stopped" => sPhase'[e] \in {"stopped", "cancelled", "cleared"}
           /\ ~(sPhase[e] = "queued" /\ sPhase'[e] = "cancelled")]_(SP!vars)
        => [\A e \in Event \ sShared :
              /\ sPhase[e] = "stopped" => sPhase'[e] \in {"stopped", "cancelled", "cleared"}
              /\ ~(sPhase[e] = "queued" /\ sPhase'[e] = "cancelled")]_(S!vars)
    BY DEF S!vars, SP!vars
  <2> QED BY <2>1, PTL DEF S!StopIsExact, SP!StopIsExact
<1> QED BY <1>1, <1>2

\* Every query of the running server is executed once, in the order of acceptance but
\* for the one in flight at the shutdown, and its callback is posted after it:
\* DatabaseTasks::flush runs on the dispatcher thread, inside Game::shutdown, while
\* the database thread runs its own.
THEOREM ServerQueriesExecuteOnce ==
  Spec => []B!ExecutedOnce /\ []B!CallbackAfterQuery /\ B!OnlyInFlightOvertaken
<1>1. Spec => []BP!ExecutedOnce /\ []BP!CallbackAfterQuery /\ BP!OnlyInFlightOvertaken
  BY RunsDatabaseTasks, SameDatabaseTasks, ComponentAssumptions, BP!QueriesExecuteOnce,
     BP!CallbacksFollow, BP!QueriesKeepTheirOrder, PTL
<1>2. BP!ExecutedOnce => B!ExecutedOnce
  BY DEF B!ExecutedOnce, BP!ExecutedOnce, B!Elements, BP!Elements
<1>3. BP!CallbackAfterQuery => B!CallbackAfterQuery
  BY DEF B!CallbackAfterQuery, BP!CallbackAfterQuery, B!Elements, BP!Elements
<1>4. BP!OnlyInFlightOvertaken => B!OnlyInFlightOvertaken
  <2>1. [\A i, j \in DOMAIN accepted :
           i < j /\ accepted[j] \in BP!Elements(executed') \ BP!Elements(executed) =>
             \/ accepted[i] \in BP!Elements(executed)
             \/ accepted[i] = bTask /\ bState = "TERMINATED"]_(BP!vars)
        => [\A i, j \in DOMAIN accepted :
              i < j /\ accepted[j] \in B!Elements(executed') \ B!Elements(executed) =>
                \/ accepted[i] \in B!Elements(executed)
                \/ accepted[i] = bTask /\ bState = "TERMINATED"]_(B!vars)
    BY DEF B!vars, BP!vars, B!Elements, BP!Elements
  <2> QED BY <2>1, PTL DEF B!OnlyInFlightOvertaken, BP!OnlyInFlightOvertaken
<1> QED BY <1>1, <1>2, <1>3, <1>4, PTL
=============================================================================

---------------------------- MODULE ServerRuntime ----------------------------
(***************************************************************************)
(* The threads of the server together: the dispatcher, the scheduler and   *)
(* the database thread, and the main thread, which runs the network and    *)
(* signal handlers in io_service::run and joins the others at the end      *)
(* (src/src/otserv.cpp).  SIGINT and SIGTERM queue a task that calls       *)
(* Game::setGameState(GAME_STATE_SHUTDOWN); it closes the three queues and *)
(* queues Game::shutdown, which ends the three threads.                    *)
(*                                                                         *)
(* Each thread is a component specification; a call from one thread into   *)
(* another's queue is a joint step of the two components.                  *)
(***************************************************************************)
EXTENDS Naturals, Sequences, FiniteSets

CONSTANTS Event,    \* timed events; the same objects are tasks when due
          Query,    \* background queries, each with a callback task
          Request,  \* tasks queued by network handlers
          Sig,      \* tasks queued by the signal handler
          Kill,     \* the Game::shutdown task
          Stop,     \* the task of Dispatcher::shutdown
          Delay, IdRange, MaxTime,
          None

VARIABLES dState, taskList, dpc, dTask, dSignal, dPhase,               \* Dispatcher
          sState, now, eventList, eventIds, lastEventId, due, eventId, \* Scheduler
          spc, deadline, sTask, sSignal, sHalt, sPhase, sShared,
          bState, queries, bpc, bTask, bSignal, bHalt,                 \* DatabaseTasks
          accepted, executed, posted,
          gameState,  \* Game::gameState: "NORMAL" or "SHUTDOWN"
          step,       \* the next statement of the shutdown code being run
          mainPc      \* the main thread: "run" in io_service, then its joins

dVars == <<dState, taskList, dpc, dTask, dSignal, dPhase>>
sVars == <<sState, now, eventList, eventIds, lastEventId, due, eventId,
           spc, deadline, sTask, sSignal, sHalt, sPhase, sShared>>
bVars == <<bState, queries, bpc, bTask, bSignal, bHalt, accepted, executed, posted>>
gVars == <<gameState, step, mainPc>>
vars  == <<dVars, sVars, bVars, gVars>>

Worker == "dispatcher"
Sched  == "scheduler"
Db     == "database"
Io     == "main"

\* The task made of a query's callback goes by the name of the query.
Task == Event \union Query \union Request \union Sig \union {Kill}

\* Different objects have different names; delays and event ids are numbers.
ASSUME RuntimeAssumption ==
  /\ Event \intersect (Query \union Request \union Sig) = {}
  /\ Query \intersect (Request \union Sig) = {}
  /\ Request \intersect Sig = {}
  /\ Kill \notin Event \union Query \union Request \union Sig
  /\ Stop \notin Task
  /\ None \notin Task \union {Stop}
  /\ Delay \subseteq Nat
  /\ IdRange \in Nat /\ IdRange > 1
  /\ MaxTime \in Nat

D == INSTANCE Dispatcher WITH
       Timed <- Request, Thread <- {Sched, Db, Io}, NoTask <- None,
       threadState <- dState, pc <- dpc, task <- dTask, doSignal <- dSignal, phase <- dPhase
S == INSTANCE Scheduler WITH
       Caller <- {Worker, Io}, NoEvent <- None, threadState <- sState, pc <- spc,
       task <- sTask, doSignal <- sSignal, halt <- sHalt, phase <- sPhase, shared <- sShared
B == INSTANCE DatabaseTasks WITH
       WithCallback <- Query, Thread <- {Worker}, NoQuery <- None,
       threadState <- bState, tasks <- queries, pc <- bpc, task <- bTask,
       doSignal <- bSignal, halt <- bHalt

Init ==
  /\ D!Init /\ S!Init /\ B!Init
  /\ lastEventId = 0
  /\ gameState = "NORMAL"
  /\ step = "none"
  /\ mainPc = "run"

\* A task body, and a handler of the main thread, makes one call at a time.
InBody(tasks) == dpc = "running" /\ dTask \in tasks /\ Worker \notin dSignal \union sSignal \union bSignal
InHandler == mainPc \in {"run", "stopping"} /\ Io \notin dSignal \union sSignal

-----------------------------------------------------------------------------
(* The dispatcher, and the bodies of ordinary tasks.                       *)

\* Any game task may add or stop events and queue queries.
GameTask == Event \union Query \union Request

\* The body of a shutdown task is run to its end before the task returns.
BodyEnded == step = IF dTask \in Sig \union {Kill} THEN "end" ELSE "none"

\* Between tasks no statement of a shutdown body is next.
NextStep == step' = IF dpc' = "running" THEN step ELSE "none"

DispatcherStep ==
  /\ \/ D!TestState \/ D!LockList \/ D!Wakeup \/ D!Expire \/ D!Begin
     \/ D!Finish /\ BodyEnded /\ InBody(Task \union {Stop})
  /\ NextStep
  /\ UNCHANGED <<sVars, bVars, gameState, mainPc>>

\* An event is made by a game task, or by the main thread when its port cannot
\* listen (ServicePort::onAccept).  An object that was handed over is not used
\* again here; one that never reached the dispatcher is.
CreateEvent ==
  /\ InBody(GameTask) \/ InHandler
  /\ \E e \in Event, d \in Delay : dPhase[e] = "created" /\ S!Create(e, d)
  /\ UNCHANGED <<dVars, bVars, gVars>>

CallScheduler ==
  /\ \E e \in Event :
       \/ InBody(GameTask) /\ (S!AddEvent(Worker, e) \/ S!StopEvent(e) \/ S!Forget(e))
       \/ InHandler /\ S!AddEvent(Io, e)
  /\ UNCHANGED <<dVars, bVars, gVars>>

CallDatabase ==
  /\ InBody(GameTask)
  /\ \E q \in Query : B!AddTask(Worker, q)
  /\ UNCHANGED <<dVars, sVars, gVars>>

-----------------------------------------------------------------------------
(* The scheduler and the database thread.                                  *)

\* g_dispatcher.addTask(task, true): the due event becomes a task at the front.
\* The variant queues it at the back.
HandOverAtBack ==
  /\ S!HandOver
  /\ D!AddTask(Sched, sTask, FALSE)
  /\ UNCHANGED <<bVars, gVars>>

HandOver ==
  /\ S!HandOver
  /\ D!AddTask(Sched, sTask, TRUE)
  /\ UNCHANGED <<bVars, gVars>>

SchedulerStep ==
  /\ Sched \notin dSignal
  /\ \/ S!TestState \/ S!WaitForSignal \/ S!WaitUntilTop \/ S!WaitTimeout
     \/ S!NoTimeout \/ S!TimeoutOnEmpty \/ S!PopTop
  /\ UNCHANGED <<dVars, bVars, gVars>>

\* runTask: g_dispatcher.addTask(callback).
PostCallback ==
  /\ B!RunCallback
  /\ D!AddTask(Db, bTask, FALSE)
  /\ UNCHANGED <<sVars, gVars>>

DatabaseStep ==
  /\ Db \notin dSignal
  /\ B!TestState \/ B!LockTasks \/ B!Wakeup \/ B!RunQuery
  /\ UNCHANGED <<dVars, sVars, gVars>>

\* The late notify_one of a thread's last call, into whichever queue it was.
Notify(c) ==
  /\ \/ D!Signal(c) /\ UNCHANGED <<sVars, bVars>>
     \/ S!Signal(c) /\ UNCHANGED <<dVars, bVars>>
     \/ B!Signal(c) /\ UNCHANGED <<dVars, sVars>>
  /\ UNCHANGED gVars

Tick == S!Tick /\ UNCHANGED <<dVars, bVars, gVars>>

SpuriousWakeup ==
  /\ \/ D!SpuriousWakeup /\ UNCHANGED <<sVars, bVars>>
     \/ S!SpuriousWakeup /\ UNCHANGED <<dVars, bVars>>
     \/ B!SpuriousWakeup /\ UNCHANGED <<dVars, sVars>>
  /\ UNCHANGED gVars

-----------------------------------------------------------------------------
(* The main thread: network and signal handlers.                           *)

Handler ==
  /\ InHandler
  /\ \E t \in Request \union Sig : D!AddTask(Io, t, FALSE)
  /\ UNCHANGED <<sVars, bVars, gVars>>

\* The death timer of ServiceManager::stop ends io_service::run.
Die ==
  /\ mainPc = "stopping"
  /\ InHandler
  /\ mainPc' = "joinScheduler"
  /\ UNCHANGED <<dVars, sVars, bVars, gameState, step>>

\* Thread after thread; the variant forgets the database thread.
JoinTwo ==
  /\ \/ mainPc = "joinScheduler"  /\ spc = "done" /\ mainPc' = "joinDispatcher"
     \/ mainPc = "joinDispatcher" /\ dpc = "done" /\ mainPc' = "exit"
  /\ UNCHANGED <<dVars, sVars, bVars, gameState, step>>

Join ==
  /\ \/ mainPc = "joinScheduler"  /\ spc = "done" /\ mainPc' = "joinDatabase"
     \/ mainPc = "joinDatabase"   /\ bpc = "done" /\ mainPc' = "joinDispatcher"
     \/ mainPc = "joinDispatcher" /\ dpc = "done" /\ mainPc' = "exit"
  /\ UNCHANGED <<dVars, sVars, bVars, gameState, step>>

-----------------------------------------------------------------------------
(* Game::setGameState(GAME_STATE_SHUTDOWN), the body of a Sig task.        *)

\* The first signal: the players are kicked and saved, synchronously, and
\* Game::shutdown is queued.  The variant closes the dispatcher before it.
CloseFirst ==
  /\ gameState # "SHUTDOWN"
  /\ gameState' = "SHUTDOWN"
  /\ dState' = "CLOSING"
  /\ dPhase' = [dPhase EXCEPT ![Kill] = "dropped"]
  /\ step' = "stopScheduler"
  /\ UNCHANGED <<taskList, dpc, dTask, dSignal>>

SetShutdown ==
  /\ gameState # "SHUTDOWN"
  /\ gameState' = "SHUTDOWN"
  /\ D!AddTask(Worker, Kill, FALSE)
  /\ step' = "stopScheduler"

\* A second signal returns early: the state cannot be left.
AlreadyShutdown ==
  /\ gameState = "SHUTDOWN"
  /\ step' = "end"
  /\ UNCHANGED <<dVars, gameState>>

SetGameState ==
  /\ InBody(Sig) /\ step = "none"
  /\ SetShutdown \/ AlreadyShutdown
  /\ UNCHANGED <<sVars, bVars, mainPc>>

StopThreads ==
  /\ InBody(Sig)
  /\ \/ step = "stopScheduler"  /\ S!Close /\ step' = "stopDatabase"   /\ UNCHANGED <<dVars, bVars>>
     \/ step = "stopDatabase"   /\ B!Close /\ step' = "stopDispatcher" /\ UNCHANGED <<dVars, sVars>>
     \/ step = "stopDispatcher" /\ D!Close /\ step' = "end"            /\ UNCHANGED <<sVars, bVars>>
  /\ UNCHANGED <<gameState, mainPc>>

-----------------------------------------------------------------------------
(* Game::shutdown, the body of Kill.                                       *)

ShutdownScheduler ==
  /\ InBody({Kill}) /\ step = "none"
  /\ S!Shutdown
  /\ step' = IF sHalt' = "yes" THEN "database" ELSE "none"
  /\ UNCHANGED <<dVars, bVars, gameState, mainPc>>

\* flush() runs here, on the dispatcher thread; its callbacks are queued.
ShutdownDatabase ==
  /\ InBody({Kill}) /\ step = "database"
  /\ \/ /\ B!ShutdownLock \/ B!FlushFront \/ B!ShutdownUnlock \/ B!ShutdownSignal
        /\ UNCHANGED dVars
     \/ B!FlushPop /\ D!AddTask(Worker, Head(queries), FALSE)
  /\ step' = IF bHalt' = "yes" THEN "dispatcher" ELSE "database"
  /\ UNCHANGED <<sVars, gameState, mainPc>>

ShutdownDispatcher ==
  /\ InBody({Kill}) /\ step = "dispatcher"
  /\ D!Shutdown(Worker)
  /\ step' = "services"
  /\ UNCHANGED <<sVars, bVars, gameState, mainPc>>

\* spawns and raids are cleared, objects released, ServiceManager::stop.
StopServices ==
  /\ InBody({Kill}) /\ step = "services"
  /\ mainPc' = "stopping"
  /\ step' = "end"
  /\ UNCHANGED <<dVars, sVars, bVars, gameState>>

Shutdown ==
  \/ SetGameState \/ StopThreads
  \/ ShutdownScheduler \/ ShutdownDatabase \/ ShutdownDispatcher \/ StopServices

-----------------------------------------------------------------------------
Next ==
  \/ DispatcherStep
  \/ CreateEvent \/ CallScheduler \/ CallDatabase
  \/ SchedulerStep \/ HandOver
  \/ DatabaseStep \/ PostCallback
  \/ (\E c \in {Worker, Sched, Db, Io} : Notify(c))
  \/ Tick \/ SpuriousWakeup
  \/ Handler \/ Die \/ Join
  \/ Shutdown

\* Every thread keeps running, its late signals included; nothing is assumed of
\* the handlers, of what game tasks ask for, and of spurious wakeups.
DispatcherThread == DispatcherStep \/ Shutdown \/ Notify(Worker)
SchedulerThread  == SchedulerStep \/ HandOver \/ Notify(Sched)
DatabaseThread   == DatabaseStep \/ PostCallback \/ Notify(Db)
MainThread       == Die \/ Join \/ Notify(Io)

Fairness ==
  /\ WF_vars(DispatcherThread) /\ WF_vars(SchedulerThread)
  /\ WF_vars(DatabaseThread) /\ WF_vars(MainThread)
  /\ WF_vars(Tick)

\* The dispatcher needs less to end: that its own thread runs, and that a caller
\* that has released its lock goes on.  The other threads may hang for ever.
DispatcherFairness ==
  /\ WF_vars(DispatcherThread)
  /\ WF_vars(\E c \in {Sched, Db, Io} : Notify(c))

Spec           == Init /\ [][Next]_vars
FairSpec       == Spec /\ Fairness
DispatcherSpec == Spec /\ DispatcherFairness

-----------------------------------------------------------------------------
(* Properties                                                              *)

\* Game::shutdown deletes spawns and raids that timed events point to.  From
\* the moment it runs no event is run or waiting to be run: those that were
\* handed over before went in front of it, the others are refused.
NoEventAfterShutdown ==
  dPhase[Kill] \in {"taken", "executed"} =>
    \A e \in Event : dPhase[e] \notin {"queued", "taken"}

\* When main returns, nothing that was accepted is left behind: no task, no
\* event and no query waits, and every accepted query reached the database.
ExitIsClean ==
  mainPc = "exit" =>
    /\ taskList = <<>> /\ eventList = {} /\ queries = <<>>
    /\ \A t \in Task : dPhase[t] \notin {"queued", "taken"}
    /\ \A i \in DOMAIN accepted : \E j \in DOMAIN executed : executed[j] = accepted[i]

\* A signal that asks for the shutdown ends the dispatcher thread.
DispatcherEnds == (\E g \in Sig : dPhase[g] = "queued") ~> dpc = "done"

\* signals.cpp says of SIGINT and SIGTERM: "Shuts the server down".
ServerExits == (\E g \in Sig : dPhase[g] = "queued") ~> mainPc = "exit"
=============================================================================

---------------------------- MODULE DatabaseTasks ----------------------------
(***************************************************************************)
(* The database thread of src/src/databasetasks.cpp: queries that nobody   *)
(* waits for are queued by DatabaseTasks::addTask and run in the background*)
(* by threadMain; shutdown() runs what is left in the calling thread.      *)
(*                                                                         *)
(* A critical section under taskLock is one step, except that of shutdown: *)
(* it holds the lock while it runs queries.  The state test of the loop,   *)
(* the query the thread runs and its callback are outside the lock.        *)
(***************************************************************************)
EXTENDS Naturals, Sequences

CONSTANTS Query,         \* the queries that callers may ask for
          WithCallback,  \* those with a callback
          Thread,        \* the threads that call in
          NoQuery

ASSUME DatabaseTasksAssumption ==
  /\ WithCallback \subseteq Query
  /\ NoQuery \notin Query

VARIABLES threadState,  \* ThreadHolder::threadState
          tasks,        \* DatabaseTasks::tasks
          pc,           \* where the database thread is in threadMain
          task,         \* the query it has taken from the list
          doSignal,     \* callers past addTask's unlock with signal set
          halt,         \* how far shutdown() has come
          accepted,     \* history: the queries addTask queued, in order
          executed,     \* history: the queries the database ran, in order
          posted        \* history: queries whose callback was handed over

vars == <<threadState, tasks, pc, task, doSignal, halt, accepted, executed, posted>>

ThreadStates == {"RUNNING", "CLOSING", "TERMINATED"}
Points == {"test", "lock", "waiting", "woken", "taken", "executed", "done"}
Halts  == {"no", "flush", "popping", "signal", "yes"}

Elements(s) == {s[i] : i \in DOMAIN s}

Init ==
  /\ threadState = "RUNNING"
  /\ tasks = <<>>
  /\ pc = "test"
  /\ task = NoQuery
  /\ doSignal = {}
  /\ halt = "no"
  /\ accepted = <<>>
  /\ executed = <<>>
  /\ posted = {}

\* shutdown() holds taskLock until its flush is over.
LockFree == halt \notin {"flush", "popping"}

-----------------------------------------------------------------------------
(* Calls from other threads.                                               *)

\* addTask, up to the unlock.  Without a RUNNING thread the query is dropped.
AddTask(c, q) ==
  /\ LockFree
  /\ c \notin doSignal
  /\ q \notin Elements(accepted)
  /\ IF threadState = "RUNNING"
       THEN /\ doSignal' = IF tasks = <<>> THEN doSignal \union {c} ELSE doSignal
            /\ tasks' = Append(tasks, q)
            /\ accepted' = Append(accepted, q)
       ELSE UNCHANGED <<doSignal, tasks, accepted>>
  /\ UNCHANGED <<threadState, pc, task, halt, executed, posted>>

\* taskSignal.notify_one(): only the database thread ever waits on it.
NotifyOne == pc' = IF pc = "waiting" THEN "woken" ELSE pc

Signal(c) ==
  /\ c \in doSignal
  /\ doSignal' = doSignal \ {c}
  /\ NotifyOne
  /\ UNCHANGED <<threadState, tasks, task, halt, accepted, executed, posted>>

\* ThreadHolder::stop
Close ==
  /\ halt = "no"
  /\ threadState' = "CLOSING"
  /\ UNCHANGED <<tasks, pc, task, doSignal, halt, accepted, executed, posted>>

-----------------------------------------------------------------------------
(* DatabaseTasks::shutdown, and the flush it does under the lock.          *)

ShutdownLock ==
  /\ halt = "no"
  /\ halt' = "flush"
  /\ threadState' = "TERMINATED"
  /\ UNCHANGED <<tasks, pc, task, doSignal, accepted, executed, posted>>

\* runTask(tasks.front()): the query runs before it is popped; the variant
\* runs the last one first.
FlushLast ==
  /\ halt = "flush"
  /\ tasks # <<>>
  /\ executed' = Append(executed, tasks[Len(tasks)])
  /\ halt' = "popping"
  /\ UNCHANGED <<threadState, tasks, pc, task, doSignal, accepted, posted>>

FlushFront ==
  /\ halt = "flush"
  /\ tasks # <<>>
  /\ executed' = Append(executed, Head(tasks))
  /\ halt' = "popping"
  /\ UNCHANGED <<threadState, tasks, pc, task, doSignal, accepted, posted>>

\* runTask hands the callback of a query, if any, to the dispatcher.  The
\* variant forgets it.
PostNothing(q) == posted' = posted
Post(q) == posted' = posted \union ({q} \intersect WithCallback)

\* Then its callback is handed over, and it is popped.
FlushPop ==
  /\ halt = "popping"
  /\ Post(Head(tasks))
  /\ tasks' = Tail(tasks)
  /\ halt' = "flush"
  /\ UNCHANGED <<threadState, pc, task, doSignal, accepted, executed>>

\* The variant gives the lock back without a flush.
UnlockUnflushed ==
  /\ halt = "flush"
  /\ halt' = "signal"
  /\ UNCHANGED <<threadState, tasks, pc, task, doSignal, accepted, executed, posted>>

ShutdownUnlock ==
  /\ halt = "flush"
  /\ tasks = <<>>
  /\ halt' = "signal"
  /\ UNCHANGED <<threadState, tasks, pc, task, doSignal, accepted, executed, posted>>

ShutdownSignal ==
  /\ halt = "signal"
  /\ halt' = "yes"
  /\ NotifyOne
  /\ UNCHANGED <<threadState, tasks, task, doSignal, accepted, executed, posted>>

FinishShutdown == FlushFront \/ FlushPop \/ ShutdownUnlock \/ ShutdownSignal

-----------------------------------------------------------------------------
(* DatabaseTasks::threadMain                                               *)

Step(from, to) ==
  /\ pc = from
  /\ pc' = to
  /\ UNCHANGED <<threadState, doSignal, halt, accepted>>

TestState ==
  /\ Step("test", IF threadState = "TERMINATED" THEN "done" ELSE "lock")
  /\ UNCHANGED <<tasks, task, executed, posted>>

\* The variant leaves the query in the list while it runs.
TakeUnpopped(from) ==
  /\ LockFree
  /\ tasks # <<>>
  /\ task' = Head(tasks)
  /\ Step(from, "taken")
  /\ UNCHANGED <<tasks, executed, posted>>

TakeFirst(from) ==
  /\ LockFree
  /\ tasks # <<>>
  /\ task' = Head(tasks)
  /\ tasks' = Tail(tasks)
  /\ Step(from, "taken")
  /\ UNCHANGED <<executed, posted>>

\* On an empty list: to wait, or from a finished wait back to the loop test.
FindNone(from, to) ==
  /\ LockFree
  /\ tasks = <<>>
  /\ Step(from, to)
  /\ UNCHANGED <<tasks, task, executed, posted>>

LockTasks == TakeFirst("lock")  \/ FindNone("lock", "waiting")
Wakeup    == TakeFirst("woken") \/ FindNone("woken", "test")

\* A condition variable may wake up without a signal.
SpuriousWakeup ==
  /\ Step("waiting", "woken")
  /\ UNCHANGED <<tasks, task, executed, posted>>

\* runTask, outside the lock: the query ...
RunQuery ==
  /\ Step("taken", "executed")
  /\ executed' = Append(executed, task)
  /\ UNCHANGED <<tasks, task, posted>>

\* ... and its callback.
RunCallback ==
  /\ Step("executed", "test")
  /\ Post(task)
  /\ task' = NoQuery
  /\ UNCHANGED <<tasks, executed>>

ThreadMain == TestState \/ LockTasks \/ Wakeup \/ RunQuery \/ RunCallback

-----------------------------------------------------------------------------
Next ==
  \/ \E c \in Thread, q \in Query : AddTask(c, q)
  \/ \E c \in Thread : Signal(c)
  \/ Close \/ ShutdownLock \/ FinishShutdown
  \/ ThreadMain \/ SpuriousWakeup

\* The database thread runs its loop and queries return, a caller that has
\* released the lock goes on to its notify_one, and so does shutdown().
Fairness ==
  /\ WF_vars(ThreadMain)
  /\ WF_vars(FinishShutdown)
  /\ \A c \in Thread : WF_vars(Signal(c))

Spec     == Init /\ [][Next]_vars
FairSpec == Spec /\ Fairness

-----------------------------------------------------------------------------
(* Properties                                                              *)

\* Every variable stays in its range.
TypeOK ==
  /\ threadState \in ThreadStates
  /\ tasks \in Seq(Query)
  /\ pc \in Points
  /\ task \in Query \union {NoQuery}
  /\ doSignal \subseteq Thread
  /\ halt \in Halts
  /\ accepted \in Seq(Query)
  /\ executed \in Seq(Query)
  /\ posted \subseteq Query

\* A query that addTask queued is executed once, by the thread or by the
\* flush, never by both: while it is not executed it is in the list, or it
\* is the one the thread has taken, and the two never meet.
ExecutedOnce ==
  /\ \A i, j \in DOMAIN executed : executed[i] = executed[j] => i = j
  /\ Elements(accepted) = Elements(tasks) \union ({task} \ {NoQuery}) \union Elements(executed)
  /\ task \notin Elements(tasks)

\* Queries are executed in the order in which addTask accepted them, with one
\* exception: flush() overtakes the query that the thread has in flight.
OnlyInFlightOvertaken ==
  [][\A i, j \in DOMAIN accepted :
       i < j /\ accepted[j] \in Elements(executed') \ Elements(executed) =>
         \/ accepted[i] \in Elements(executed)
         \/ accepted[i] = task /\ threadState = "TERMINATED"]_vars

\* A callback is handed to the dispatcher only for a query that was executed,
\* and once threadMain and shutdown() are through, for each of them.
CallbackAfterQuery ==
  /\ posted \subseteq Elements(executed)
  /\ Elements(executed) \intersect WithCallback \subseteq
       posted \union {task} \union (IF halt = "popping" THEN {Head(tasks)} ELSE {})

\* Every query that addTask queued is executed, whatever happens at shutdown.
AcceptedQueryRuns ==
  \A q \in Query : q \in Elements(accepted) ~> q \in Elements(executed)
=============================================================================

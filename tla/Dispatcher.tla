----------------------------- MODULE Dispatcher -----------------------------
(***************************************************************************)
(* The dispatcher thread of src/src/tasks.cpp: every other thread hands it *)
(* tasks through Dispatcher::addTask, and Dispatcher::threadMain runs them *)
(* one at a time.  All game logic runs inside those tasks.                 *)
(*                                                                         *)
(* A critical section under taskLock is one step, because everything it    *)
(* touches is touched under that lock only; what happens outside the lock  *)
(* (the state test of the loop, the late notify_one of addTask, the run of *)
(* the task) is a step of its own.                                         *)
(***************************************************************************)
EXTENDS Naturals, Sequences, FiniteSets

CONSTANTS Task,      \* task objects that callers may create
          Timed,     \* those created with an expiration time
          Thread,    \* the threads that call in, other than the dispatcher
          Worker,    \* the dispatcher thread itself
          Stop,      \* the task that Dispatcher::shutdown creates
          NoTask

ASSUME DispatcherAssumption ==
  /\ Timed \subseteq Task
  /\ Stop \notin Task
  /\ NoTask \notin Task \union {Stop}
  /\ Worker \notin Thread

VARIABLES threadState,  \* ThreadHolder::threadState
          taskList,     \* Dispatcher::taskList
          pc,           \* where the dispatcher thread is in threadMain
          task,         \* the task threadMain has taken from the list
          doSignal,     \* callers past addTask's unlock with do_signal set
          phase         \* the life of every task object

vars == <<threadState, taskList, pc, task, doSignal, phase>>

AnyTask == Task \union {Stop}
Caller  == Thread \union {Worker}

ThreadStates == {"RUNNING", "CLOSING", "TERMINATED"}
Points       == {"test", "lock", "waiting", "woken", "taken", "running", "done"}
\* An executed, expired or dropped task has been deleted.
Phases       == {"created", "queued", "taken", "executed", "expired", "dropped"}

Queued == {taskList[i] : i \in DOMAIN taskList}

Init ==
  /\ threadState = "RUNNING"
  /\ taskList = <<>>
  /\ pc = "test"
  /\ task = NoTask
  /\ doSignal = {}
  /\ phase = [t \in AnyTask |-> "created"]

-----------------------------------------------------------------------------
(* Calls into the dispatcher, from any thread.                             *)

\* A thread makes one call at a time; the dispatcher thread calls in from
\* the body of the task it runs.
CanCall(c) ==
  /\ c \notin doSignal
  /\ c = Worker => pc = "running" /\ task # Stop

\* taskSignal.notify_one(): only the dispatcher thread ever waits on it.
NotifyOne == pc' = IF pc = "waiting" THEN "woken" ELSE pc

\* push_front or push_back.
Insert(t, pushFront) == IF pushFront THEN <<t>> \o taskList ELSE Append(taskList, t)

\* do_signal is read before the push; the variant reads it after the push.
ListWasEmptyTooLate == FALSE
ListWasEmpty        == taskList = <<>>

\* Dispatcher::addTask, up to the unlock.
AddTask(c, t, pushFront) ==
  /\ CanCall(c)
  /\ phase[t] = "created"
  /\ IF threadState = "RUNNING"
       THEN /\ doSignal' = IF ListWasEmpty THEN doSignal \union {c} ELSE doSignal
            /\ taskList' = Insert(t, pushFront)
            /\ phase' = [phase EXCEPT ![t] = "queued"]
       ELSE /\ phase' = [phase EXCEPT ![t] = "dropped"]
            /\ UNCHANGED <<taskList, doSignal>>
  /\ UNCHANGED <<threadState, pc, task>>

\* The end of addTask: the signal is sent after the lock was released.
Signal(c) ==
  /\ c \in doSignal
  /\ doSignal' = doSignal \ {c}
  /\ NotifyOne
  /\ UNCHANGED <<threadState, taskList, task, phase>>

\* Where shutdown puts its task; the variant puts it in front of all others.
StopFirst == <<Stop>> \o taskList
StopLast  == Append(taskList, Stop)

\* Dispatcher::shutdown queues Stop whatever the state is, and signals while
\* it holds the lock.
Shutdown(c) ==
  /\ CanCall(c)
  /\ phase[Stop] = "created"
  /\ taskList' = StopLast
  /\ phase' = [phase EXCEPT ![Stop] = "queued"]
  /\ NotifyOne
  /\ UNCHANGED <<threadState, task, doSignal>>

\* ThreadHolder::stop, called by Game::setGameState inside a task.
Close ==
  /\ CanCall(Worker)
  /\ threadState' = "CLOSING"
  /\ UNCHANGED <<taskList, pc, task, doSignal, phase>>

-----------------------------------------------------------------------------
(* Dispatcher::threadMain                                                  *)

TestState ==
  /\ pc = "test"
  /\ pc' = IF threadState = "TERMINATED" THEN "done" ELSE "lock"
  /\ UNCHANGED <<threadState, taskList, task, doSignal, phase>>

\* pop_front; the variants leave the task in the list, and take the last.
TakeFirstUnpopped ==
  /\ taskList # <<>>
  /\ task' = Head(taskList)
  /\ phase' = [phase EXCEPT ![Head(taskList)] = "taken"]
  /\ pc' = "taken"
  /\ UNCHANGED <<threadState, taskList, doSignal>>

TakeLast ==
  /\ taskList # <<>>
  /\ task' = taskList[Len(taskList)]
  /\ taskList' = SubSeq(taskList, 1, Len(taskList) - 1)
  /\ phase' = [phase EXCEPT ![taskList[Len(taskList)]] = "taken"]
  /\ pc' = "taken"
  /\ UNCHANGED <<threadState, doSignal>>

TakeFirst ==
  /\ taskList # <<>>
  /\ task' = Head(taskList)
  /\ taskList' = Tail(taskList)
  /\ phase' = [phase EXCEPT ![Head(taskList)] = "taken"]
  /\ pc' = "taken"
  /\ UNCHANGED <<threadState, doSignal>>

WaitForSignal ==
  /\ taskList = <<>>
  /\ pc' = "waiting"
  /\ UNCHANGED <<threadState, taskList, task, doSignal, phase>>

\* taskLock is taken: the first task, or a wait when there is none.
LockList == pc = "lock" /\ (TakeFirst \/ WaitForSignal)

\* A condition variable may wake up without a signal.
SpuriousWakeup ==
  /\ pc = "waiting"
  /\ pc' = "woken"
  /\ UNCHANGED <<threadState, taskList, task, doSignal, phase>>

\* The wait returned with the lock held: a task, or back to the loop test.
Wakeup ==
  /\ pc = "woken"
  /\ \/ TakeFirst
     \/ /\ taskList = <<>>
        /\ pc' = "test"
        /\ UNCHANGED <<threadState, taskList, task, doSignal, phase>>

\* A bug: hasExpired() forgets that SYSTEM_TIME_ZERO means "never".
ExpireAny ==
  /\ pc = "taken"
  /\ phase' = [phase EXCEPT ![task] = "expired"]
  /\ task' = NoTask
  /\ pc' = "test"
  /\ UNCHANGED <<threadState, taskList, doSignal>>

\* hasExpired() is read once, after the unlock; only a timed task can expire.
Expire ==
  /\ pc = "taken"
  /\ task \in Timed
  /\ phase' = [phase EXCEPT ![task] = "expired"]
  /\ task' = NoTask
  /\ pc' = "test"
  /\ UNCHANGED <<threadState, taskList, doSignal>>

Begin ==
  /\ pc = "taken"
  /\ pc' = "running"
  /\ UNCHANGED <<threadState, taskList, task, doSignal, phase>>

\* The task returns and is deleted.  Stop's body sets the final state; its
\* notify_one finds nobody waiting, for the only waiter runs it.
Finish ==
  /\ pc = "running"
  /\ Worker \notin doSignal
  /\ threadState' = IF task = Stop THEN "TERMINATED" ELSE threadState
  /\ phase' = [phase EXCEPT ![task] = "executed"]
  /\ task' = NoTask
  /\ pc' = "test"
  /\ UNCHANGED <<taskList, doSignal>>

ThreadMain == TestState \/ LockList \/ Wakeup \/ Expire \/ Begin \/ Finish

-----------------------------------------------------------------------------
Next ==
  \/ \E c \in Caller, t \in Task, pushFront \in BOOLEAN : AddTask(c, t, pushFront)
  \/ \E c \in Caller : Signal(c) \/ Shutdown(c)
  \/ Close
  \/ ThreadMain
  \/ SpuriousWakeup

\* The dispatcher thread keeps running its loop, task bodies return, and a
\* caller that has released the lock goes on to its notify_one.
Fairness == WF_vars(ThreadMain) /\ \A c \in Caller : WF_vars(Signal(c))

Spec     == Init /\ [][Next]_vars
FairSpec == Spec /\ Fairness
-----------------------------------------------------------------------------
(* Properties                                                              *)

\* Every variable stays in its range.
TypeOK ==
  /\ threadState \in ThreadStates
  /\ taskList \in Seq(AnyTask)
  /\ pc \in Points
  /\ task \in AnyTask \union {NoTask}
  /\ doSignal \subseteq Caller
  /\ phase \in [AnyTask -> Phases]

\* The dispatcher thread never sleeps on a list that holds a task unless a
\* caller is still about to signal it: addTask reads "the list is empty"
\* under the lock and signals after it, and no interleaving loses a wakeup.
NoLostWakeup == pc = "waiting" /\ taskList # <<>> => doSignal # {}

\* A task object has one owner: it is in the list once, or it is the one that
\* threadMain took, or it was deleted; so it is run at most once, deleted at
\* most once, and neither the list nor the thread ever holds a deleted one.
OneOwner ==
  /\ \A i, j \in DOMAIN taskList : taskList[i] = taskList[j] => i = j
  /\ \A t \in AnyTask : phase[t] = "queued" <=> t \in Queued
  /\ \A t \in AnyTask : phase[t] = "taken" <=> t = task
  /\ pc \in {"taken", "running"} <=> task # NoTask

\* A step takes tasks from the head only: a task that waits behind another
\* one neither runs before it nor changes places with it, even when a third
\* is pushed in front of both.
NoOvertaking ==
  [][\A i, j \in DOMAIN taskList :
       i < j =>
         \/ taskList[i] = task'
         \/ \E k, l \in DOMAIN taskList' :
              k < l /\ taskList'[k] = taskList[i] /\ taskList'[l] = taskList[j]]_vars

\* A task accepted before shutdown() was called is run, or found expired,
\* even if the server stops: the shutdown task queues up behind it.
AcceptedTaskRuns ==
  \A t \in Task :
    phase[t] = "queued" /\ phase[Stop] = "created" ~> phase[t] \in {"executed", "expired"}

\* The dispatcher is an Executor: no interleaving of the lock, the late notify_one
\* of addTask, spurious wakeups and the end of the thread shows to its callers,
\* neither in what is run and in which order nor in that it goes on.
E == INSTANCE Executor

ImplementsExecutor == E!FairSpec
=============================================================================

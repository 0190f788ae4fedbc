------------------------------- MODULE Executor -------------------------------
(***************************************************************************)
(* What the dispatcher (src/src/tasks.cpp, tasks.h) promises to those who  *)
(* call it, without the lock, the condition variable and the thread that   *)
(* are behind it: tasks are run one at a time from the head of a list, each *)
(* accepted one at most once, and as long as the executor has not stopped  *)
(* it goes on to the next one.  Dispatcher implements this.                *)
(***************************************************************************)
EXTENDS Sequences

CONSTANTS Task, Timed, Stop, NoTask

VARIABLES threadState, \* whether tasks are accepted, or run at all
          taskList,    \* the tasks that wait
          task,        \* the task that is being run or tested for expiration
          phase        \* the life of every task object

vars == <<threadState, taskList, task, phase>>

Init ==
  /\ threadState = "RUNNING" /\ taskList = <<>> /\ task = NoTask
  /\ phase = [t \in Task \union {Stop} |-> "created"]

Becomes(t, p) == phase' = [phase EXCEPT ![t] = p]

\* A task is accepted at either end of the list as long as nobody has closed the
\* executor; then it is deleted.
Submit(t) ==
  /\ phase[t] = "created" /\ threadState = "RUNNING"
  /\ taskList' \in {<<t>> \o taskList, Append(taskList, t)}
  /\ Becomes(t, "queued")
  /\ UNCHANGED <<threadState, task>>

Refuse(t) ==
  /\ phase[t] = "created" /\ threadState # "RUNNING"
  /\ Becomes(t, "dropped")
  /\ UNCHANGED <<threadState, taskList, task>>

\* The end is a task, too: it comes last, and is accepted whatever the state.
SubmitStop ==
  /\ phase[Stop] = "created"
  /\ taskList' = Append(taskList, Stop)
  /\ Becomes(Stop, "queued")
  /\ UNCHANGED <<threadState, task>>

\* Only a task that is being run closes the executor.
Close ==
  /\ task \notin {NoTask, Stop}
  /\ threadState' = "CLOSING"
  /\ UNCHANGED <<taskList, task, phase>>

Start ==
  /\ task = NoTask /\ taskList # <<>> /\ threadState # "TERMINATED"
  /\ task' = Head(taskList) /\ taskList' = Tail(taskList)
  /\ Becomes(Head(taskList), "taken")
  /\ UNCHANGED threadState

\* The task has been run, or was too late.
End ==
  /\ task # NoTask
  /\ \/ Becomes(task, "executed")
     \/ task \in Timed /\ Becomes(task, "expired")
  /\ threadState' = IF task = Stop THEN "TERMINATED" ELSE threadState
  /\ task' = NoTask
  /\ UNCHANGED taskList

Next ==
  \/ \E t \in Task : Submit(t) \/ Refuse(t)
  \/ SubmitStop \/ Close \/ Start \/ End

Spec == Init /\ [][Next]_vars

\* The executor does not rest while a task waits, and no task runs for ever.
FairSpec == Spec /\ WF_vars(Start) /\ WF_vars(End)
=============================================================================

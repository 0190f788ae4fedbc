-------------------------- MODULE DispatcherProofs --------------------------
(***************************************************************************)
(* The safety properties of the dispatcher hold for any number of threads  *)
(* and tasks.  TypeOK and OneOwner are inductive together; NoLostWakeup is *)
(* inductive on its own; NoOvertaking follows from the type of the list.   *)
(***************************************************************************)
EXTENDS Dispatcher, TLAPS

-----------------------------------------------------------------------------
(* What push_back, push_front and pop_front do to the list                 *)

ElementsOf(s) == {s[i] : i \in DOMAIN s}
NoDuplicates(s) == \A i, j \in DOMAIN s : s[i] = s[j] => i = j

\* A task pushed at the back joins the elements, and is there once if it is new.
LEMMA PushBack ==
  ASSUME NEW S, NEW s \in Seq(S), NEW x \in S
  PROVE  /\ Append(s, x) \in Seq(S)
         /\ ElementsOf(Append(s, x)) = ElementsOf(s) \union {x}
         /\ NoDuplicates(s) /\ x \notin ElementsOf(s) => NoDuplicates(Append(s, x))
<1> DEFINE t == Append(s, x)
<1>1. /\ t \in Seq(S)
      /\ Len(t) = Len(s) + 1
      /\ \A i \in 1 .. Len(t) : t[i] = IF i = Len(t) THEN x ELSE s[i]
  OBVIOUS
<1>2. ElementsOf(t) = ElementsOf(s) \union {x}
  <2>1. ElementsOf(t) \subseteq ElementsOf(s) \union {x}
    BY <1>1 DEF ElementsOf
  <2>2. x \in ElementsOf(t)
    BY <1>1 DEF ElementsOf
  <2>3. ASSUME NEW i \in DOMAIN s  PROVE s[i] \in ElementsOf(t)
    <3>1. i \in 1 .. Len(t) /\ t[i] = s[i]
      BY <1>1
    <3> QED BY <3>1, <1>1 DEF ElementsOf
  <2> QED BY <2>1, <2>2, <2>3 DEF ElementsOf
<1>3. NoDuplicates(s) /\ x \notin ElementsOf(s) => NoDuplicates(t)
  BY <1>1 DEF ElementsOf, NoDuplicates
<1> QED BY <1>1, <1>2, <1>3

\* The same for a task pushed in front.
LEMMA PushFront ==
  ASSUME NEW S, NEW s \in Seq(S), NEW x \in S
  PROVE  /\ <<x>> \o s \in Seq(S)
         /\ ElementsOf(<<x>> \o s) = ElementsOf(s) \union {x}
         /\ NoDuplicates(s) /\ x \notin ElementsOf(s) => NoDuplicates(<<x>> \o s)
<1> DEFINE t == <<x>> \o s
<1>1. /\ t \in Seq(S)
      /\ Len(t) = Len(s) + 1
      /\ \A i \in 1 .. Len(t) : t[i] = IF i = 1 THEN x ELSE s[i - 1]
  OBVIOUS
<1>2. ElementsOf(t) = ElementsOf(s) \union {x}
  <2>1. ElementsOf(t) \subseteq ElementsOf(s) \union {x}
    BY <1>1 DEF ElementsOf
  <2>2. x \in ElementsOf(t)
    BY <1>1 DEF ElementsOf
  <2>3. ASSUME NEW i \in DOMAIN s  PROVE s[i] \in ElementsOf(t)
    <3>1. i + 1 \in 1 .. Len(t) /\ t[i + 1] = s[i]
      BY <1>1
    <3> QED BY <3>1, <1>1 DEF ElementsOf
  <2> QED BY <2>1, <2>2, <2>3 DEF ElementsOf
<1>3. NoDuplicates(s) /\ x \notin ElementsOf(s) => NoDuplicates(t)
  BY <1>1 DEF ElementsOf, NoDuplicates
<1> QED BY <1>1, <1>2, <1>3

\* pop_front removes the first element, and it alone.
LEMMA PopFront ==
  ASSUME NEW S, NEW s \in Seq(S), s # <<>>
  PROVE  /\ Head(s) \in S /\ Tail(s) \in Seq(S)
         /\ Head(s) \in ElementsOf(s)
         /\ NoDuplicates(s) => /\ NoDuplicates(Tail(s))
                               /\ ElementsOf(Tail(s)) = ElementsOf(s) \ {Head(s)}
<1>1. /\ Head(s) \in S /\ Tail(s) \in Seq(S)
      /\ Len(s) \in Nat \ {0} /\ Head(s) = s[1]
      /\ Len(Tail(s)) = Len(s) - 1
      /\ \A i \in 1 .. Len(s) - 1 : Tail(s)[i] = s[i + 1]
  OBVIOUS
<1>2. Head(s) \in ElementsOf(s)
  BY <1>1 DEF ElementsOf
<1>3. ASSUME NoDuplicates(s)
      PROVE  NoDuplicates(Tail(s)) /\ ElementsOf(Tail(s)) = ElementsOf(s) \ {Head(s)}
  <2>1. NoDuplicates(Tail(s))
    BY <1>1, <1>3 DEF NoDuplicates
  <2>2. ElementsOf(Tail(s)) \subseteq ElementsOf(s) \ {Head(s)}
    BY <1>1, <1>3 DEF ElementsOf, NoDuplicates
  <2>3. ASSUME NEW i \in DOMAIN s, s[i] # Head(s)  PROVE s[i] \in ElementsOf(Tail(s))
    <3>1. i - 1 \in 1 .. Len(s) - 1 /\ Tail(s)[i - 1] = s[i]
      BY <1>1, <2>3
    <3> QED BY <3>1, <1>1 DEF ElementsOf
  <2> QED BY <2>1, <2>2, <2>3 DEF ElementsOf
<1> QED BY <1>1, <1>2, <1>3

\* Every element is the first one or comes after it.
LEMMA FirstAndRest ==
  ASSUME NEW S, NEW s \in Seq(S), s # <<>>
  PROVE  ElementsOf(s) = {Head(s)} \union ElementsOf(Tail(s))
<1>1. /\ Len(s) \in Nat \ {0} /\ Head(s) = s[1]
      /\ DOMAIN s = 1 .. Len(s) /\ DOMAIN Tail(s) = 1 .. Len(s) - 1
      /\ \A i \in 1 .. Len(s) - 1 : Tail(s)[i] = s[i + 1]
  OBVIOUS
<1>2. ASSUME NEW i \in DOMAIN s  PROVE s[i] \in {Head(s)} \union ElementsOf(Tail(s))
  <2>1. CASE i = 1
    BY <1>1, <2>1
  <2>2. CASE i # 1
    <3>1. i - 1 \in DOMAIN Tail(s) /\ Tail(s)[i - 1] = s[i]
      BY <1>1, <2>2
    <3> QED BY <3>1 DEF ElementsOf
  <2> QED BY <2>1, <2>2
<1>3. ASSUME NEW i \in DOMAIN Tail(s)  PROVE Tail(s)[i] \in ElementsOf(s)
  <2>1. i + 1 \in DOMAIN s /\ Tail(s)[i] = s[i + 1]
    BY <1>1
  <2> QED BY <2>1 DEF ElementsOf
<1>4. Head(s) \in ElementsOf(s)
  BY <1>1 DEF ElementsOf
<1> QED BY <1>2, <1>3, <1>4 DEF ElementsOf

-----------------------------------------------------------------------------
(* Type correctness                                                        *)

LEMMA TypeInit == Init => TypeOK
  BY DispatcherAssumption DEF Init, TypeOK, AnyTask, ThreadStates, Points, Phases

LEMMA TypeStep == TypeOK /\ [Next]_vars => TypeOK'
<1> SUFFICES ASSUME TypeOK, [Next]_vars  PROVE TypeOK'
  OBVIOUS
<1> USE DispatcherAssumption DEF TypeOK, AnyTask, Caller, ThreadStates, Points, Phases
<1>1. ASSUME NEW c \in Caller, NEW t \in Task, NEW pushFront \in BOOLEAN,
             AddTask(c, t, pushFront)
      PROVE  TypeOK'
  <2>1. Insert(t, pushFront) \in Seq(AnyTask)
    BY PushBack, PushFront DEF Insert
  <2> QED BY <1>1, <2>1 DEF AddTask
<1>2. ASSUME NEW c \in Caller, Signal(c)  PROVE TypeOK'
  BY <1>2 DEF Signal, NotifyOne
<1>3. ASSUME NEW c \in Caller, Shutdown(c)  PROVE TypeOK'
  BY <1>3 DEF Shutdown, NotifyOne, StopLast
<1>4. CASE Close
  BY <1>4 DEF Close
<1>5. CASE TestState
  BY <1>5 DEF TestState
<1>6. CASE TakeFirst
  BY <1>6, PopFront DEF TakeFirst
<1>7. CASE WaitForSignal
  BY <1>7 DEF WaitForSignal
<1>8. CASE Wakeup
  BY <1>8, <1>6 DEF Wakeup
<1>9. CASE Expire \/ Begin \/ Finish \/ SpuriousWakeup
  BY <1>9 DEF Expire, Begin, Finish, SpuriousWakeup
<1>10. CASE UNCHANGED vars
  BY <1>10 DEF vars
<1> QED
  BY <1>1, <1>2, <1>3, <1>4, <1>5, <1>6, <1>7, <1>8, <1>9, <1>10
  DEF Next, ThreadMain, LockList

\* Every variable stays in its range, for any set of threads and tasks.
THEOREM TypeCorrect == Spec => []TypeOK
  BY TypeInit, TypeStep, PTL DEF Spec

-----------------------------------------------------------------------------
(* One owner per task object                                               *)

LEMMA OwnerInit == Init => OneOwner
  BY DispatcherAssumption DEF Init, OneOwner, Queued, AnyTask

LEMMA OwnerStep == TypeOK /\ OneOwner /\ [Next]_vars => OneOwner'
<1> SUFFICES ASSUME TypeOK, OneOwner, [Next]_vars  PROVE OneOwner'
  OBVIOUS
<1>a. /\ NoDuplicates(taskList)
      /\ \A t \in AnyTask : phase[t] = "queued" <=> t \in ElementsOf(taskList)
  BY DEF OneOwner, NoDuplicates, ElementsOf, Queued
<1>b. /\ taskList \in Seq(AnyTask) /\ phase \in [AnyTask -> Phases]
      /\ task \in AnyTask \union {NoTask} /\ NoTask \notin AnyTask
      /\ Stop \in AnyTask /\ Task \subseteq AnyTask /\ Timed \subseteq AnyTask
      /\ \A t \in AnyTask : phase[t] = "taken" <=> t = task
      /\ pc \in {"taken", "running"} <=> task # NoTask
  BY DispatcherAssumption DEF TypeOK, OneOwner, AnyTask
\* It is enough to look at the two parts of OneOwner a step can disturb.
<1>c. ASSUME NoDuplicates(taskList'),
             \A t \in AnyTask : phase'[t] = "queued" <=> t \in ElementsOf(taskList'),
             \A t \in AnyTask : phase'[t] = "taken" <=> t = task',
             pc' \in {"taken", "running"} <=> task' # NoTask
      PROVE  OneOwner'
  BY <1>c DEF OneOwner, NoDuplicates, ElementsOf, Queued
<1>1. ASSUME NEW c \in Caller, NEW t \in Task, NEW pushFront \in BOOLEAN,
             AddTask(c, t, pushFront)
      PROVE  OneOwner'
  <2>1. t \notin ElementsOf(taskList) /\ t # task /\ phase[t] = "created"
    BY <1>1, <1>a, <1>b DEF AddTask
  <2>2. /\ NoDuplicates(Insert(t, pushFront))
        /\ ElementsOf(Insert(t, pushFront)) = ElementsOf(taskList) \union {t}
    BY <2>1, <1>a, <1>b, PushBack, PushFront DEF Insert
  <2>3. UNCHANGED <<pc, task>>
    BY <1>1 DEF AddTask
  <2>4. CASE threadState = "RUNNING"
    <3>1. taskList' = Insert(t, pushFront) /\ phase' = [phase EXCEPT ![t] = "queued"]
      BY <1>1, <2>4 DEF AddTask
    <3> QED BY <2>1, <2>2, <2>3, <3>1, <1>a, <1>b, <1>c
  <2>5. CASE threadState # "RUNNING"
    <3>1. taskList' = taskList /\ phase' = [phase EXCEPT ![t] = "dropped"]
      BY <1>1, <2>5 DEF AddTask
    <3> QED BY <2>1, <2>3, <3>1, <1>a, <1>b, <1>c
  <2> QED BY <2>4, <2>5
<1>2. ASSUME NEW c \in Caller, Signal(c)  PROVE OneOwner'
  BY <1>2, <1>a, <1>b, <1>c DEF Signal, NotifyOne
<1>3. ASSUME NEW c \in Caller, Shutdown(c)  PROVE OneOwner'
  <2>1. Stop \notin ElementsOf(taskList) /\ Stop # task
    BY <1>3, <1>a, <1>b DEF Shutdown
  <2>2. /\ NoDuplicates(taskList')
        /\ ElementsOf(taskList') = ElementsOf(taskList) \union {Stop}
    BY <2>1, <1>3, <1>a, <1>b, PushBack DEF Shutdown, StopLast
  <2>3. phase' = [phase EXCEPT ![Stop] = "queued"] /\ task' = task
    BY <1>3 DEF Shutdown
  <2>4. pc' \in {"taken", "running"} <=> task' # NoTask
    BY <1>3, <1>b DEF Shutdown, NotifyOne
  <2> QED BY <2>1, <2>2, <2>3, <2>4, <1>a, <1>b, <1>c
<1>4. CASE Close
  BY <1>4, <1>a, <1>b, <1>c DEF Close
<1>5. CASE TestState
  BY <1>5, <1>a, <1>b, <1>c DEF TestState
<1>6. ASSUME TakeFirst, pc \in {"lock", "woken"}  PROVE OneOwner'
  <2>1. /\ Head(taskList) \in ElementsOf(taskList) /\ Head(taskList) \in AnyTask
        /\ NoDuplicates(Tail(taskList))
        /\ ElementsOf(Tail(taskList)) = ElementsOf(taskList) \ {Head(taskList)}
    BY <1>6, <1>a, <1>b, PopFront DEF TakeFirst
  <2>2. task = NoTask
    BY <1>6, <1>b
  <2>3. /\ taskList' = Tail(taskList) /\ task' = Head(taskList) /\ pc' = "taken"
        /\ phase' = [phase EXCEPT ![Head(taskList)] = "taken"]
    BY <1>6 DEF TakeFirst
  <2> QED BY <2>1, <2>2, <2>3, <1>a, <1>b, <1>c
<1>7. CASE LockList
  BY <1>6, <1>7, <1>a, <1>b, <1>c DEF LockList, WaitForSignal
<1>8. CASE Wakeup
  BY <1>6, <1>8, <1>a, <1>b, <1>c DEF Wakeup
<1>9. CASE Expire
  BY <1>9, <1>a, <1>b, <1>c DEF Expire
<1>10. CASE Begin
  BY <1>10, <1>a, <1>b, <1>c DEF Begin
<1>11. CASE Finish
  BY <1>11, <1>a, <1>b, <1>c DEF Finish
<1>12. CASE SpuriousWakeup
  BY <1>12, <1>a, <1>b, <1>c DEF SpuriousWakeup
<1>13. CASE UNCHANGED vars
  BY <1>13, <1>a, <1>b, <1>c DEF vars
<1> QED
  BY <1>1, <1>2, <1>3, <1>4, <1>5, <1>7, <1>8, <1>9, <1>10, <1>11, <1>12, <1>13
  DEF Next, ThreadMain

\* No interleaving of callers, timeouts and shutdown makes the dispatcher run
\* or delete a task twice, or hold one that was deleted.
THEOREM TasksHaveOneOwner == Spec => []OneOwner
  BY TypeInit, TypeStep, OwnerInit, OwnerStep, PTL DEF Spec

-----------------------------------------------------------------------------
(* No lost wakeup                                                          *)

LEMMA WakeupInit == Init => NoLostWakeup
  BY DEF Init, NoLostWakeup

LEMMA WakeupStep == NoLostWakeup /\ [Next]_vars => NoLostWakeup'
<1> SUFFICES ASSUME NoLostWakeup, [Next]_vars  PROVE NoLostWakeup'
  OBVIOUS
<1> USE DEF NoLostWakeup
\* Only a caller that found a waiting list empty can make it non-empty, and
\* then it owes a signal.
<1>1. ASSUME NEW c \in Caller, NEW t \in Task, NEW pushFront \in BOOLEAN,
             AddTask(c, t, pushFront)
      PROVE  NoLostWakeup'
  BY <1>1 DEF AddTask, ListWasEmpty
<1>2. ASSUME NEW c \in Caller, Signal(c)  PROVE NoLostWakeup'
  BY <1>2 DEF Signal, NotifyOne
<1>3. ASSUME NEW c \in Caller, Shutdown(c)  PROVE NoLostWakeup'
  BY <1>3 DEF Shutdown, NotifyOne
<1>4. CASE Close
  BY <1>4 DEF Close
<1>5. CASE ThreadMain
  BY <1>5 DEF ThreadMain, TestState, LockList, TakeFirst, WaitForSignal, Wakeup,
              Expire, Begin, Finish
<1>6. CASE SpuriousWakeup
  BY <1>6 DEF SpuriousWakeup
<1>7. CASE UNCHANGED vars
  BY <1>7 DEF vars
<1> QED BY <1>1, <1>2, <1>3, <1>4, <1>5, <1>6, <1>7 DEF Next

\* The dispatcher never sleeps on work that nobody is about to signal.
THEOREM NoWakeupIsLost == Spec => []NoLostWakeup
  BY WakeupInit, WakeupStep, PTL DEF Spec

-----------------------------------------------------------------------------
(* First in, first out                                                     *)

\* What NoOvertaking says of one step.
InOrder ==
  \A i, j \in DOMAIN taskList :
    i < j =>
      \/ taskList[i] = task'
      \/ \E k, l \in DOMAIN taskList' :
           k < l /\ taskList'[k] = taskList[i] /\ taskList'[l] = taskList[j]

\* A list that only moves by an offset keeps its order.
LEMMA ShiftKeepsOrder ==
  ASSUME NEW d \in Nat,
         \A i \in DOMAIN taskList : i + d \in DOMAIN taskList' /\ taskList'[i + d] = taskList[i],
         taskList \in Seq(AnyTask)
  PROVE  InOrder
<1> SUFFICES ASSUME NEW i \in DOMAIN taskList, NEW j \in DOMAIN taskList, i < j
             PROVE  \E k, l \in DOMAIN taskList' :
                      k < l /\ taskList'[k] = taskList[i] /\ taskList'[l] = taskList[j]
  BY DEF InOrder
<1>1. i + d < j + d
  OBVIOUS
<1> QED BY <1>1

LEMMA OrderStep == TypeOK /\ [Next]_vars => InOrder
<1> SUFFICES ASSUME TypeOK, [Next]_vars  PROVE InOrder
  OBVIOUS
<1>a. taskList \in Seq(AnyTask) /\ Stop \in AnyTask /\ Task \subseteq AnyTask
  BY DEF TypeOK, AnyTask
<1>b. ASSUME UNCHANGED taskList  PROVE InOrder
  <2>1. \A i \in DOMAIN taskList : i + 0 \in DOMAIN taskList' /\ taskList'[i + 0] = taskList[i]
    BY <1>a, <1>b
  <2> QED BY <1>a, <2>1, 0 \in Nat, ShiftKeepsOrder
<1>c. ASSUME NEW t \in AnyTask, taskList' = Append(taskList, t)  PROVE InOrder
  <2>1. \A i \in DOMAIN taskList : i + 0 \in DOMAIN taskList' /\ taskList'[i + 0] = taskList[i]
    BY <1>a, <1>c
  <2> QED BY <1>a, <2>1, 0 \in Nat, ShiftKeepsOrder
<1>d. ASSUME NEW t \in AnyTask, taskList' = <<t>> \o taskList  PROVE InOrder
  <2>1. \A i \in DOMAIN taskList : i + 1 \in DOMAIN taskList' /\ taskList'[i + 1] = taskList[i]
    BY <1>a, <1>d
  <2> QED BY <1>a, <2>1, 1 \in Nat, ShiftKeepsOrder
<1>1. ASSUME TakeFirst  PROVE InOrder
  <2>1. /\ task' = taskList[1] /\ taskList' = Tail(taskList) /\ Len(taskList) \in Nat
        /\ DOMAIN taskList = 1 .. Len(taskList)
        /\ DOMAIN Tail(taskList) = 1 .. Len(taskList) - 1
        /\ \A i \in 1 .. Len(taskList) - 1 : Tail(taskList)[i] = taskList[i + 1]
    BY <1>a, <1>1 DEF TakeFirst
  <2> SUFFICES ASSUME NEW i \in DOMAIN taskList, NEW j \in DOMAIN taskList,
                      i < j, taskList[i] # task'
               PROVE  \E k, l \in DOMAIN taskList' :
                        k < l /\ taskList'[k] = taskList[i] /\ taskList'[l] = taskList[j]
    BY DEF InOrder
  <2>2. i \in 2 .. Len(taskList) /\ j \in 2 .. Len(taskList)
    BY <2>1
  <2>3. /\ i - 1 \in DOMAIN taskList' /\ j - 1 \in DOMAIN taskList' /\ i - 1 < j - 1
        /\ taskList'[i - 1] = taskList[i] /\ taskList'[j - 1] = taskList[j]
    BY <2>1, <2>2
  <2> QED BY <2>3
<1>2. ASSUME NEW c \in Caller, NEW t \in Task, NEW pushFront \in BOOLEAN,
             AddTask(c, t, pushFront)
      PROVE  InOrder
  BY <1>2, <1>a, <1>b, <1>c, <1>d DEF AddTask, Insert
<1>3. ASSUME NEW c \in Caller, Signal(c) \/ Shutdown(c)  PROVE InOrder
  BY <1>3, <1>a, <1>b, <1>c DEF Signal, Shutdown, StopLast
<1>4. CASE Close \/ SpuriousWakeup
  BY <1>4, <1>b DEF Close, SpuriousWakeup
<1>5. CASE ThreadMain
  BY <1>5, <1>1, <1>b
  DEF ThreadMain, TestState, LockList, WaitForSignal, Wakeup, Expire, Begin, Finish
<1>6. CASE UNCHANGED vars
  BY <1>6, <1>b DEF vars
<1> QED BY <1>2, <1>3, <1>4, <1>5, <1>6 DEF Next

\* Tasks leave the list in its order, whatever is pushed in front meanwhile.
THEOREM TasksKeepTheirOrder == Spec => NoOvertaking
<1>1. TypeOK /\ [Next]_vars => [InOrder]_vars
  BY OrderStep
<1>2. Spec => [][InOrder]_vars
  BY <1>1, TypeInit, TypeStep, PTL DEF Spec
<1> QED BY <1>2 DEF NoOvertaking, InOrder

-----------------------------------------------------------------------------
(* The dispatcher implements an executor                                   *)

\* After the shutdown task the thread only looks at its state once more.
NothingAfterStop == threadState = "TERMINATED" => pc \in {"test", "done"}

LEMMA AfterStopStep ==
  ASSUME TypeOK, OneOwner, NothingAfterStop, [Next]_vars
  PROVE  NothingAfterStop'
<1> USE DEF NothingAfterStop
<1>1. ASSUME NEW c \in Caller, NEW t \in Task, NEW pushFront \in BOOLEAN,
             AddTask(c, t, pushFront)
      PROVE  NothingAfterStop'
  BY <1>1 DEF AddTask
<1>2. ASSUME NEW c \in Caller, Signal(c) \/ Shutdown(c)  PROVE NothingAfterStop'
  BY <1>2 DEF Signal, Shutdown, NotifyOne
<1>3. CASE Close
  BY <1>3 DEF Close
<1>4. CASE TestState \/ LockList \/ Wakeup
  BY <1>4 DEF TestState, LockList, Wakeup, TakeFirst, WaitForSignal
<1>5. CASE Expire \/ Begin \/ Finish \/ SpuriousWakeup
  BY <1>5 DEF Expire, Begin, Finish, SpuriousWakeup
<1>6. CASE UNCHANGED vars
  BY <1>6 DEF vars
<1> QED BY <1>1, <1>2, <1>3, <1>4, <1>5, <1>6 DEF Next, ThreadMain

\* A step of the dispatcher is a step of the executor, or one that does not show:
\* a signal, a test of the loop, a wait.
LEMMA StepImplements ==
  ASSUME TypeOK, OneOwner, NothingAfterStop, [Next]_vars
  PROVE  [E!Next]_(E!vars)
<1> USE DEF E!Next, E!vars
<1>0. pc \in {"taken", "running"} <=> task # NoTask
  BY DEF OneOwner
<1>1. ASSUME NEW c \in Caller, NEW t \in Task, NEW pushFront \in BOOLEAN,
             AddTask(c, t, pushFront)
      PROVE  E!Next
  <2>1. CASE threadState = "RUNNING"
    <3>1. taskList' \in {<<t>> \o taskList, Append(taskList, t)}
      BY <1>1, <2>1 DEF AddTask, Insert
    <3>2. E!Submit(t)
      BY <1>1, <2>1, <3>1 DEF AddTask, E!Submit, E!Becomes
    <3> QED BY <3>2
  <2>2. CASE threadState # "RUNNING"
    <3>1. E!Refuse(t)
      BY <1>1, <2>2 DEF AddTask, E!Refuse, E!Becomes
    <3> QED BY <3>1
  <2> QED BY <2>1, <2>2
<1>2. ASSUME NEW c \in Caller, Signal(c)  PROVE UNCHANGED E!vars
  BY <1>2 DEF Signal
<1>3. ASSUME NEW c \in Caller, Shutdown(c)  PROVE E!Next
  BY <1>3 DEF Shutdown, StopLast, E!SubmitStop, E!Becomes
<1>4. CASE Close
  BY <1>0, <1>4 DEF Close, CanCall, E!Close
<1>5. ASSUME TakeFirst, pc \in {"lock", "woken"}  PROVE E!Next
  BY <1>0, <1>5 DEF TakeFirst, NothingAfterStop, E!Start, E!Becomes
<1>6. CASE TestState \/ SpuriousWakeup \/ Begin
  BY <1>6 DEF TestState, SpuriousWakeup, Begin
<1>7. CASE LockList \/ Wakeup
  BY <1>5, <1>7 DEF LockList, Wakeup, WaitForSignal
<1>8. CASE Expire
  BY <1>0, <1>8, DispatcherAssumption DEF Expire, E!End, E!Becomes
<1>9. CASE Finish
  BY <1>0, <1>9 DEF Finish, E!End, E!Becomes
<1>10. CASE UNCHANGED vars
  BY <1>10 DEF vars
<1> QED BY <1>1, <1>2, <1>3, <1>4, <1>6, <1>7, <1>8, <1>9, <1>10 DEF Next, ThreadMain

\* Every behaviour of the dispatcher, with any threads, any tasks and any spurious
\* wakeups, is one of an executor: what its callers see does not depend on how the
\* lock and the signals of addTask and threadMain interleave.
THEOREM IsAnExecutor == Spec => E!Spec
<1>1. Init => E!Init
  BY DEF Init, E!Init, AnyTask
<1>2. Init => NothingAfterStop
  BY DEF Init, NothingAfterStop
<1>3. TypeOK /\ OneOwner /\ NothingAfterStop /\ [Next]_vars => NothingAfterStop'
  BY AfterStopStep
<1>4. TypeOK /\ OneOwner /\ NothingAfterStop /\ [Next]_vars => [E!Next]_(E!vars)
  BY StepImplements
<1> QED BY <1>1, <1>2, <1>3, <1>4, TypeCorrect, TasksHaveOneOwner, PTL DEF Spec, E!Spec
=============================================================================

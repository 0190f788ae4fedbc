------------------------- MODULE DatabaseTasksProofs -------------------------
(***************************************************************************)
(* The safety properties of DatabaseTasks, for any queries and callers.    *)
(***************************************************************************)
EXTENDS DatabaseTasks, TLAPS

Distinct(s) == \A i, j \in DOMAIN s : s[i] = s[j] => i = j

\* The queries of list s are in the order in which a has them.
Ordered(a, s) ==
  \A i, j \in DOMAIN a, m, n \in DOMAIN s :
    a[i] = s[m] /\ a[j] = s[n] /\ i < j => m < n

\* Query q comes earlier in a than all of s.
Before(a, q, s) ==
  \A i, j \in DOMAIN a, n \in DOMAIN s : a[i] = q /\ a[j] = s[n] => i < j

\* The thread has a query from the time it takes it until its callback is
\* handed over, and it runs it in between.
InFlight ==
  /\ pc \in {"taken", "executed"} <=> task # NoQuery
  /\ pc = "taken" => task \notin Elements(executed)
  /\ pc = "executed" => task \in Elements(executed)

\* A query of the list was not executed, but for the first one while shutdown
\* is about to pop it.
Unexecuted ==
  /\ \A i \in DOMAIN tasks : tasks[i] \in Elements(executed) => halt = "popping" /\ i = 1
  /\ halt = "popping" => tasks # <<>> /\ Head(tasks) \in Elements(executed)

\* What is queued, in flight and executed is what addTask accepted, in its order.
Accounted ==
  /\ Distinct(accepted) /\ Distinct(tasks)
  /\ Ordered(accepted, tasks) /\ Before(accepted, task, tasks)

HaltTerminates == halt # "no" => threadState = "TERMINATED"

\* The inductive invariant.
IInv ==
  /\ TypeOK /\ ExecutedOnce /\ CallbackAfterQuery
  /\ InFlight /\ Unexecuted /\ Accounted /\ HaltTerminates

-----------------------------------------------------------------------------
(* What the operations on a list do                                        *)

\* A query is queued, or runs, behind all others.
LEMMA AtTheBack ==
  ASSUME NEW s \in Seq(Query), NEW q \in Query
  PROVE  /\ Append(s, q) \in Seq(Query)
         /\ Elements(Append(s, q)) = Elements(s) \union {q}
         /\ Append(s, q) # <<>>
         /\ s # <<>> => Head(Append(s, q)) = Head(s)
         /\ q \notin Elements(s) /\ Distinct(s) => Distinct(Append(s, q))
         /\ \A i \in DOMAIN Append(s, q) :
              \/ i = Len(s) + 1 /\ Append(s, q)[i] = q
              \/ i \in DOMAIN s /\ Append(s, q)[i] = s[i] /\ i < Len(s) + 1
<1> DEFINE r == Append(s, q)  n == Len(s) + 1
<1>1. /\ r \in Seq(Query) /\ n \in DOMAIN r /\ r[n] = q /\ r # <<>>
      /\ s # <<>> => Head(r) = Head(s)
      /\ \A i \in DOMAIN r : i = n \/ (i \in DOMAIN s /\ i < n)
      /\ \A i \in DOMAIN s : i \in DOMAIN r /\ r[i] = s[i] /\ i # n
  OBVIOUS
<1> HIDE DEF r, n
<1>2. Elements(r) = Elements(s) \union {q}
  BY <1>1 DEF Elements
<1>3. q \notin Elements(s) /\ Distinct(s) => Distinct(r)
  BY <1>1 DEF Elements, Distinct
<1> QED BY <1>1, <1>2, <1>3 DEF r, n

\* The first query is taken.
LEMMA FirstTaken ==
  ASSUME NEW s \in Seq(Query), s # <<>>
  PROVE  /\ Head(s) \in Query /\ Head(s) = s[1] /\ 1 \in DOMAIN s
         /\ Tail(s) \in Seq(Query)
         /\ Elements(s) = {Head(s)} \union Elements(Tail(s))
         /\ \A i \in DOMAIN Tail(s) : i \in Nat /\ i > 0 /\ i + 1 \in DOMAIN s
                                        /\ Tail(s)[i] = s[i + 1]
         /\ Distinct(s) => Distinct(Tail(s)) /\ Head(s) \notin Elements(Tail(s))
<1> DEFINE r == Tail(s)
<1>1. /\ r \in Seq(Query) /\ Head(s) \in Query /\ Head(s) = s[1] /\ 1 \in DOMAIN s
      /\ \A i \in DOMAIN r : i \in Nat /\ i > 0 /\ i + 1 \in DOMAIN s /\ r[i] = s[i + 1]
      /\ \A i \in DOMAIN s : i = 1 \/ (i - 1 \in DOMAIN r /\ r[i - 1] = s[i])
  OBVIOUS
<1> HIDE DEF r
<1>2. Elements(s) = {Head(s)} \union Elements(r)
  <2>1. ASSUME NEW i \in DOMAIN s
        PROVE  s[i] = Head(s) \/ s[i] \in Elements(r)
    <3>1. CASE i = 1
      BY <1>1, <3>1
    <3>2. CASE i - 1 \in DOMAIN r /\ r[i - 1] = s[i]
      BY <3>2 DEF Elements
    <3> QED BY <1>1, <3>1, <3>2
  <2>2. Head(s) \in Elements(s)
    BY <1>1 DEF Elements
  <2>3. ASSUME NEW i \in DOMAIN r
        PROVE  r[i] \in Elements(s)
    <3>1. i + 1 \in DOMAIN s /\ r[i] = s[i + 1]
      BY <1>1
    <3> QED BY <3>1 DEF Elements
  <2>4. Elements(s) \subseteq {Head(s)} \union Elements(r)
    BY <2>1 DEF Elements
  <2>5. Elements(r) \subseteq Elements(s)
    BY <2>3 DEF Elements
  <2> QED BY <2>2, <2>4, <2>5
<1>3. ASSUME Distinct(s)
      PROVE  Distinct(r) /\ Head(s) \notin Elements(r)
  <2>1. ASSUME NEW i \in DOMAIN r, NEW j \in DOMAIN r, r[i] = r[j]
        PROVE  i = j
    <3>1. i + 1 = j + 1
      BY <1>1, <1>3, <2>1 DEF Distinct
    <3> QED BY <1>1, <3>1
  <2>2. ASSUME NEW i \in DOMAIN r
        PROVE  r[i] # Head(s)
    <3>1. i + 1 # 1
      BY <1>1
    <3> QED BY <1>1, <1>3, <3>1 DEF Distinct
  <2> QED BY <2>1, <2>2 DEF Distinct, Elements
<1> QED BY <1>1, <1>2, <1>3 DEF r

\* A list stays in order without its first query, which came before the rest.
LEMMA TailInOrder ==
  ASSUME NEW a \in Seq(Query), NEW s \in Seq(Query), s # <<>>,
         Distinct(s), Ordered(a, s)
  PROVE  Ordered(a, Tail(s)) /\ Before(a, Head(s), Tail(s))
<1> DEFINE r == Tail(s)
<1>1. /\ Head(s) = s[1] /\ 1 \in DOMAIN s
      /\ \A i \in DOMAIN r : i \in Nat /\ i > 0 /\ i + 1 \in DOMAIN s /\ r[i] = s[i + 1]
  BY FirstTaken
<1>2. DOMAIN a \subseteq Nat
  OBVIOUS
<1> HIDE DEF r
<1>3. ASSUME NEW i \in DOMAIN a, NEW j \in DOMAIN a, NEW m \in DOMAIN r, NEW n \in DOMAIN r,
             a[i] = r[m], a[j] = r[n], i < j
      PROVE  m < n
  <2>1. m + 1 < n + 1
    BY <1>1, <1>3 DEF Ordered
  <2> QED BY <1>1, <2>1
<1>4. ASSUME NEW i \in DOMAIN a, NEW j \in DOMAIN a, NEW n \in DOMAIN r,
             a[i] = Head(s), a[j] = r[n]
      PROVE  i < j
  <2>1. i # j
    <3>1. n + 1 # 1
      BY <1>1
    <3> QED BY <1>1, <1>4, <3>1 DEF Distinct
  <2>2. ~(j < i)
    <3>1. j < i => n + 1 < 1
      BY <1>1, <1>4 DEF Ordered
    <3> QED BY <1>1, <3>1
  <2> QED BY <1>2, <2>1, <2>2
<1> QED BY <1>3, <1>4 DEF Ordered, Before, r

-----------------------------------------------------------------------------
(* The steps                                                               *)

\* A step that leaves the queries where they are keeps the invariant.
LEMMA QuietStep ==
  ASSUME IInv, UNCHANGED <<tasks, task, accepted, executed, posted>>,
         threadState' \in ThreadStates, pc' \in Points, halt' \in Halts,
         doSignal' \subseteq Thread,
         pc' = pc \/ {pc, pc'} \intersect {"taken", "executed"} = {},
         halt' = "popping" <=> halt = "popping",
         HaltTerminates'
  PROVE  IInv'
<1>1. TypeOK'
  BY DEF IInv, TypeOK
<1>2. ExecutedOnce' /\ Accounted'
  BY DEF IInv, ExecutedOnce, Accounted
<1>3. CallbackAfterQuery'
  BY DEF IInv, CallbackAfterQuery
<1>4. InFlight' /\ Unexecuted'
  BY DEF IInv, InFlight, Unexecuted
<1> QED BY <1>1, <1>2, <1>3, <1>4 DEF IInv

\* addTask queues a query that is new.
LEMMA AddTaskStep ==
  ASSUME IInv, NEW c \in Thread, NEW q \in Query, AddTask(c, q)
  PROVE  IInv'
<1>1. TypeOK /\ ExecutedOnce /\ CallbackAfterQuery /\ InFlight /\ Unexecuted /\ Accounted
      /\ HaltTerminates
  BY DEF IInv
<1>2. q \notin Elements(accepted) /\ UNCHANGED <<threadState, pc, task, halt, executed, posted>>
      /\ halt # "popping"
  BY DEF AddTask, LockFree
<1>3. CASE threadState # "RUNNING"
  <2>1. UNCHANGED vars
    BY <1>3 DEF AddTask, vars
  <2> QED BY <1>1, <2>1, QuietStep DEF vars, IInv, TypeOK, HaltTerminates
<1>4. CASE threadState = "RUNNING"
  <2>1. /\ tasks' = Append(tasks, q) /\ accepted' = Append(accepted, q)
        /\ doSignal' \subseteq Thread
    BY <1>1, <1>4 DEF AddTask, TypeOK
  <2>2. tasks \in Seq(Query) /\ accepted \in Seq(Query)
    BY <1>1 DEF TypeOK
  <2>3. q \notin Elements(tasks) /\ q # task /\ q \notin Elements(executed)
    BY <1>1, <1>2, DatabaseTasksAssumption DEF ExecutedOnce
  <2>4. /\ tasks' \in Seq(Query) /\ accepted' \in Seq(Query)
        /\ Elements(tasks') = Elements(tasks) \union {q}
        /\ Elements(accepted') = Elements(accepted) \union {q}
        /\ Distinct(tasks') /\ Distinct(accepted')
    BY <1>1, <1>2, <2>1, <2>2, <2>3, AtTheBack DEF Accounted
  <2>5. /\ \A i \in DOMAIN tasks' : \/ i = Len(tasks) + 1 /\ tasks'[i] = q
                                    \/ i \in DOMAIN tasks /\ tasks'[i] = tasks[i] /\ i < Len(tasks) + 1
        /\ \A i \in DOMAIN accepted' :
             \/ i = Len(accepted) + 1 /\ accepted'[i] = q
             \/ i \in DOMAIN accepted /\ accepted'[i] = accepted[i] /\ i < Len(accepted) + 1
    BY <2>1, <2>2, AtTheBack
  <2>6. TypeOK'
    BY <1>1, <1>2, <2>1, <2>4 DEF TypeOK
  <2>7. ExecutedOnce'
    BY <1>1, <1>2, <2>3, <2>4 DEF ExecutedOnce
  <2>8. CallbackAfterQuery'
    BY <1>1, <1>2 DEF CallbackAfterQuery
  <2>9. InFlight' /\ HaltTerminates'
    BY <1>1, <1>2 DEF InFlight, HaltTerminates
  <2>10. Unexecuted'
    BY <1>1, <1>2, <2>3, <2>5 DEF Unexecuted
  <2>11. Ordered(accepted', tasks')
    <3> SUFFICES ASSUME NEW i \in DOMAIN accepted', NEW j \in DOMAIN accepted',
                        NEW m \in DOMAIN tasks', NEW n \in DOMAIN tasks',
                        accepted'[i] = tasks'[m], accepted'[j] = tasks'[n], i < j
                 PROVE  m < n
      BY DEF Ordered
    <3>1. Len(tasks) \in Nat /\ Len(accepted) \in Nat /\ i \in Nat /\ j \in Nat
      BY <2>2, <2>4
    <3>2. i \in DOMAIN accepted /\ accepted'[i] = accepted[i] /\ accepted[i] # q
      BY <1>2, <2>5, <3>1 DEF Elements
    <3>3. m \in DOMAIN tasks /\ tasks'[m] = tasks[m] /\ m < Len(tasks) + 1
      BY <2>5, <3>2
    <3>4. CASE n = Len(tasks) + 1
      BY <3>3, <3>4
    <3>5. CASE n # Len(tasks) + 1
      <4>1. n \in DOMAIN tasks /\ tasks'[n] = tasks[n] /\ tasks[n] # q
        BY <2>3, <2>5, <3>5 DEF Elements
      <4>2. j \in DOMAIN accepted /\ accepted'[j] = accepted[j]
        BY <2>5, <4>1
      <4> QED BY <1>1, <3>2, <3>3, <4>1, <4>2 DEF Accounted, Ordered
    <3> QED BY <3>4, <3>5
  <2>12. Before(accepted', task, tasks')
    <3> SUFFICES ASSUME NEW i \in DOMAIN accepted', NEW j \in DOMAIN accepted',
                        NEW n \in DOMAIN tasks',
                        accepted'[i] = task, accepted'[j] = tasks'[n]
                 PROVE  i < j
      BY DEF Before
    <3>1. i \in DOMAIN accepted /\ accepted'[i] = accepted[i] /\ i < Len(accepted) + 1
      BY <2>3, <2>5
    <3>2. CASE j = Len(accepted) + 1
      BY <3>1, <3>2
    <3>3. CASE j # Len(accepted) + 1
      <4>1. j \in DOMAIN accepted /\ accepted'[j] = accepted[j] /\ accepted[j] # q
        BY <1>2, <2>5, <3>3 DEF Elements
      <4>2. n \in DOMAIN tasks /\ tasks'[n] = tasks[n]
        BY <2>5, <4>1
      <4> QED BY <1>1, <3>1, <4>1, <4>2 DEF Accounted, Before
    <3> QED BY <3>2, <3>3
  <2>13. Accounted'
    BY <1>2, <2>4, <2>11, <2>12 DEF Accounted
  <2> QED BY <2>6, <2>7, <2>8, <2>9, <2>10, <2>13 DEF IInv
<1> QED BY <1>3, <1>4

\* The thread takes the first query.
LEMMA TakeStep ==
  ASSUME IInv, NEW p \in {"lock", "woken"}, TakeFirst(p)
  PROVE  IInv'
<1>1. TypeOK /\ ExecutedOnce /\ CallbackAfterQuery /\ InFlight /\ Unexecuted /\ Accounted
      /\ HaltTerminates
  BY DEF IInv
<1>2. /\ tasks # <<>> /\ task' = Head(tasks) /\ tasks' = Tail(tasks)
      /\ pc = p /\ pc' = "taken" /\ halt # "popping"
      /\ UNCHANGED <<threadState, doSignal, halt, accepted, executed, posted>>
  BY DEF TakeFirst, Step, LockFree
<1>3. /\ Head(tasks) \in Query /\ Head(tasks) = tasks[1] /\ 1 \in DOMAIN tasks
      /\ tasks' \in Seq(Query)
      /\ Elements(tasks) = {Head(tasks)} \union Elements(tasks')
      /\ \A i \in DOMAIN tasks' : i + 1 \in DOMAIN tasks /\ tasks'[i] = tasks[i + 1]
      /\ Distinct(tasks') /\ Head(tasks) \notin Elements(tasks')
  BY <1>1, <1>2, FirstTaken DEF TypeOK, Accounted
<1>4. Head(tasks) \notin Elements(executed) /\ Head(tasks) # NoQuery /\ task = NoQuery
  BY <1>1, <1>2, <1>3, DatabaseTasksAssumption DEF Unexecuted, InFlight
<1>5. TypeOK'
  BY <1>1, <1>2, <1>3 DEF TypeOK, Points
<1>6. ExecutedOnce'
  BY <1>1, <1>2, <1>3, <1>4 DEF ExecutedOnce
<1>7. CallbackAfterQuery'
  <2>1. NoQuery \notin WithCallback
    BY DatabaseTasksAssumption
  <2> QED BY <1>1, <1>2, <1>4, <2>1 DEF CallbackAfterQuery
<1>8. InFlight' /\ HaltTerminates'
  BY <1>1, <1>2, <1>4 DEF InFlight, HaltTerminates
<1>9. Unexecuted'
  BY <1>1, <1>2, <1>3 DEF Unexecuted
<1>10. Accounted'
  <2>1. Ordered(accepted, tasks') /\ Before(accepted, Head(tasks), tasks')
    BY <1>1, <1>2, TailInOrder DEF TypeOK, Accounted
  <2> QED BY <1>1, <1>2, <1>3, <2>1 DEF Accounted
<1> QED BY <1>5, <1>6, <1>7, <1>8, <1>9, <1>10 DEF IInv

\* The thread runs its query.
LEMMA RunQueryStep ==
  ASSUME IInv, RunQuery
  PROVE  IInv'
<1>1. TypeOK /\ ExecutedOnce /\ CallbackAfterQuery /\ InFlight /\ Unexecuted /\ Accounted
      /\ HaltTerminates
  BY DEF IInv
<1>2. /\ pc = "taken" /\ pc' = "executed" /\ executed' = Append(executed, task)
      /\ UNCHANGED <<threadState, doSignal, halt, accepted, tasks, task, posted>>
  BY DEF RunQuery, Step
<1>3. task \in Query /\ task # NoQuery /\ task \notin Elements(executed)
  BY <1>1, <1>2 DEF InFlight, TypeOK
<1>4. /\ executed' \in Seq(Query)
      /\ Elements(executed') = Elements(executed) \union {task}
      /\ Distinct(executed')
  BY <1>1, <1>2, <1>3, AtTheBack DEF TypeOK, ExecutedOnce, Distinct
<1>5. TypeOK'
  BY <1>1, <1>2, <1>4 DEF TypeOK, Points
<1>6. ExecutedOnce'
  BY <1>1, <1>2, <1>3, <1>4 DEF ExecutedOnce, Distinct
<1>7. CallbackAfterQuery'
  BY <1>1, <1>2, <1>4 DEF CallbackAfterQuery
<1>8. InFlight' /\ HaltTerminates' /\ Accounted'
  BY <1>1, <1>2, <1>3, <1>4 DEF InFlight, HaltTerminates, Accounted
<1>9. Unexecuted'
  <2>1. \A i \in DOMAIN tasks : tasks[i] # task
    BY <1>1 DEF ExecutedOnce, Elements
  <2> QED BY <1>1, <1>2, <1>4, <2>1 DEF Unexecuted
<1> QED BY <1>5, <1>6, <1>7, <1>8, <1>9 DEF IInv

\* The thread hands the callback over and has no query any more.
LEMMA RunCallbackStep ==
  ASSUME IInv, RunCallback
  PROVE  IInv'
<1>1. TypeOK /\ ExecutedOnce /\ CallbackAfterQuery /\ InFlight /\ Unexecuted /\ Accounted
      /\ HaltTerminates
  BY DEF IInv
<1>2. /\ pc = "executed" /\ pc' = "test" /\ task' = NoQuery
      /\ posted' = posted \union ({task} \intersect WithCallback)
      /\ UNCHANGED <<threadState, doSignal, halt, accepted, tasks, executed>>
  BY DEF RunCallback, Step, Post
<1>3. task \in Query /\ task # NoQuery /\ task \in Elements(executed)
  BY <1>1, <1>2 DEF InFlight, TypeOK
<1>4. Elements(tasks) \subseteq Query /\ Elements(accepted) \subseteq Query
  BY <1>1 DEF TypeOK, Elements
<1>5. TypeOK'
  BY <1>1, <1>2, <1>3 DEF TypeOK, Points
<1>6. ExecutedOnce'
  BY <1>1, <1>2, <1>3, <1>4, DatabaseTasksAssumption DEF ExecutedOnce
<1>7. CallbackAfterQuery'
  BY <1>1, <1>2, <1>3 DEF CallbackAfterQuery
<1>8. InFlight' /\ HaltTerminates' /\ Unexecuted'
  BY <1>1, <1>2 DEF InFlight, HaltTerminates, Unexecuted
<1>9. Accounted'
  <2>1. Before(accepted, NoQuery, tasks)
    BY <1>4, DatabaseTasksAssumption DEF Before, Elements
  <2> QED BY <1>1, <1>2, <2>1 DEF Accounted
<1> QED BY <1>5, <1>6, <1>7, <1>8, <1>9 DEF IInv

\* flush() runs the first query ...
LEMMA FlushFrontStep ==
  ASSUME IInv, FlushFront
  PROVE  IInv'
<1>1. TypeOK /\ ExecutedOnce /\ CallbackAfterQuery /\ InFlight /\ Unexecuted /\ Accounted
      /\ HaltTerminates
  BY DEF IInv
<1>2. /\ halt = "flush" /\ halt' = "popping" /\ tasks # <<>>
      /\ executed' = Append(executed, Head(tasks))
      /\ UNCHANGED <<threadState, tasks, pc, task, doSignal, accepted, posted>>
  BY DEF FlushFront
<1>3. /\ Head(tasks) \in Query /\ Head(tasks) = tasks[1] /\ 1 \in DOMAIN tasks
      /\ Head(tasks) \in Elements(tasks)
  BY <1>1, <1>2, FirstTaken DEF TypeOK
<1>4. Head(tasks) \notin Elements(executed) /\ Head(tasks) # task
  BY <1>1, <1>2, <1>3 DEF Unexecuted, ExecutedOnce
<1>5. /\ executed' \in Seq(Query)
      /\ Elements(executed') = Elements(executed) \union {Head(tasks)}
      /\ Distinct(executed')
  BY <1>1, <1>2, <1>3, <1>4, AtTheBack DEF TypeOK, ExecutedOnce, Distinct
<1>6. TypeOK'
  BY <1>1, <1>2, <1>5 DEF TypeOK, Halts
<1>7. ExecutedOnce'
  BY <1>1, <1>2, <1>3, <1>5 DEF ExecutedOnce, Distinct
<1>8. CallbackAfterQuery'
  BY <1>1, <1>2, <1>5 DEF CallbackAfterQuery
<1>9. InFlight' /\ HaltTerminates' /\ Accounted'
  BY <1>1, <1>2, <1>4, <1>5 DEF InFlight, HaltTerminates, Accounted
<1>10. Unexecuted'
  BY <1>1, <1>2, <1>3, <1>5 DEF Unexecuted, Accounted, Distinct
<1> QED BY <1>6, <1>7, <1>8, <1>9, <1>10 DEF IInv

\* ... and pops it.
LEMMA FlushPopStep ==
  ASSUME IInv, FlushPop
  PROVE  IInv'
<1>1. TypeOK /\ ExecutedOnce /\ CallbackAfterQuery /\ InFlight /\ Unexecuted /\ Accounted
      /\ HaltTerminates
  BY DEF IInv
<1>2. /\ halt = "popping" /\ halt' = "flush" /\ tasks' = Tail(tasks)
      /\ posted' = posted \union ({Head(tasks)} \intersect WithCallback)
      /\ UNCHANGED <<threadState, pc, task, doSignal, accepted, executed>>
  BY DEF FlushPop, Post
<1>3. tasks # <<>> /\ Head(tasks) \in Elements(executed)
  BY <1>1, <1>2 DEF Unexecuted
<1>4. /\ Head(tasks) \in Query /\ tasks' \in Seq(Query)
      /\ Elements(tasks) = {Head(tasks)} \union Elements(tasks')
      /\ \A i \in DOMAIN tasks' : i \in Nat /\ i > 0 /\ i + 1 \in DOMAIN tasks
                                    /\ tasks'[i] = tasks[i + 1]
      /\ Distinct(tasks')
  BY <1>1, <1>2, <1>3, FirstTaken DEF TypeOK, Accounted
<1>5. TypeOK'
  BY <1>1, <1>2, <1>4 DEF TypeOK, Halts
<1>6. ExecutedOnce'
  BY <1>1, <1>2, <1>3, <1>4 DEF ExecutedOnce
<1>7. CallbackAfterQuery'
  BY <1>1, <1>2, <1>3 DEF CallbackAfterQuery
<1>8. InFlight' /\ HaltTerminates'
  BY <1>1, <1>2 DEF InFlight, HaltTerminates
<1>9. Unexecuted'
  <2>1. ASSUME NEW i \in DOMAIN tasks'
        PROVE  tasks'[i] \notin Elements(executed)
    <3>1. i + 1 \in DOMAIN tasks /\ tasks'[i] = tasks[i + 1] /\ i + 1 # 1
      BY <1>4
    <3> QED BY <1>1, <3>1 DEF Unexecuted
  <2> QED BY <1>2, <2>1 DEF Unexecuted
<1>10. Accounted'
  <2>1. Ordered(accepted, tasks')
    BY <1>1, <1>2, <1>3, TailInOrder DEF TypeOK, Accounted
  <2>2. Before(accepted, task, tasks')
    BY <1>1, <1>4 DEF Accounted, Before
  <2> QED BY <1>1, <1>2, <1>4, <2>1, <2>2 DEF Accounted
<1> QED BY <1>5, <1>6, <1>7, <1>8, <1>9, <1>10 DEF IInv

\* The other steps move no query.
LEMMA OtherSteps ==
  ASSUME IInv,
         \/ \E c \in Thread : Signal(c)
         \/ Close \/ ShutdownLock \/ ShutdownUnlock \/ ShutdownSignal
         \/ TestState \/ FindNone("lock", "waiting") \/ FindNone("woken", "test")
         \/ SpuriousWakeup
  PROVE  IInv'
<1>1. TypeOK /\ HaltTerminates
  BY DEF IInv
<1>2. CASE \E c \in Thread : Signal(c)
  BY <1>1, <1>2, QuietStep DEF Signal, NotifyOne, TypeOK, HaltTerminates, Points
<1>3. CASE Close \/ ShutdownLock \/ ShutdownUnlock \/ ShutdownSignal
  <2>1. UNCHANGED <<tasks, task, accepted, executed, posted, doSignal>>
    BY <1>3 DEF Close, ShutdownLock, ShutdownUnlock, ShutdownSignal
  <2>2. pc' = pc \/ (pc = "waiting" /\ pc' = "woken")
    BY <1>3 DEF Close, ShutdownLock, ShutdownUnlock, ShutdownSignal, NotifyOne
  <2>3. /\ halt' \in Halts /\ threadState' \in ThreadStates
        /\ halt' = "popping" <=> halt = "popping"
        /\ HaltTerminates'
    BY <1>1, <1>3 DEF Close, ShutdownLock, ShutdownUnlock, ShutdownSignal, TypeOK,
                      HaltTerminates, Halts, ThreadStates
  <2> QED BY <1>1, <2>1, <2>2, <2>3, QuietStep DEF TypeOK, Points
<1>4. CASE \/ TestState \/ FindNone("lock", "waiting") \/ FindNone("woken", "test")
           \/ SpuriousWakeup
  <2>1. UNCHANGED <<threadState, doSignal, halt, tasks, task, accepted, executed, posted>>
    BY <1>4 DEF TestState, FindNone, SpuriousWakeup, Step
  <2>2. {pc, pc'} \subseteq Points \ {"taken", "executed"}
    BY <1>4 DEF TestState, FindNone, SpuriousWakeup, Step, Points
  <2> QED BY <1>1, <2>1, <2>2, QuietStep DEF TypeOK, HaltTerminates
<1> QED BY <1>2, <1>3, <1>4

-----------------------------------------------------------------------------
(* The theorems                                                            *)

LEMMA InitInv == Init => IInv
<1> SUFFICES ASSUME Init
             PROVE  IInv
  OBVIOUS
<1>1. TypeOK
  BY DEF Init, TypeOK, ThreadStates, Points, Halts
<1>2. ExecutedOnce /\ CallbackAfterQuery
  BY DEF Init, ExecutedOnce, CallbackAfterQuery, Elements
<1>3. InFlight /\ Unexecuted /\ HaltTerminates
  BY DEF Init, InFlight, Unexecuted, HaltTerminates, Elements
<1>4. Accounted
  BY DEF Init, Accounted, Distinct, Ordered, Before
<1> QED BY <1>1, <1>2, <1>3, <1>4 DEF IInv

LEMMA NextInv == IInv /\ [Next]_vars => IInv'
<1> SUFFICES ASSUME IInv, [Next]_vars
             PROVE  IInv'
  OBVIOUS
<1>1. CASE \E c \in Thread, q \in Query : AddTask(c, q)
  BY <1>1, AddTaskStep
<1>2. CASE FlushFront
  BY <1>2, FlushFrontStep
<1>3. CASE FlushPop
  BY <1>3, FlushPopStep
<1>4. CASE TakeFirst("lock") \/ TakeFirst("woken")
  BY <1>4, TakeStep
<1>5. CASE RunQuery
  BY <1>5, RunQueryStep
<1>6. CASE RunCallback
  BY <1>6, RunCallbackStep
<1>7. CASE \/ \E c \in Thread : Signal(c)
           \/ Close \/ ShutdownLock \/ ShutdownUnlock \/ ShutdownSignal
           \/ TestState \/ FindNone("lock", "waiting") \/ FindNone("woken", "test")
           \/ SpuriousWakeup
  BY <1>7, OtherSteps
<1>8. CASE UNCHANGED vars
  BY <1>8, QuietStep DEF vars, IInv, TypeOK, HaltTerminates
<1> QED BY <1>1, <1>2, <1>3, <1>4, <1>5, <1>6, <1>7, <1>8
        DEF Next, FinishShutdown, ThreadMain, LockTasks, Wakeup

LEMMA Invariance == Spec => []IInv
<1> QED BY InitInv, NextInv, PTL DEF Spec

\* Every variable of the database thread stays in its range.
THEOREM TypeCorrect == Spec => []TypeOK
<1>1. IInv => TypeOK
  BY DEF IInv
<1> QED BY <1>1, Invariance, PTL

\* A query is executed by the thread or by the flush, never by both and never
\* twice, and none is lost.
THEOREM QueriesExecuteOnce == Spec => []ExecutedOnce
<1>1. IInv => ExecutedOnce
  BY DEF IInv
<1> QED BY <1>1, Invariance, PTL

\* Callbacks follow their queries, and none is forgotten.
THEOREM CallbacksFollow == Spec => []CallbackAfterQuery
<1>1. IInv => CallbackAfterQuery
  BY DEF IInv
<1> QED BY <1>1, Invariance, PTL

\* One step that executes a query: all that were accepted before it have been
\* executed, but for the one in flight during the flush.
LEMMA ExecuteInOrder ==
  ASSUME IInv, [Next]_vars,
         NEW i \in DOMAIN accepted, NEW j \in DOMAIN accepted, i < j,
         accepted[j] \in Elements(executed') \ Elements(executed)
  PROVE  \/ accepted[i] \in Elements(executed)
         \/ accepted[i] = task /\ threadState = "TERMINATED"
<1>1. TypeOK /\ ExecutedOnce /\ Accounted /\ InFlight /\ HaltTerminates
  BY DEF IInv
<1>2. /\ accepted[i] \in Elements(tasks) \/ accepted[i] = task \/ accepted[i] \in Elements(executed)
      /\ accepted[i] # accepted[j]
      /\ DOMAIN accepted \subseteq Nat
  <2>1. DOMAIN accepted \subseteq Nat
    BY <1>1 DEF TypeOK
  <2>2. accepted[i] # accepted[j]
    BY <1>1, <2>1 DEF Accounted, Distinct
  <2>3. accepted[i] \in Elements(accepted)
    BY DEF Elements
  <2> QED BY <1>1, <2>1, <2>2, <2>3 DEF ExecutedOnce
<1>3. CASE RunQuery
  <2>1. task \in Query /\ executed' = Append(executed, task)
    BY <1>1, <1>3 DEF RunQuery, Step, InFlight, TypeOK
  <2>2. accepted[j] = task
    BY <1>1, <2>1, AtTheBack DEF TypeOK
  <2>3. accepted[i] \notin Elements(tasks)
    <3> SUFFICES ASSUME NEW n \in DOMAIN tasks, accepted[i] = tasks[n]
                 PROVE  FALSE
      BY DEF Elements
    <3>1. j < i
      BY <1>1, <2>2 DEF Accounted, Before
    <3> QED BY <1>2, <3>1
  <2> QED BY <1>2, <2>2, <2>3
<1>4. CASE FlushFront
  <2>1. tasks # <<>> /\ halt = "flush" /\ executed' = Append(executed, Head(tasks))
    BY <1>4 DEF FlushFront
  <2>2. Head(tasks) \in Query /\ Head(tasks) = tasks[1] /\ 1 \in DOMAIN tasks
    BY <1>1, <2>1, FirstTaken DEF TypeOK
  <2>3. accepted[j] = tasks[1]
    BY <1>1, <2>1, <2>2, AtTheBack DEF TypeOK
  <2>4. accepted[i] \notin Elements(tasks)
    <3> SUFFICES ASSUME NEW n \in DOMAIN tasks, accepted[i] = tasks[n]
                 PROVE  FALSE
      BY DEF Elements
    <3>1. n < 1 /\ n \in Nat /\ n > 0
      BY <1>1, <2>2, <2>3 DEF Accounted, Ordered, TypeOK
    <3> QED BY <3>1
  <2> QED BY <1>1, <1>2, <2>1, <2>4 DEF HaltTerminates
<1>5. CASE executed' = executed
  BY <1>5
<1>6. RunQuery \/ FlushFront \/ executed' = executed
  BY DEF Next, AddTask, Signal, Close, ShutdownLock, FinishShutdown, FlushPop, ShutdownUnlock,
         ShutdownSignal, ThreadMain, TestState, LockTasks, Wakeup, TakeFirst, FindNone,
         RunCallback, SpuriousWakeup, vars
<1> QED BY <1>3, <1>4, <1>5, <1>6

\* Queries are executed in the order in which they were accepted, except that
\* the flush at shutdown overtakes the one that the thread has in flight.
THEOREM QueriesKeepTheirOrder == Spec => OnlyInFlightOvertaken
<1>1. IInv /\ [Next]_vars =>
        [\A i, j \in DOMAIN accepted :
           i < j /\ accepted[j] \in Elements(executed') \ Elements(executed) =>
             \/ accepted[i] \in Elements(executed)
             \/ accepted[i] = task /\ threadState = "TERMINATED"]_vars
  BY ExecuteInOrder
<1> QED BY <1>1, Invariance, PTL DEF Spec, OnlyInFlightOvertaken
=============================================================================

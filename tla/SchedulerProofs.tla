--------------------------- MODULE SchedulerProofs ---------------------------
(***************************************************************************)
(* For any number of events, callers, delays and event ids the scheduler   *)
(* neither sleeps past an event nor fires one before its time.  Both rest  *)
(* on two facts of threadMain: an event is in the list exactly while it is *)
(* queued or stopped, so that its due time no longer changes, and while    *)
(* the thread is in a timed wait some event of a non-empty list is due at  *)
(* its deadline.  A stop is exact for every event whose id was given to    *)
(* nobody else, in a run of any length: ids wrap around and come back, and *)
(* with one comes at most the harm of those that hold it.                  *)
(***************************************************************************)
EXTENDS Scheduler, TLAPS

-----------------------------------------------------------------------------
(* Type correctness                                                        *)

LEMMA NextIdInRange == TypeOK => NextId \in EventId /\ NextId # 0
<1> SUFFICES ASSUME TypeOK  PROVE NextId \in EventId /\ NextId # 0
  OBVIOUS
<1>1. lastEventId \in 0 .. IdRange - 1 /\ IdRange \in Nat /\ IdRange > 1
  BY SchedulerAssumption DEF TypeOK, EventId
<1>2. CASE lastEventId + 1 = IdRange
  <2>1. IdRange % IdRange = 0
    BY <1>1
  <2> QED BY <1>1, <1>2, <2>1 DEF NextId, EventId
<1>3. CASE lastEventId + 1 < IdRange
  <2>1. (lastEventId + 1) % IdRange = lastEventId + 1
    BY <1>1, <1>3
  <2> QED BY <1>1, <1>3, <2>1 DEF NextId, EventId
<1> QED BY <1>1, <1>2, <1>3

LEMMA TypeInit == Init => TypeOK
  BY SchedulerAssumption DEF Init, TypeOK, EventId, ThreadStates, Points, Phases, Halts

LEMMA TypeStep == TypeOK /\ [Next]_vars => TypeOK'
<1> SUFFICES ASSUME TypeOK, [Next]_vars  PROVE TypeOK'
  OBVIOUS
<1> USE SchedulerAssumption DEF TypeOK, ThreadStates, Points, Phases, Halts
<1>1. ASSUME NEW e \in Event, NEW d \in Delay, Create(e, d)  PROVE TypeOK'
  <2>1. now + d \in Nat
    OBVIOUS
  <2> QED BY <1>1, <2>1 DEF Create
<1>2. ASSUME NEW c \in Caller, NEW e \in Event, AddEvent(c, e)  PROVE TypeOK'
  BY <1>2, NextIdInRange DEF AddEvent, Holders
<1>3. ASSUME NEW c \in Caller, Signal(c)  PROVE TypeOK'
  BY <1>3 DEF Signal, NotifyOne
<1>4. ASSUME NEW e \in Event, StopEvent(e)  PROVE TypeOK'
  BY <1>4 DEF StopEvent
<1>15. ASSUME NEW e \in Event, Forget(e)  PROVE TypeOK'
  BY <1>15 DEF Forget, EventId
<1>5. CASE Close \/ ShutdownFlag
  BY <1>5 DEF Close, ShutdownFlag
<1>6. CASE ShutdownClear
  BY <1>6 DEF ShutdownClear
<1>7. CASE ShutdownSignal
  BY <1>7 DEF ShutdownSignal, NotifyOne
<1>8. CASE TestState \/ WaitForSignal
  BY <1>8 DEF TestState, WaitForSignal, Step
<1>9. CASE WaitUntilTop
  <2>1. \A e \in Tops : due[e] \in Nat
    BY DEF Tops
  <2> QED BY <1>9, <2>1 DEF WaitUntilTop, Step
<1>10. CASE WaitTimeout \/ NoTimeout \/ TimeoutOnEmpty \/ SpuriousWakeup
  BY <1>10 DEF WaitTimeout, NoTimeout, TimeoutOnEmpty, SpuriousWakeup, Step
<1>11. CASE PopTop
  BY <1>11 DEF PopTop, Tops
<1>12. CASE HandOver
  BY <1>12 DEF HandOver, Step
<1>13. CASE Tick
  BY <1>13 DEF Tick
<1>14. CASE UNCHANGED vars
  BY <1>14 DEF vars
<1> QED
  BY <1>1, <1>2, <1>3, <1>4, <1>5, <1>6, <1>7, <1>8, <1>9, <1>10, <1>11, <1>12, <1>13, <1>14,
     <1>15
  DEF Next, Shutdown, ThreadMain

\* Every variable stays in its range; in particular an id is never 0.
THEOREM TypeCorrect == Spec => []TypeOK
  BY TypeInit, TypeStep, PTL DEF Spec

-----------------------------------------------------------------------------
(* The life of an event and the place where it is kept                     *)

EventsInPlace ==
  /\ \A e \in Event : e \in eventList <=> phase[e] \in {"queued", "stopped"}
  /\ \A e \in Event : phase[e] = "fired" <=> e = task
  /\ pc = "firing" => task \in Event
  /\ pc # "firing" => task = NoEvent

LEMMA PlaceInit == Init => EventsInPlace
  BY SchedulerAssumption DEF Init, EventsInPlace

LEMMA PlaceStep == TypeOK /\ EventsInPlace /\ [Next]_vars => EventsInPlace'
<1> SUFFICES ASSUME TypeOK, EventsInPlace, [Next]_vars  PROVE EventsInPlace'
  OBVIOUS
<1> USE SchedulerAssumption DEF TypeOK, EventsInPlace
<1>1. ASSUME NEW e \in Event, NEW d \in Delay, Create(e, d)  PROVE EventsInPlace'
  BY <1>1 DEF Create
<1>2. ASSUME NEW c \in Caller, NEW e \in Event, AddEvent(c, e)  PROVE EventsInPlace'
  BY <1>2 DEF AddEvent
<1>3. ASSUME NEW c \in Caller, Signal(c)  PROVE EventsInPlace'
  BY <1>3 DEF Signal, NotifyOne
<1>4. ASSUME NEW e \in Event, StopEvent(e)  PROVE EventsInPlace'
  BY <1>4 DEF StopEvent
<1>15. ASSUME NEW e \in Event, Forget(e)  PROVE EventsInPlace'
  BY <1>15 DEF Forget
<1>5. CASE Close \/ ShutdownFlag
  BY <1>5 DEF Close, ShutdownFlag
<1>6. CASE ShutdownClear
  BY <1>6 DEF ShutdownClear
<1>7. CASE ShutdownSignal
  BY <1>7 DEF ShutdownSignal, NotifyOne
<1>8. CASE TestState \/ WaitForSignal \/ WaitUntilTop
  BY <1>8 DEF TestState, WaitForSignal, WaitUntilTop, Step
<1>9. CASE WaitTimeout \/ NoTimeout \/ TimeoutOnEmpty \/ SpuriousWakeup
  BY <1>9 DEF WaitTimeout, NoTimeout, TimeoutOnEmpty, SpuriousWakeup, Step
<1>10. CASE PopTop
  BY <1>10 DEF PopTop, Tops
<1>11. CASE HandOver
  BY <1>11 DEF HandOver, Step
<1>12. CASE Tick
  BY <1>12 DEF Tick
<1>13. CASE UNCHANGED vars
  BY <1>13 DEF vars
<1> QED
  BY <1>1, <1>2, <1>3, <1>4, <1>5, <1>6, <1>7, <1>8, <1>9, <1>10, <1>11, <1>12, <1>13, <1>15
  DEF Next, Shutdown, ThreadMain

-----------------------------------------------------------------------------
(* Never early                                                             *)

\* shutdown() closes the list for good before it empties it.
ClosedForGood ==
  /\ halt # "no" => threadState = "TERMINATED"
  /\ halt \in {"emptied", "yes"} => eventList = {}

\* In a timed wait some event is due at the deadline, or the list was emptied.
DueAtDeadline ==
  pc \in {"sleeping", "woken"} =>
    \/ \E e \in eventList : due[e] <= deadline
    \/ halt \in {"emptied", "yes"}

EarlyInv == ClosedForGood /\ DueAtDeadline /\ NeverEarly

LEMMA EarlyInit == Init => EarlyInv
  BY DEF Init, EarlyInv, ClosedForGood, DueAtDeadline, NeverEarly

LEMMA EarlyStep == TypeOK /\ EventsInPlace /\ EarlyInv /\ [Next]_vars => EarlyInv'
<1> SUFFICES ASSUME TypeOK, EventsInPlace, EarlyInv, [Next]_vars  PROVE EarlyInv'
  OBVIOUS
<1> USE SchedulerAssumption
    DEF TypeOK, EventsInPlace, EarlyInv, ClosedForGood, DueAtDeadline, NeverEarly
<1>1. ASSUME NEW e \in Event, NEW d \in Delay, Create(e, d)  PROVE EarlyInv'
  BY <1>1 DEF Create
<1>2. ASSUME NEW c \in Caller, NEW e \in Event, AddEvent(c, e)  PROVE EarlyInv'
  BY <1>2 DEF AddEvent
<1>3. ASSUME NEW c \in Caller, Signal(c)  PROVE EarlyInv'
  BY <1>3 DEF Signal, NotifyOne
<1>4. ASSUME NEW e \in Event, StopEvent(e)  PROVE EarlyInv'
  BY <1>4 DEF StopEvent
<1>15. ASSUME NEW e \in Event, Forget(e)  PROVE EarlyInv'
  BY <1>15 DEF Forget
<1>5. CASE Close \/ ShutdownFlag
  BY <1>5 DEF Close, ShutdownFlag
<1>6. CASE ShutdownClear
  BY <1>6 DEF ShutdownClear
<1>7. CASE ShutdownSignal
  BY <1>7 DEF ShutdownSignal, NotifyOne
<1>8. CASE TestState \/ WaitForSignal
  BY <1>8 DEF TestState, WaitForSignal, Step
<1>9. CASE WaitUntilTop
  <2>1. PICK e \in Tops : deadline' = due[e]
    BY <1>9 DEF WaitUntilTop
  <2>2. e \in eventList /\ due[e] <= deadline'
    BY <2>1 DEF Tops
  <2> QED BY <1>9, <2>2 DEF WaitUntilTop, Step
<1>10. CASE WaitTimeout \/ NoTimeout \/ TimeoutOnEmpty \/ SpuriousWakeup
  BY <1>10 DEF WaitTimeout, NoTimeout, TimeoutOnEmpty, SpuriousWakeup, Step
<1>11. CASE PopTop
  \* The event that is popped is the top now, not the one of the deadline.
  <2>1. PICK e \in Tops : /\ eventList' = eventList \ {e}
                          /\ \/ phase' = [phase EXCEPT ![e] = "fired"]
                             \/ phase' = [phase EXCEPT ![e] = "cancelled"]
    BY <1>11 DEF PopTop
  <2>2. e \in eventList /\ \A f \in eventList : due[e] <= due[f]
    BY DEF Tops
  <2>3. PICK f \in eventList : due[f] <= deadline
    BY <1>11, <2>2 DEF PopTop
  <2>4. due[e] <= now
    <3>1. due[e] <= due[f] /\ due[f] <= deadline /\ deadline <= now
      BY <1>11, <2>2, <2>3 DEF PopTop, TimedOut
    <3>2. due[e] \in Nat /\ due[f] \in Nat
      BY <2>2
    <3> QED BY <3>1, <3>2
  <2>5. NeverEarly'
    BY <1>11, <2>1, <2>2, <2>4 DEF PopTop
  <2>6. UNCHANGED <<halt, threadState>> /\ pc' \notin {"sleeping", "woken"}
    BY <1>11 DEF PopTop
  <2> QED BY <2>1, <2>5, <2>6
<1>12. CASE HandOver
  BY <1>12 DEF HandOver, Step
<1>13. CASE Tick
  BY <1>13 DEF Tick
<1>14. CASE UNCHANGED vars
  BY <1>14 DEF vars
<1> QED
  BY <1>1, <1>2, <1>3, <1>4, <1>5, <1>6, <1>7, <1>8, <1>9, <1>10, <1>11, <1>12, <1>13, <1>14,
     <1>15
  DEF Next, Shutdown, ThreadMain

\* No event is popped, fired or handed to the dispatcher before its time,
\* although threadMain pops the top without looking at its time again.
THEOREM EventsAreNeverEarly == Spec => []NeverEarly
<1>1. TypeOK /\ EventsInPlace /\ EarlyInv => NeverEarly
  BY DEF EarlyInv
<1> QED
  BY <1>1, TypeInit, TypeStep, PlaceInit, PlaceStep, EarlyInit, EarlyStep, PTL DEF Spec

-----------------------------------------------------------------------------
(* Never oversleeping                                                      *)

LEMMA OversleepInit == Init => NoOversleep
  BY DEF Init, NoOversleep

LEMMA OversleepStep == TypeOK /\ EventsInPlace /\ NoOversleep /\ [Next]_vars => NoOversleep'
<1> SUFFICES ASSUME TypeOK, EventsInPlace, NoOversleep, [Next]_vars  PROVE NoOversleep'
  OBVIOUS
<1> USE SchedulerAssumption DEF TypeOK, EventsInPlace, NoOversleep
<1>1. ASSUME NEW e \in Event, NEW d \in Delay, Create(e, d)  PROVE NoOversleep'
  BY <1>1 DEF Create
<1>2. ASSUME NEW c \in Caller, NEW e \in Event, AddEvent(c, e)  PROVE NoOversleep'
  \* An event that does not become the top has an event at or before it.
  <2>1. CASE threadState = "RUNNING" /\ BecomesTop(e)
    BY <1>2, <2>1 DEF AddEvent
  <2>2. CASE threadState = "RUNNING" /\ ~BecomesTop(e)
    <3>1. PICK f \in eventList : due[f] <= due[e]
      BY <2>2 DEF BecomesTop
    <3>2. doSignal' = doSignal /\ eventList' = eventList \union {e}
          /\ UNCHANGED <<pc, due, deadline>>
      BY <1>2, <2>2 DEF AddEvent
    <3>3. doSignal = {} /\ pc = "sleeping" => deadline <= due[e]
      <4>1. due[e] \in Nat /\ due[f] \in Nat /\ deadline \in Nat
        BY <3>1
      <4> QED BY <3>1, <4>1
    <3> QED BY <3>1, <3>2, <3>3
  <2>3. CASE threadState # "RUNNING"
    BY <1>2, <2>3 DEF AddEvent
  <2> QED BY <2>1, <2>2, <2>3
<1>3. ASSUME NEW c \in Caller, Signal(c)  PROVE NoOversleep'
  BY <1>3 DEF Signal, NotifyOne
<1>4. ASSUME NEW e \in Event, StopEvent(e)  PROVE NoOversleep'
  BY <1>4 DEF StopEvent
<1>15. ASSUME NEW e \in Event, Forget(e)  PROVE NoOversleep'
  BY <1>15 DEF Forget
<1>5. CASE Close \/ ShutdownFlag
  BY <1>5 DEF Close, ShutdownFlag
<1>6. CASE ShutdownClear
  BY <1>6 DEF ShutdownClear
<1>7. CASE ShutdownSignal
  BY <1>7 DEF ShutdownSignal, NotifyOne
<1>8. CASE TestState \/ WaitForSignal
  BY <1>8 DEF TestState, WaitForSignal, Step
<1>9. CASE WaitUntilTop
  <2>1. PICK e \in Tops : deadline' = due[e]
    BY <1>9 DEF WaitUntilTop
  <2>2. \A f \in eventList : deadline' <= due[f]
    BY <2>1 DEF Tops
  <2> QED BY <1>9, <2>2 DEF WaitUntilTop, Step
<1>10. CASE WaitTimeout \/ NoTimeout \/ TimeoutOnEmpty \/ SpuriousWakeup
  BY <1>10 DEF WaitTimeout, NoTimeout, TimeoutOnEmpty, SpuriousWakeup, Step
<1>11. CASE PopTop
  BY <1>11 DEF PopTop
<1>12. CASE HandOver
  BY <1>12 DEF HandOver, Step
<1>13. CASE Tick
  BY <1>13 DEF Tick
<1>14. CASE UNCHANGED vars
  BY <1>14 DEF vars
<1> QED
  BY <1>1, <1>2, <1>3, <1>4, <1>5, <1>6, <1>7, <1>8, <1>9, <1>10, <1>11, <1>12, <1>13, <1>14,
     <1>15
  DEF Next, Shutdown, ThreadMain

\* addEvent signals only when the new event becomes the top; that is enough
\* for the scheduler never to sleep past an event.
THEOREM NeverOversleeps == Spec => []NoOversleep
  BY TypeInit, TypeStep, PlaceInit, PlaceStep, OversleepInit, OversleepStep, PTL DEF Spec
-----------------------------------------------------------------------------
(* Stopping is exact                                                       *)

\* Two events that hold the same id are both known to share it.
IdsApart ==
  \A e, f \in Event : e # f /\ eventId[e] # 0 /\ eventId[e] = eventId[f] => e \in shared

\* eventIds holds the id of an event that waits and was not stopped, unless the
\* id is shared.
IdsActive ==
  \A e \in Event :
    /\ phase[e] \in {"none", "created"} => eventId[e] = 0
    /\ phase[e] = "queued" /\ e \notin shared => eventId[e] # 0 /\ eventId[e] \in eventIds
    /\ phase[e] = "stopped" /\ e \notin shared => eventId[e] # 0 /\ eventId[e] \notin eventIds

StopInv == IdsApart /\ IdsActive

LEMMA StopInit == Init => StopInv
  BY DEF Init, StopInv, IdsApart, IdsActive

\* The next id is either nobody's, or its holders and the new event now share it.
LEMMA AddKeepsIds ==
  ASSUME TypeOK, StopInv,
         NEW c \in Caller, NEW x \in Event, AddEvent(c, x), threadState = "RUNNING"
  PROVE  StopInv'
<1>1. /\ phase[x] = "created" /\ eventId[x] = 0
      /\ eventId' = [eventId EXCEPT ![x] = NextId]
      /\ eventIds' = eventIds \union {NextId}
      /\ phase' = [phase EXCEPT ![x] = "queued"]
      /\ shared' = IF Holders = {} THEN shared ELSE shared \union Holders \union {x}
  BY DEF AddEvent, StopInv, IdsActive
<1>2. NextId # 0
  BY NextIdInRange
<1>3. shared \subseteq shared' /\ Holders \subseteq shared'
  BY <1>1
<1>4. ASSUME NEW e \in Event, e # x
      PROVE  /\ eventId'[e] = eventId[e] /\ phase'[e] = phase[e]
             /\ eventId[e] = NextId => e \in shared' /\ x \in shared'
  BY <1>1, <1>3, <1>4 DEF Holders, TypeOK
<1>5. eventId'[x] = NextId /\ phase'[x] = "queued"
  BY <1>1 DEF TypeOK
<1>6. IdsApart'
  <2> SUFFICES ASSUME NEW e \in Event, NEW f \in Event, e # f,
                      eventId'[e] # 0, eventId'[e] = eventId'[f]
               PROVE  e \in shared'
    BY DEF IdsApart
  <2>1. CASE e = x \/ f = x
    BY <2>1, <1>4, <1>5
  <2>2. CASE e # x /\ f # x
    BY <2>2, <1>3, <1>4 DEF StopInv, IdsApart
  <2> QED BY <2>1, <2>2
<1>7. IdsActive'
  <2> SUFFICES ASSUME NEW e \in Event
               PROVE  /\ phase'[e] \in {"none", "created"} => eventId'[e] = 0
                      /\ phase'[e] = "queued" /\ e \notin shared' =>
                           eventId'[e] # 0 /\ eventId'[e] \in eventIds'
                      /\ phase'[e] = "stopped" /\ e \notin shared' =>
                           eventId'[e] # 0 /\ eventId'[e] \notin eventIds'
    BY DEF IdsActive
  <2>1. CASE e = x
    BY <2>1, <1>1, <1>2, <1>5
  <2>2. CASE e # x
    BY <2>2, <1>1, <1>3, <1>4 DEF StopInv, IdsActive
  <2> QED BY <2>1, <2>2
<1> QED BY <1>6, <1>7 DEF StopInv

\* An id that is taken away is that of one event, or is shared.
LEMMA RemoveKeepsIds ==
  ASSUME TypeOK, StopInv, NEW x \in Event,
         eventIds' = eventIds \ {eventId[x]}, UNCHANGED <<eventId, shared>>,
         \A e \in Event \ {x} : phase'[e] = phase[e],
         phase'[x] \notin {"none", "created"},
         phase'[x] = "queued" => x \in shared \/ (phase[x] = "queued" /\ eventId[x] \notin eventIds),
         phase'[x] = "stopped" => phase[x] \in {"queued", "stopped"}
  PROVE  StopInv'
<1>1. IdsApart'
  BY DEF StopInv, IdsApart
<1>2. IdsActive'
  <2> SUFFICES ASSUME NEW e \in Event
               PROVE  /\ phase'[e] \in {"none", "created"} => eventId[e] = 0
                      /\ phase'[e] = "queued" /\ e \notin shared =>
                           eventId[e] # 0 /\ eventId[e] \in eventIds'
                      /\ phase'[e] = "stopped" /\ e \notin shared =>
                           eventId[e] # 0 /\ eventId[e] \notin eventIds'
    BY DEF IdsActive
  <2>1. CASE e = x
    BY <2>1 DEF StopInv, IdsActive
  <2>2. CASE e # x
    <3>1. e \notin shared => eventId[e] = 0 \/ eventId[e] # eventId[x]
      BY <2>2 DEF StopInv, IdsApart
    <3> QED BY <2>2, <3>1 DEF StopInv, IdsActive
  <2> QED BY <2>1, <2>2
<1> QED BY <1>1, <1>2 DEF StopInv

LEMMA StopStep == TypeOK /\ EventsInPlace /\ StopInv /\ [Next]_vars => StopInv'
<1> SUFFICES ASSUME TypeOK, EventsInPlace, StopInv, [Next]_vars  PROVE StopInv'
  OBVIOUS
<1>b. ASSUME UNCHANGED <<eventId, eventIds, phase, shared>>  PROVE StopInv'
  BY <1>b DEF StopInv, IdsApart, IdsActive
<1>1. ASSUME NEW e \in Event, NEW d \in Delay, Create(e, d)  PROVE StopInv'
  BY <1>1 DEF Create, StopInv, IdsApart, IdsActive, TypeOK
<1>2. ASSUME NEW c \in Caller, NEW e \in Event, AddEvent(c, e)  PROVE StopInv'
  <2>1. CASE threadState # "RUNNING"
    BY <1>2, <2>1 DEF AddEvent, StopInv, IdsApart, IdsActive, TypeOK
  <2> QED BY <1>2, <2>1, AddKeepsIds
<1>3. ASSUME NEW c \in Caller, Signal(c)  PROVE StopInv'
  BY <1>3, <1>b DEF Signal
<1>4. ASSUME NEW e \in Event, StopEvent(e)  PROVE StopInv'
  <2>1. /\ eventId[e] # 0 /\ eventIds' = eventIds \ {eventId[e]}
        /\ UNCHANGED <<eventId, shared>>
        /\ \/ phase' = phase /\ (phase[e] = "queued" => eventId[e] \notin eventIds)
           \/ phase[e] = "queued" /\ phase' = [phase EXCEPT ![e] = "stopped"]
    BY <1>4 DEF StopEvent
  <2>2. phase[e] \notin {"none", "created"}
    BY <2>1 DEF StopInv, IdsActive
  <2> QED BY <2>1, <2>2, RemoveKeepsIds DEF TypeOK
<1>13. ASSUME NEW e \in Event, Forget(e)  PROVE StopInv'
  <2>1. /\ phase' = [phase EXCEPT ![e] = "none"] /\ eventId' = [eventId EXCEPT ![e] = 0]
        /\ shared' = shared \ {e} /\ UNCHANGED eventIds
    BY <1>13 DEF Forget
  <2> QED BY <2>1 DEF StopInv, IdsApart, IdsActive, TypeOK
<1>5. CASE Close \/ ShutdownFlag \/ ShutdownSignal
  BY <1>5, <1>b DEF Close, ShutdownFlag, ShutdownSignal
<1>6. CASE ShutdownClear
  BY <1>6 DEF ShutdownClear, StopInv, IdsApart, IdsActive, EventsInPlace
<1>7. CASE TestState \/ WaitForSignal \/ WaitUntilTop
  BY <1>7, <1>b DEF TestState, WaitForSignal, WaitUntilTop, Step
<1>8. CASE WaitTimeout \/ NoTimeout \/ TimeoutOnEmpty \/ SpuriousWakeup
  BY <1>8, <1>b DEF WaitTimeout, NoTimeout, TimeoutOnEmpty, SpuriousWakeup, Step
<1>9. CASE PopTop
  <2>1. PICK e \in Tops : /\ eventIds' = eventIds \ {eventId[e]}
                          /\ \/ phase' = [phase EXCEPT ![e] = "fired"]
                             \/ phase' = [phase EXCEPT ![e] = "cancelled"]
    BY <1>9 DEF PopTop
  <2>2. e \in Event
    BY <2>1 DEF Tops, TypeOK
  <2>3. UNCHANGED <<eventId, shared>>
    BY <1>9 DEF PopTop
  <2> QED BY <2>1, <2>2, <2>3, RemoveKeepsIds DEF TypeOK
<1>10. CASE HandOver
  BY <1>10 DEF HandOver, Step, StopInv, IdsApart, IdsActive, TypeOK, EventsInPlace
<1>11. CASE Tick
  BY <1>11, <1>b DEF Tick
<1>12. CASE UNCHANGED vars
  BY <1>12, <1>b DEF vars
<1> QED BY <1>1, <1>2, <1>3, <1>4, <1>5, <1>6, <1>7, <1>8, <1>9, <1>10, <1>11, <1>12, <1>13
        DEF Next, Shutdown, ThreadMain

\* What StopIsExact says of one event.
Exactly(e) ==
  /\ phase[e] = "stopped" => phase'[e] \in {"stopped", "cancelled", "cleared"}
  /\ ~(phase[e] = "queued" /\ phase'[e] = "cancelled")

LEMMA StopsExactly ==
  ASSUME TypeOK, EventsInPlace, StopInv, [Next]_vars, NEW e \in Event \ shared
  PROVE  Exactly(e)
<1> USE DEF Exactly, TypeOK
<1>1. ASSUME NEW x \in Event, NEW d \in Delay, Create(x, d)  PROVE Exactly(e)
  BY <1>1 DEF Create
<1>2. ASSUME NEW c \in Caller, NEW x \in Event, AddEvent(c, x)  PROVE Exactly(e)
  BY <1>2 DEF AddEvent
<1>3. ASSUME NEW c \in Caller, Signal(c)  PROVE Exactly(e)
  BY <1>3 DEF Signal
<1>4. ASSUME NEW x \in Event, StopEvent(x) \/ Forget(x)  PROVE Exactly(e)
  BY <1>4 DEF StopEvent, Forget
<1>5. CASE Close \/ Shutdown
  BY <1>5 DEF Close, Shutdown, ShutdownFlag, ShutdownClear, ShutdownSignal
<1>6. CASE TestState \/ WaitForSignal \/ WaitUntilTop
  BY <1>6 DEF TestState, WaitForSignal, WaitUntilTop, Step
<1>7. CASE WaitTimeout \/ NoTimeout \/ TimeoutOnEmpty \/ SpuriousWakeup
  BY <1>7 DEF WaitTimeout, NoTimeout, TimeoutOnEmpty, SpuriousWakeup, Step
<1>8. CASE PopTop
  <2>1. PICK x \in Tops : \/ phase' = [phase EXCEPT ![x] = "fired"] /\ eventId[x] \in eventIds
                          \/ phase' = [phase EXCEPT ![x] = "cancelled"] /\ eventId[x] \notin eventIds
    BY <1>8 DEF PopTop, Active
  <2>2. x \in Event
    BY <2>1 DEF Tops
  <2> QED BY <2>1, <2>2 DEF StopInv, IdsActive
<1>9. CASE HandOver
  BY <1>9 DEF HandOver, Step, EventsInPlace
<1>10. CASE Tick \/ UNCHANGED vars
  BY <1>10 DEF Tick, vars
<1> QED BY <1>1, <1>2, <1>3, <1>4, <1>5, <1>6, <1>7, <1>8, <1>9, <1>10
        DEF Next, ThreadMain

\* An event that was stopped is never fired, and one that was not stopped is not
\* cancelled, however often the counter of addEvent wraps around, as long as no
\* other event was given its id while it was known.
THEOREM StopsAreExact == Spec => StopIsExact
<1>1. TypeOK /\ EventsInPlace /\ StopInv /\ [Next]_vars
        => [\A e \in Event \ shared :
              /\ phase[e] = "stopped" => phase'[e] \in {"stopped", "cancelled", "cleared"}
              /\ ~(phase[e] = "queued" /\ phase'[e] = "cancelled")]_vars
  BY StopsExactly DEF Exactly
<1> QED BY <1>1, StopInit, StopStep, TypeInit, TypeStep, PlaceInit, PlaceStep, PTL
        DEF Spec, StopIsExact
=============================================================================

------------------------------ MODULE Scheduler ------------------------------
(***************************************************************************)
(* The scheduler thread of src/src/scheduler.cpp: a timed event waits in a *)
(* priority queue until its time has come and is then handed to the        *)
(* dispatcher, unless Scheduler::stopEvent took its id away.               *)
(*                                                                         *)
(* A critical section under eventLock is one step.  The state test of the  *)
(* loop, the late notify_one of addEvent, the hand-over to the dispatcher  *)
(* and the three parts of shutdown (the flag, the list, the signal) happen *)
(* outside the lock and are steps of their own.  A timed wait decides      *)
(* between timeout and no_timeout by the clock, after it took the lock     *)
(* again.                                                                  *)
(***************************************************************************)
EXTENDS Naturals, FiniteSets

CONSTANTS Event,     \* SchedulerTask objects that callers may create
          Caller,    \* the threads that call in
          Delay,     \* delays that callers ask for
          IdRange,   \* event ids are 0 .. IdRange - 1; 0 is "no event"
          MaxTime,   \* the clock stops here (bound of the model)
          NoEvent

ASSUME SchedulerAssumption ==
  /\ Delay \subseteq Nat
  /\ IdRange \in Nat /\ IdRange > 1
  /\ MaxTime \in Nat
  /\ NoEvent \notin Event

VARIABLES threadState,  \* ThreadHolder::threadState
          now,          \* system_clock
          eventList,    \* Scheduler::eventList, ordered by due
          eventIds,     \* Scheduler::eventIds
          lastEventId,  \* Scheduler::lastEventId
          due,          \* SchedulerTask::expiration
          eventId,      \* SchedulerTask::eventId
          pc,           \* where the scheduler thread is in threadMain
          deadline,     \* the time its timed wait was given
          task,         \* the event it has popped
          doSignal,     \* callers past addEvent's unlock with do_signal set
          halt,         \* how far shutdown() has come
          phase,        \* the life of every event object
          shared        \* history: events whose id was given to another one as well

vars == <<threadState, now, eventList, eventIds, lastEventId, due, eventId,
          pc, deadline, task, doSignal, halt, phase, shared>>

ThreadStates == {"RUNNING", "CLOSING", "TERMINATED"}
Points == {"test", "lock", "waiting", "sleeping", "woken", "awake",
           "firing", "done", "crashed"}
Phases == {"none", "created", "queued", "stopped", "fired", "handed",
           "cancelled", "refused", "cleared"}
Halts  == {"no", "flagged", "emptied", "yes"}
EventId == 0 .. IdRange - 1

\* lastEventId starts anywhere: the counter wraps around in a long run.
Init ==
  /\ threadState = "RUNNING"
  /\ now = 0
  /\ eventList = {}
  /\ eventIds = {}
  /\ lastEventId \in EventId
  /\ due = [e \in Event |-> 0]
  /\ eventId = [e \in Event |-> 0]
  /\ pc = "test"
  /\ deadline = 0
  /\ task = NoEvent
  /\ doSignal = {}
  /\ halt = "no"
  /\ phase = [e \in Event |-> "none"]
  /\ shared = {}

-----------------------------------------------------------------------------
(* Calls into the scheduler.                                               *)

\* createSchedulerTask: the due time is fixed before addEvent takes the lock.
Create(e, delay) ==
  /\ phase[e] = "none"
  /\ now + delay <= MaxTime
  /\ due' = [due EXCEPT ![e] = now + delay]
  /\ phase' = [phase EXCEPT ![e] = "created"]
  /\ UNCHANGED <<threadState, now, eventList, eventIds, lastEventId, eventId,
                 pc, deadline, task, doSignal, halt, shared>>

\* ++lastEventId on an unsigned, and 0 is skipped; the variant never wraps.
UnboundedId == lastEventId + 1
NextId == IF (lastEventId + 1) % IdRange = 0 THEN 1 ELSE lastEventId + 1

\* The heap moves a new event to the top only if it is strictly the earliest.
\* The variant is the rule of the dispatcher.
ListWasEmpty(e) == eventList = {}
BecomesTop(e) == \A f \in eventList : due[e] < due[f]

\* addEvent does not look whether the next id is still somebody's: an event of
\* the list, or one whose caller kept the id.
Holders == {f \in Event : eventId[f] = NextId}

\* Scheduler::addEvent, up to the unlock.
AddEvent(c, e) ==
  /\ c \notin doSignal
  /\ phase[e] = "created"
  /\ IF threadState = "RUNNING"
       THEN /\ lastEventId' = NextId
            /\ eventId' = [eventId EXCEPT ![e] = NextId]
            /\ eventIds' = eventIds \union {NextId}
            /\ eventList' = eventList \union {e}
            /\ doSignal' = IF BecomesTop(e) THEN doSignal \union {c} ELSE doSignal
            /\ phase' = [phase EXCEPT ![e] = "queued"]
            /\ shared' = IF Holders = {} THEN shared ELSE shared \union Holders \union {e}
       ELSE /\ phase' = [phase EXCEPT ![e] = "refused"]
            /\ UNCHANGED <<eventList, eventIds, lastEventId, eventId, doSignal, shared>>
  /\ UNCHANGED <<threadState, now, due, pc, deadline, task, halt>>

\* eventSignal.notify_one(): only the scheduler thread ever waits on it.  The
\* variant reaches only a thread that waits for a time.
NotifySleeper == pc' = IF pc = "sleeping" THEN "woken" ELSE pc
NotifyOne == pc' = CASE pc = "waiting"  -> "awake"
                     [] pc = "sleeping" -> "woken"
                     [] OTHER           -> pc

\* The end of addEvent.
Signal(c) ==
  /\ c \in doSignal
  /\ doSignal' = doSignal \ {c}
  /\ NotifyOne
  /\ UNCHANGED <<threadState, now, eventList, eventIds, lastEventId, due, eventId,
                 deadline, task, halt, phase, shared>>

\* Scheduler::stopEvent with the id addEvent returned for e.  It answers
\* whether the id was active; the event object stays in the list.
StopEvent(e) ==
  /\ eventId[e] # 0
  /\ eventIds' = eventIds \ {eventId[e]}
  /\ phase' = IF eventId[e] \in eventIds /\ phase[e] = "queued"
                THEN [phase EXCEPT ![e] = "stopped"] ELSE phase
  /\ UNCHANGED <<threadState, now, eventList, lastEventId, due, eventId,
                 pc, deadline, task, doSignal, halt, shared>>

\* The object is deleted (by whoever ran, refused or cancelled it) and its caller
\* drops the id: memory and id may come back as another event.
Forget(e) ==
  /\ phase[e] \in {"handed", "cancelled", "refused", "cleared"}
  /\ phase' = [phase EXCEPT ![e] = "none"]
  /\ due' = [due EXCEPT ![e] = 0]
  /\ eventId' = [eventId EXCEPT ![e] = 0]
  /\ shared' = shared \ {e}
  /\ UNCHANGED <<threadState, now, eventList, eventIds, lastEventId, pc, deadline,
                 task, doSignal, halt>>

\* ThreadHolder::stop
Close ==
  /\ halt = "no"
  /\ threadState' = "CLOSING"
  /\ UNCHANGED <<now, eventList, eventIds, lastEventId, due, eventId,
                 pc, deadline, task, doSignal, halt, phase, shared>>

\* Scheduler::shutdown sets the state before it takes the lock ...
ShutdownFlag ==
  /\ halt = "no"
  /\ halt' = "flagged"
  /\ threadState' = "TERMINATED"
  /\ UNCHANGED <<now, eventList, eventIds, lastEventId, due, eventId,
                 pc, deadline, task, doSignal, phase, shared>>

\* ... deletes what is left under it ...
ShutdownClear ==
  /\ halt = "flagged"
  /\ halt' = "emptied"
  /\ eventList' = {}
  /\ eventIds' = {}
  /\ phase' = [e \in Event |-> IF e \in eventList THEN "cleared" ELSE phase[e]]
  /\ UNCHANGED <<threadState, now, lastEventId, due, eventId, pc, deadline,
                 task, doSignal, shared>>

\* ... and signals after it.
ShutdownSignal ==
  /\ halt = "emptied"
  /\ halt' = "yes"
  /\ NotifyOne
  /\ UNCHANGED <<threadState, now, eventList, eventIds, lastEventId, due, eventId,
                 deadline, task, doSignal, phase, shared>>

Shutdown == ShutdownFlag \/ ShutdownClear \/ ShutdownSignal

-----------------------------------------------------------------------------
(* Scheduler::threadMain                                                   *)

Step(from, to) ==
  /\ pc = from
  /\ pc' = to
  /\ UNCHANGED <<threadState, now, eventList, eventIds, lastEventId, due, eventId,
                 doSignal, halt, shared>>

TestState ==
  /\ Step("test", IF threadState = "TERMINATED" THEN "done" ELSE "lock")
  /\ UNCHANGED <<deadline, task, phase>>

\* eventList.top(): the earliest event; among equals the heap decides.
Tops == {e \in eventList : \A f \in eventList : due[e] <= due[f]}

WaitForSignal ==
  /\ eventList = {}
  /\ Step("lock", "waiting")
  /\ UNCHANGED <<deadline, task, phase>>

WaitUntilTop ==
  /\ \E e \in Tops : deadline' = due[e]
  /\ Step("lock", "sleeping")
  /\ UNCHANGED <<task, phase>>

\* The timed wait reached its time, or a wait ended without a signal.
WaitTimeout == now >= deadline /\ Step("sleeping", "woken") /\ UNCHANGED <<deadline, task, phase>>
SpuriousWakeup ==
  /\ Step("waiting", "awake") \/ Step("sleeping", "woken")
  /\ UNCHANGED <<deadline, task, phase>>

\* wait_until compares the clock with its deadline after it took the lock
\* again; the variant takes every return of wait_until for a timeout.
AlwaysTimeout == TRUE
TimedOut      == now >= deadline

\* Whether threadMain may fire the event it popped; the variant trusts stopEvent
\* to have removed it from the list.
AlwaysActive(e) == TRUE
Active(e)       == eventId[e] \in eventIds

\* A wait returned no_timeout: back to the loop test.
NoTimeout ==
  /\ Step("awake", "test") \/ (~TimedOut /\ Step("woken", "test"))
  /\ UNCHANGED <<deadline, task, phase>>

\* wait_until returned timeout, the lock is held: "there has to be an event".
\* top() of an empty queue is undefined behaviour; the model stops there.
TimeoutOnEmpty ==
  /\ TimedOut
  /\ eventList = {}
  /\ Step("woken", "crashed")
  /\ UNCHANGED <<deadline, task, phase>>

\* The top is popped; it is fired if its id is still active.
PopTop ==
  /\ pc = "woken"
  /\ TimedOut
  /\ \E e \in Tops :
       /\ eventList' = eventList \ {e}
       /\ eventIds' = eventIds \ {eventId[e]}
       /\ IF Active(e)
            THEN /\ phase' = [phase EXCEPT ![e] = "fired"]
                 /\ task' = e
                 /\ pc' = "firing"
            ELSE /\ phase' = [phase EXCEPT ![e] = "cancelled"]
                 /\ task' = NoEvent
                 /\ pc' = "test"
  /\ UNCHANGED <<threadState, now, lastEventId, due, eventId, deadline, doSignal, halt,
                 shared>>

\* setDontExpire, then g_dispatcher.addTask(task, true) outside the lock.
HandOver ==
  /\ Step("firing", "test")
  /\ phase' = [phase EXCEPT ![task] = "handed"]
  /\ task' = NoEvent
  /\ UNCHANGED deadline

ThreadMain ==
  \/ TestState \/ WaitForSignal \/ WaitUntilTop \/ WaitTimeout
  \/ NoTimeout \/ TimeoutOnEmpty \/ PopTop \/ HandOver

Tick ==
  /\ now < MaxTime
  /\ now' = now + 1
  /\ UNCHANGED <<threadState, eventList, eventIds, lastEventId, due, eventId,
                 pc, deadline, task, doSignal, halt, phase, shared>>

-----------------------------------------------------------------------------
Next ==
  \/ \E e \in Event, d \in Delay : Create(e, d)
  \/ \E c \in Caller, e \in Event : AddEvent(c, e)
  \/ \E c \in Caller : Signal(c)
  \/ \E e \in Event : StopEvent(e) \/ Forget(e)
  \/ Close \/ Shutdown
  \/ ThreadMain \/ SpuriousWakeup
  \/ Tick

\* The scheduler thread runs its loop, time passes, and a caller that has
\* released the lock goes on to its notify_one.
Fairness ==
  /\ WF_vars(ThreadMain) /\ WF_vars(Tick)
  /\ WF_vars(ShutdownClear) /\ WF_vars(ShutdownSignal)
  /\ \A c \in Caller : WF_vars(Signal(c))

Spec     == Init /\ [][Next]_vars
FairSpec == Spec /\ Fairness

-----------------------------------------------------------------------------
(* Properties                                                              *)

\* Every variable stays in its range.
TypeOK ==
  /\ threadState \in ThreadStates
  /\ now \in Nat
  /\ eventList \subseteq Event
  /\ eventIds \subseteq EventId
  /\ lastEventId \in EventId
  /\ due \in [Event -> Nat]
  /\ eventId \in [Event -> EventId]
  /\ pc \in Points
  /\ deadline \in Nat
  /\ task \in Event \union {NoEvent}
  /\ doSignal \subseteq Caller
  /\ halt \in Halts
  /\ phase \in [Event -> Phases]
  /\ shared \subseteq Event

\* The thread never sleeps past an event: it waits without a deadline only on
\* an empty list, and with a deadline no event in the list is earlier, or a
\* caller is about to wake it.
NoOversleep ==
  doSignal = {} =>
    /\ pc = "waiting" => eventList = {}
    /\ pc = "sleeping" => \A e \in eventList : deadline <= due[e]

\* An event reaches the dispatcher only after its time, although threadMain
\* pops "the top" after a timeout without looking at its time again.
NeverEarly ==
  \A e \in Event : phase[e] \in {"fired", "handed", "cancelled"} => due[e] <= now

\* Ids wrap around and come back, and a stopped event stays in the list until
\* its time.  As long as nobody else was given the id of an event while it was
\* known, an event whose stopEvent answered true never reaches the dispatcher,
\* and an event that nobody stopped is not cancelled.
StopIsExact ==
  [][\A e \in Event \ shared :
       /\ phase[e] = "stopped" => phase'[e] \in {"stopped", "cancelled", "cleared"}
       /\ ~(phase[e] = "queued" /\ phase'[e] = "cancelled")]_vars

\* The comment in threadMain: after a timeout there is an event to execute.
TimeoutHasEvent == pc # "crashed"

\* Until shutdown() starts, an event that nobody stops, and whose id nobody else
\* was given, is handed over.
DueEventFires ==
  \A e \in Event :
    phase[e] = "queued" ~>
      phase[e] \in {"handed", "stopped"} \/ e \in shared \/ halt # "no"
=============================================================================

-------------------------------- MODULE Raids --------------------------------
(***************************************************************************)
(* Raids: the periodic check that starts one, the chain of its events, the *)
(* /raid command, and the reload of the raids (src/src/raids.cpp,          *)
(* commands.cpp forceRaid, signals.cpp SIGHUP).  Chances, margins and      *)
(* delays are left out: a raid may start at any check and an event of the  *)
(* scheduler may fire at any time.  All of it runs on the dispatcher       *)
(* thread.                                                                 *)
(***************************************************************************)
EXTENDS Naturals, FiniteSets

CONSTANTS Raid,         \* the raids of raids.xml
          Repeats,      \* those with repeat="yes"
          Length,       \* [Raid -> Nat], the number of events of a raid
          MaxReloads,   \* bound on the reloads
          MaxEvents,    \* bound on the raid events that are scheduled at a time
          None

\* A Raid object: the raid and the load that has made it.
Object == Raid \X (0..MaxReloads)
Event  == 1..MaxEvents

VARIABLES loads,       \* how often the raids have been reloaded
          raidList,    \* Raids::raidList
          deleted,     \* Raid objects that have been deleted
          running,     \* Raids::running
          nextEvent,   \* Raid::nextEvent
          handle,      \* Raid::nextEventEvent, None once that event has fired
          scheduled    \* executeRaidEvent in the scheduler: its Raid, or None

vars == <<loads, raidList, deleted, running, nextEvent, handle, scheduled>>

Loaded(n) == Raid \X {n}

Init ==
  /\ loads = 0 /\ raidList = Loaded(0) /\ deleted = {} /\ running = None
  /\ nextEvent = [o \in Object |-> 0]
  /\ handle = [o \in Object |-> None]
  /\ scheduled = [e \in Event |-> None]

\* Raid::getNextRaidEvent finds one.
HasNext(o) == nextEvent[o] < Length[o[1]]

\* Raid::startRaid: it does nothing with a raid that has no events.
StartRaid(o) ==
  IF HasNext(o)
  THEN \E e \in Event :
         /\ scheduled[e] = None
         /\ scheduled' = [scheduled EXCEPT ![e] = o]
         /\ handle' = [handle EXCEPT ![o] = e]
  ELSE UNCHANGED <<scheduled, handle>>

\* Raids::checkRaids when its dice choose o.  What may not be repeated leaves the
\* list; nobody deletes it.
CheckRaids(o) ==
  /\ running = None /\ o \in raidList
  /\ running' = o
  /\ StartRaid(o)
  /\ raidList' = IF o[1] \in Repeats THEN raidList ELSE raidList \ {o}
  /\ UNCHANGED <<loads, deleted, nextEvent>>

\* Commands::forceRaid: the event's id is not kept in nextEventEvent.
ForceRaid(o) ==
  /\ running = None /\ o \in raidList
  /\ running' = o
  /\ IF HasNext(o)
     THEN \E e \in Event : scheduled[e] = None /\ scheduled' = [scheduled EXCEPT ![e] = o]
     ELSE UNCHANGED scheduled
  /\ UNCHANGED <<loads, raidList, deleted, nextEvent, handle>>

\* Raid::executeRaidEvent: the event is executed and the next one scheduled.
ExecuteNext(e) ==
  LET o == scheduled[e]
  IN  /\ o # None /\ o \notin deleted
      /\ nextEvent[o] + 1 < Length[o[1]]
      /\ nextEvent' = [nextEvent EXCEPT ![o] = @ + 1]
      /\ \E f \in Event :
           /\ f = e \/ scheduled[f] = None
           /\ scheduled' = [scheduled EXCEPT ![e] = None, ![f] = o]
           /\ handle' = [handle EXCEPT ![o] = f]
      /\ UNCHANGED <<loads, raidList, deleted, running>>

\* The last event has been executed, or an event has failed: Raid::resetRaid.
ResetRaid(e) ==
  LET o == scheduled[e]
  IN  /\ o # None /\ o \notin deleted
      /\ nextEvent' = [nextEvent EXCEPT ![o] = 0]
      /\ running' = None
      /\ scheduled' = [scheduled EXCEPT ![e] = None]
      /\ handle' = [handle EXCEPT ![o] = IF @ = e THEN None ELSE @]
      /\ UNCHANGED <<loads, raidList, deleted>>

\* Raids::clear, loadFromXml and startup: on SIGHUP and by the command.  Only the
\* raids of the list are stopped and deleted.
Reload ==
  /\ loads < MaxReloads
  /\ loads' = loads + 1
  /\ scheduled' = [e \in Event |-> IF e \in {handle[o] : o \in raidList} THEN None
                                                                        ELSE scheduled[e]]
  /\ handle' = [o \in Object |-> IF o \in raidList THEN None ELSE handle[o]]
  /\ deleted' = deleted \cup raidList
  /\ raidList' = Loaded(loads + 1)
  /\ running' = None
  /\ UNCHANGED nextEvent

Next ==
  \/ \E o \in Object : CheckRaids(o) \/ ForceRaid(o)
  \/ \E e \in Event : ExecuteNext(e) \/ ResetRaid(e)
  \/ Reload

Spec == Init /\ [][Next]_vars

-----------------------------------------------------------------------------
\* One raid at a time: as long as one has events to come no other one is started
\* (commands.cpp:319, "Another raid is already being executed."; checkRaids looks
\* at the same pointer).  The code does not keep this: a raid that may not be
\* repeated is off the list while it runs, a reload forgets it without stopping it,
\* and starts the next one beside it.
OneAtATime ==
  Cardinality({o \in Object \ deleted : \E e \in Event : scheduled[e] = o}) <= 1
=============================================================================

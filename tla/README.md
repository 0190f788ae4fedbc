# A verification project for OTXLinux

OTXLinux is a game server of the OpenTibia family: one C++ program (`src/src/`)
that accepts game clients over TCP, keeps the game world in memory, runs scripts,
and stores accounts and characters in MySQL.  This directory holds TLA+ modules
that model its core, TLC configurations that check them on small instances, and
theorems whose proofs TLAPS checks for every value of the constants.  Source
lines below are of the files in `src/src/`.

- [Inventory](#inventory)
- [What is modelled, and how it maps to the code](#what-is-modelled-and-how-it-maps-to-the-code)
- [Runs, bounds and fairness](#runs-bounds-and-fairness)
- [What is proved](#what-is-proved)
- [What the checks found](#what-the-checks-found)
- [What is not modelled](#what-is-not-modelled)
- [Plan](#plan)

## Inventory

The server has four threads.

| thread | code | owns |
|---|---|---|
| dispatcher | `tasks.cpp` | the game: every change of the world is a task it runs |
| scheduler | `scheduler.cpp` | timed events; a due event becomes a dispatcher task |
| database | `databasetasks.cpp` | queries nobody waits for; results come back as dispatcher tasks |
| main | `otserv.cpp`, `server.cpp`, `connection.cpp`, `signals.cpp` | `io_service::run`: sockets, their timers, signals; at the end it joins the others |

They talk through three locked queues, each with a condition variable that is
notified after the lock was released, and through a few objects that two threads
touch directly (a `Connection` under its lock; a `Player*` that the network
thread reads unlocked).  Components, their state and operations:

| component | state | operations | hard behaviour | what makes it correct |
|---|---|---|---|---|
| Dispatcher | task list, thread state | addTask front/back, stop, shutdown, threadMain | late notify, push to the front, drop when closing | no lost wakeup; a task has one owner; order; accepted tasks run |
| Scheduler | heap of events, active ids, clock | addEvent, stopEvent, shutdown, threadMain | timed wait raced by push and shutdown, wrapped ids, lazy cancel | never early, never overslept, stop is exact, due events fire |
| Background queries | query list | addTask, flush, shutdown, threadMain | flush in another thread while one query is in flight | executed once, callback after query, order but for the one in flight |
| Runtime | game state, joins | signals, setGameState, Game::shutdown, main | stop of three queues from a task of one of them; second signal | nothing left behind, no event after the world is torn down, exit |
| Connection | state, pending operations, timers, write queue; the port's acceptor | accept, parse, send, close, timeouts, reopening of the port | close from any thread, handlers that outlive it | one release per protocol, socket closed in the end, silent peers are closed, a port that does not listen is tried again |
| Game session | protocol, its player, the player's client | login, connect, logout, release, kick, ping-out, death | a second login replaces the first with a delay of one second | one session per player, references exact, login answered |
| Output messages | protocols to flush, their buffers, event chain | addProtocolToAutosend, sendAll | list empties and refills within 10 ms | flushed while in use, never after release |
| Waiting list | two lists of slots with timeouts | clientLogin, cleanup | retries, expiry, priority | slot order, no slot lost or kept for ever |
| Database | handle, recursive lock, transaction | execute, store, begin, commit, rollback | retries under the lock; BEGIN before the lock | transactions are not interleaved |
| Creature life cycle | reference counts, check lists, release lists | place, remove, check, cleanup | removal during iteration, summons | freed once, and only when nobody points to it |
| Trade | trade states, partners, items; a house's transfer document | request, accept, transfer, close, sell a house | either side leaves, moves, cancels, or nests one offer in another | partners are mutual, offers apart, and a completed trade has moved what it says |
| Party | leader, members, invitations, shared experience, the party channel | invite, join, leave, pass, disband, log out | script vetoes in the middle of an operation; lists edited while they are walked | membership is mutual; nobody listed is gone; a party without members and invitations is taken down |
| Item movement | containers, tiles, stacks | move, add, remove, transform | query and act in two phases | items are neither lost nor duplicated |
| Raids | the list, the running raid, its chain of events | check, force, execute, reset, reload | events that outlive the raid list | one raid at a time; nothing runs on a deleted raid |
| Spawns | timed events, spawned monsters | startup, check, clear | a check that is due while the spawns are cleared | a spawned monster is counted until it dies |
| Combat, conditions, spells | conditions per creature | add, merge, tick, end | nested removal | ended once |
| Houses, guilds, chat, scripts, loaders, protocols for login and status | | | mostly sequential | |

`PROJECT.json` lists the hazards of this code one by one with the line where
each bites and the property that guards it (or why none does yet).

## What is modelled, and how it maps to the code

Every step that is done under one lock is one action; whatever happens between
two critical sections (a state test, a late `notify_one`, a task's body) is an
action of its own.  `PROJECT.json` "map" gives the lines of each definition.
Definitions marked as bugs or variants in a comment are not part of the
specification: they mutate it, to show that a property notices.

- **Dispatcher** — `taskList`, `threadState`, the program counter `pc` of
  `threadMain`, the callers that have released the lock and still have to notify
  (`doSignal`), and the life of every task object (`phase`).  `AddTask`/`Signal`
  are the two halves of `addTask`; `Shutdown`, `Close` (`ThreadHolder::stop`),
  and one action per step of `threadMain`, spurious wakeups included.  The task
  list may grow at both ends.  A task may expire between being queued and being
  run if it was created with a deadline.
- **Scheduler** — `eventList` with the due times (the heap, of which only the top
  matters), `eventIds` (ids neither fired nor stopped), a clock.  `wait_until`
  is modelled by what it does: it returns for a signal, its time or for no
  reason, takes the lock, and only then reads the clock to tell a timeout.
  `shutdown` is three steps: state, list, signal.  The id counter wraps at
  `IdRange` (2^32 in the code) and starts anywhere.  `Forget` is the end of an
  event object, after which its memory and its id may come back as another event.
  `addEvent` does not look whether the next id is free; the history variable
  `shared` holds the events whose id was given to a second one while they had it.
- **DatabaseTasks** — the list, the query in flight, and three history variables
  (accepted, executed, posted) for the properties.  `shutdown` holds the lock
  over its flush, so `LockFree` blocks other callers meanwhile.
- **ServerRuntime** — instances of the three modules above, plus the main thread
  and the shutdown code.  A call from one thread into another's queue is a joint
  step: `HandOver` is the scheduler's hand-over and the dispatcher's `AddTask`
  at the front.  Events are made by game tasks and by the main thread, whose port
  retries by one (server.cpp:129).  An event object that was handed over is not
  used again there: its life in the dispatcher's list ends with it.  The body of a
  task is a sequence of steps of the dispatcher
  thread while `dpc = "running"`; `step` is the statement of
  `setGameState(SHUTDOWN)` or `Game::shutdown` that comes next.
- **Executor** — what the dispatcher promises its callers: a list, the task being
  run, and whether tasks are accepted; no lock, no signal, no thread.
  `Dispatcher` instantiates it with its own `threadState`, `taskList`, `task` and
  `phase` (the refinement mapping is the identity on these four and forgets the
  others) and `ImplementsExecutor` is its fair specification.
- **GameSession** — connections and the game protocol's life for one character.
  The network actions are one handler each (the handler holds
  `connectionLock`); the dispatcher actions are one task each.  A connection is
  alive (`isConnectionExpired` is false) while it is open or an asynchronous
  read or write holds it, which is why `closed` and "gone" differ.  Player
  objects are named by the connection whose login created them; `refs` is
  `Creature::referenceCounter`, `toRelease` the object's entries in
  `ToReleaseCreatures`, `inCheck` its place in a check list.  The configuration
  `REPLACE_KICK_ON_LOGIN` and the outcome of a login's checks are
  nondeterministic; `ALLOW_CLONES` is off.  Whether the socket itself is open is
  abstracted: it decides only when pending operations end.  A scheduler event is
  the set `timer`, and a due one goes to the front of the queue as in
  ServerRuntime.
- **Connection** — one `Connection` object per member of `Conn` with its state,
  socket, pending read and write, the two timers and the length of
  `messageQueue`; the `ServicePort` that accepts it; and the `OutputMessagePool`
  its protocol is in.  Where `GameSession` abstracts the socket, this module
  abstracts the session: whether the protocol belongs to the pool is the game's
  choice.  The methods of a connection (`Close`, `Send`, `CloseSocket`, ...)
  are operators from the object to the object, and a handler, which holds
  `connectionLock` from beginning to end, is a step made of them.  A timer is
  first `armed`, then `due`, then handled: `cancel()` does not reach a handler
  that already waits to run, so an old `handleTimeout` may close a connection
  that has just received its packet.  A port that failed to accept has its event
  `scheduled`; when it is `due`, `Open` listens or fails and schedules the next
  one, for as long as the system refuses.  An object is destroyed when nothing holds
  it: the manager, a pending operation, or a handler.
- **Trade** — `tradeState`, `tradePartner` and `tradeItem` of each player,
  `Game::tradeItems`, the tree of containers (`holder` is `Item::getParent`), and
  a house with its transfer document.  A packet's handler and every notification
  it causes are one step: moving an item (`MoveItem`) closes the trades of all
  players whose offer it disturbs (`Player::checkTradeState`) in the same step.  Distances, weights, free room and scripts are the
  nondeterministic outcome of the handlers that ask for them.  When the second of
  two accepts, the first move is tested and may fail, which closes the trade
  (`AcceptFails`); the result of the second is ignored, and for an item in
  `Stackable` it may fail although it was tested: the tests (game.cpp:2426) may
  merge it with a stack, the move (2440) may not.  `exchange` is a history
  variable: the trade the last step completed.
- **Party** — `Party` objects are raw pointers, so `Address` is the memory they
  live in and an address is used again after a `delete`: a stale pointer then
  meets another party.  Each operation of `party.cpp` is an operator from a
  `World` (the four structures) to the next, called in the order of the code.
  Where the code walks a list and calls the same method for each element (the
  invitations of a player who leaves the game, the members of a disbanded party),
  the operator takes the whole set at once: the calls touch different parties or
  players, so their order does not show.  Checked with TLC, this form and one
  that walks the lists step by step have the same reachable states.  The rest:
  the handlers of `game.cpp`, `chat.cpp` and `Player::onRemoveCreature` are the
  actions.  `Vetoes` names the script events that may answer false;
  `Exempt` is the players whose group has `PlayerFlag_NotGainInFight`: they are
  given no points (party.cpp:459) and need none to share (party.cpp:428).
- **Raids** — `Raids::raidList`, `running` and the chain of scheduled
  `executeRaidEvent`s; `handle` is `nextEventEvent`, the id by which a raid can
  stop its event.  A `Raid` object is a raid of the file together with the load
  that made it, so that objects of before and after a reload differ.

The `MC*` modules give the constants finite values.

## Runs, bounds and fairness

| run | instance | states | shows |
|---|---|---|---|
| `dispatcher` | 2 callers + the dispatcher itself, 3 tasks (1 may expire) | 5 600 | no lost wakeup, one owner, order, accepted tasks run, it is an `Executor` |
| `scheduler` | 2 callers, 2 event objects used again, delays 1 and 2, ids 0..2, clock to 3 | 790 000 | type, no oversleep, never early, exact stop, due events fire |
| `scheduler_timeout` | the same | violation | `top()` of an emptied queue |
| `database` | 2 callers, 3 queries (2 with a callback) | 5 900 | executed once, callbacks, order, accepted queries run |
| `runtime` | 1 event (of a task or the main thread), 1 query, 1 network task, 2 signals | 1 800 000 | no event after shutdown, clean exit, the dispatcher ends |
| `runtime_exit` | idle server, 1 signal | violation | lost wakeup at shutdown |
| `session` | 2 connections | 21 000 | type, references, one session, autosend, login answered, player freed |
| `session_dead_client` | the same | violation | `connect` after `release` |
| `connection` | 1 connection at a time, 3 messages, 2 `sendAll` chains | 15 500 | type, watched, one write, no orphan, close ends, silent peers closed, output sent, a retry of the port pending |
| `trade` | 3 players, 2 bags and a stackable item, 1 house | 106 000 | type, mutual, offers disjoint, what a completed trade moved, house saleable |
| `party` | 3 players, 1 of them exempt, 2 addresses, no script vetoes | 550 000 | mutual, nobody gone, no party without members and invitations, shared experience |
| `raids_reload` | a repeated and an unrepeated raid, 2 events each, 1 reload | violation | two raids at a time |

Why the bounds are enough for the interesting cases: three tasks allow one in
front, one at the back and one in between; two callers allow both to be between
unlock and notify at once; with three ids, of which 0 is skipped, and event objects
that are used again, the counter wraps and ids come back, to events that wait
beside another holder of the same id among others; the clock bound
lets one event fire while the other is pending.  In `runtime` one object of each
kind meets every statement of the shutdown, and the second signal comes before,
during or after the first one's task.  In `session` two connections give: both
log in, one replaces the other while its own connection dies, a third
party (kick, death, ping-out) removes the character at any moment, and the second
login creates a second object while the first still waits to be released.
`RecvLogout` lets one logout per connection wait at a time; that is the only
bound in a guard there.

In `connection` one object at a time is enough because connections meet only in
the pool, of which the code asks whether it is empty, and at the port, which
accepts the next one when a member of `Conn` is free: the object is used again and
again, so the pool empties and refills and old timers, events and chains meet the
new connection; the theorems hold for any number.  `MaxQueue` = 3 lets a write be
pending, one message wait, and one be buffered; `MaxChains` = 2 lets a second
chain of `sendAll` start beside the first.  In `trade` a third player interferes with the two who trade, and
two bags allow an offer inside an offer inside a bag.  In `party` a party of
three can lose its leader and go on, and a player invited to one party can lead
the other; the two players without the flag and the addresses are interchangeable,
hence the symmetry (the run has no temporal property).  In `raids_reload` `MaxReloads` = 1 and
`MaxEvents` = 3 leave room for both raids' events and a stale one.

`CHECK_DEADLOCK FALSE` is set where the system really stops: in the runs of the
threads and sessions the threads end, or the finite supply of tasks, events or
connections is used up; in `connection` a connection that the packet limit has
left without a read may stay for ever and keeps its place.  `trade` and `party`
check deadlock: their players can always do something.

Fairness.  Every thread's loop is weakly fair
(the operating system runs threads, task bodies and queries return), of the
second half of a call (a caller that released a lock goes on), of the clock, and
in `GameSession` of the check lists' turns (`checkCreatures` reschedules itself
before anything else, game.cpp:3165).  `Connection` assumes that handlers and
the events of `sendAll` run, that an operation on a closed socket or with a broken peer
fails, that a peer that is alive takes what is written to it, and that a timer
nobody arms anew expires, which it says of timers of peers that have stopped
sending; of opening a port it assumes nothing.  In `ServerRuntime` each of the
four threads is one weakly fair action, its late signals included; the `runtime`
run uses less (`DispatcherSpec`): that the dispatcher's own thread runs and that
a caller that released the dispatcher's lock goes on, so `DispatcherEnds` holds
also when the scheduler, the database and the main thread hang.  `Executor` is fair in going on to the next task and in ending one.
Nothing is assumed of callers, clients, peers, packets, logins, signals, refusals
or spurious wakeups.

What is *not* claimed: `DispatcherEnds` is about the dispatcher only;
`ServerExits`, that `main` returns, is false (below).  `DueEventFires` holds until
shutdown starts.  `PlayerFreed` excepts a player that `connect` attached to a
released protocol, the leak of the finding below.  `CloseEnds` and
`SilentIsClosed` name the two cases in which the code leaves a socket open (below).

## What is proved

The `*Proofs` modules prove, for any sets of tasks, events, queries, callers,
delays, connections, players, items, bags and addresses, any id range and any clock
or queue bound:

| theorem | statement | argument |
|---|---|---|
| `DispatcherProofs!TypeCorrect` | `Spec => []TypeOK` | inductive as it stands |
| `DispatcherProofs!TasksHaveOneOwner` | `Spec => []OneOwner` | inductive with `TypeOK`: the phase of a task says where it is, so a task that is inserted was nowhere before; `PushBack`, `PushFront` and `PopFront` say what the three list operations do to indices |
| `DispatcherProofs!NoWakeupIsLost` | `Spec => []NoLostWakeup` | inductive with `TypeOK`: the list becomes non-empty only by a caller that found it empty, which is then in `doSignal` until it notified |
| `DispatcherProofs!TasksKeepTheirOrder` | `Spec => NoOvertaking` | from `TypeOK`, action by action: pushes shift indices, a take removes the first |
| `DispatcherProofs!IsAnExecutor` | `Spec => E!Spec` | step by step with `TypeOK`, `OneOwner` and `NothingAfterStop` (once the shutdown task has run, the thread only looks at its state): `AddTask` is `Submit` or `Refuse`, taking the head is `Start`, the end of a body or of the expiration test is `End`; signals, waits and state tests stutter |
| `SchedulerProofs!TypeCorrect` | `Spec => []TypeOK` | inductive; ids stay in range through the wraparound |
| `SchedulerProofs!EventsAreNeverEarly` | `Spec => []NeverEarly` | with `EventsInPlace` (a phase says whether an event is in the list), `ClosedForGood` (nothing enters an emptied list) and `DueAtDeadline`: in a timed wait some event of the list is due by the deadline, or shutdown emptied the list; the popped top is no later than that event, and the deadline has passed |
| `SchedulerProofs!NeverOversleeps` | `Spec => []NoOversleep` | with `EventsInPlace`: an event earlier than the deadline is a new top, so its caller is in `doSignal` |
| `SchedulerProofs!StopsAreExact` | `Spec => StopIsExact` | `IdsApart`: an event that shares its id with another one is in `shared`; `IdsActive`: the id of any other event is active exactly while it is queued; hence the id that `stopEvent` or the thread takes away is that of no other event than it names, for any number of events and turns of the counter |
| `DatabaseTasksProofs!TypeCorrect`, `QueriesExecuteOnce`, `CallbacksFollow` | `Spec => []TypeOK`, `[]ExecutedOnce`, `[]CallbackAfterQuery` | with `InFlight` (where the thread is says whether its query was executed) and `Unexecuted` (a query of the list was not executed, but for the first one while the flush is about to pop it) |
| `DatabaseTasksProofs!QueriesKeepTheirOrder` | `Spec => OnlyInFlightOvertaken` | with `Accounted`: the list is in the order of acceptance and the query in flight is before all of it; `ExecuteInOrder` then looks at the two steps that execute |
| `GameSessionProofs!TypeCorrect`, `SessionsAreExclusive`, `ReferencesAreCounted`, `NoReleasedAutosend` | `Spec => []TypeOK`, `[]OneSession`, `[]RefsExact`, `[]AutosendIsLive` | inductive together with `QueueInv`, which says what the dispatcher's queue may hold for a protocol (below) |
| `ConnectionProofs!PortIsRetried` | `Spec => []RetryPending` | inductive with `TypeOK`: an acceptor closes only in `AcceptFails`, which is guarded by `pendingStart`, and in `Open`, whose failing branch schedules the next attempt |
| `ConnectionProofs!TypeCorrect`, `WritesAreSingle`, `ConnectionsAreWatched`, `NoProtocolIsOrphaned` | `Spec => []TypeOK`, `[]OneWrite`, `[]Watched`, `[]NoOrphan` | each method of a connection keeps `Sound`, the part of the invariant that is about one object; a handler is a chain of methods; `HasRoom` relates the buffers of the pool to the queues they go to |
| `TradeProofs!TypeCorrect`, `TradesAreMutual`, `OffersStayDisjoint`, `DeedIsFreed`, `TradesExchange` | `Spec => []TypeOK`, `[]Mutual`, `[]OffersDisjoint`, `[]DeedIsOffered`, `[]Exchanged` | inductive together with `AskedOffersNothing`, `OffersNear` (an offer stays with who offers it, or on the ground) and the fact that no bag is inside itself (below) |
| `ServerRuntimeProofs!NoEventsOnceShutDown`, `NothingIsLeftBehind` | `Spec => []NoEventAfterShutdown`, `[]ExitIsClean` | the order of the dispatcher's list and of the shutdown's statements (below) |
| `ServerRuntimeProofs!RunsDispatcher`, `RunsScheduler`, `RunsDatabaseTasks` | `Spec => D!Spec`, `S!Spec`, `B!Spec` | every joint step is, for each component, one of its operations or a stutter; so what is proved of a component for any callers is true in the server |
| `ServerRuntimeProofs!ServerLosesNoWakeup`, `ServerRunsExecutor`, `ServerEventsAreOnTime`, `ServerStopsExactly`, `ServerQueriesExecuteOnce` | `Spec => []D!NoLostWakeup /\ []D!OneOwner`, `D!E!Spec`, `[]S!NeverEarly /\ []S!NoOversleep`, `S!StopIsExact`, `[]B!ExecutedOnce /\ []B!CallbackAfterQuery /\ B!OnlyInFlightOvertaken` | the component theorems, instantiated with the constants and variables of the server and cited under the three refinements |
| `PartyProofs!TypeCorrect`, `PartiesAreMutual`, `PartiesAreInGame`, `PartiesAreNotAlone`, `SharingIsFair` | `NoVetoes`: `Spec => []TypeOK`, `[]Mutual`, `[]InGame`, `[]NeverAlone`, `[]SharedByFighters` | inductive together with `GroupOK` (nobody is listed twice, points belong to people of the party, the flag is true when it is set); below |

None of the four session properties is inductive alone: `OneSession` breaks if a
login runs twice, or a connect for a protocol that has a player;
`AutosendIsLive` breaks if a login runs after its release.  `QueueInv` excludes
these.  A protocol's login is queued once and before its release (`QueueOK`);
until it has run, the protocol has no player, no event and no `Player` object; a
connect waits at most once, as an event or as a task, and only for a protocol
without a player; a release waits only for a closed connection.  The conditions
speak of any queue `q`, because a task runs after it was taken from the queue and
before what it queues itself: `Taken` goes from the queue to its tail,
`QueueFrom` says what a step may add, and `QueueInvKept` does the rest for every
step but `RecvLogin` and `Due`.

`NoEventAfterShutdown` needs to know why no event is behind `Game::shutdown` in
the list.  Events go to the front (`EventsFirst`: every event is before it), tasks
that close the list come behind it (`ClosesBehind`: while it waits in an open list,
the signal's task that queued it is still between `addTask` and
`g_dispatcher.stop()`, so the dispatcher cannot take it), hence when it is taken
the list is closed and no event was in front of it (`EventsOver`), and none can
come.  `ExitIsClean` follows from `Ends`: what each `shutdown` leaves in its own
component (`SchedulerEnds`, `DatabaseEnds`), that the dispatcher's own stop is the
last task ever (`StopIsLast`), and that the dispatcher passes through the
statements in their order and main joins after them (`EndsInOrder`).

In `Trade` the hard step is moving an item into a bag: the containers above it and
above everything in it change together.  `ItemsAbove` is the least set closed
under `holder`, so that no recursion is needed; lemmas (`Transitive`, `Outermost`,
`PutInto`) say how it changes when one item moves, and `StaysAcyclic` that the
move the code allows creates no cycle.  An offer can then only be disturbed by a
move that the notification sees (`MoveIsSeen`), which closes the trade in the
same step.  `TradesExchange` looks at the transfer alone: the second move cannot
take the first item with it, because the offers are disjoint and the first move
refuses a place in the second item (`Apart`); and if the second move fails, the
first did not touch what the item is in, so it is where `OffersNear` says.

In `Party` the invariant is broken and mended inside a handler: a leader who leaves
is still listed when his own pointer is already null, and a party may be empty until
`disband` runs.  So `Sound(w, S, Ps)` has a parameter, the parties `Ps` that the
rest of the handler is going to disband, to which less applies; there is one lemma for
each function of `party.cpp` from a `Sound` world to the next (`Leaves`,
`RemovesInvites`, `LeavesParty`, `ClearsInvitations`, ...), and `Disbands` says that a
disband makes the world `Sound` with `Ps = {}` again.  The lemmas `Erase`, `PushBack`,
`PushFront` and `Length` say what the member list's operations do to a list without
duplicates.  TLC has checked the invariant on the run's instance as well.

`NeverAlone` and `Mutual` are false when a script vetoes a leave or a disband: the
code returns in the middle.  The theorems therefore assume `NoVetoes`
(`Vetoes \subseteq {"join"}`), which is what the repository ships:
`data/events/scripts/party.lua` answers true to every event.  The run has no vetoes
at all: a refused join changes nothing.

`StopIsExact` speaks of the events that are not in `shared`.  For the others it is
false, and TLC shows it: `addEvent` does not look whether the next id is free, so
after 2^32 events a waiting event may meet its own id again, and `stopEvent` with
it, or the timeout of one of the two, decides for both.  The theorem says that
nothing else is harmed: however often the counter wraps, an event whose id nobody
else had at the same time is stopped by its own `stopEvent` only.

The assumptions on constants are the named `ASSUME`s of the modules: constants are disjoint
where the code uses different objects (`RuntimeAssumption`, `TradeAssumption`,
`DispatcherAssumption`, ...), `None` is not a connection, ids are at least two,
bounds are positive; `RuntimeAssumption` also says of the constants of the whole
server what each component assumes of its own.  TLC evaluates them in the runs.
Nothing else is assumed.

Only model-checked: the liveness properties, the fairness half of
`ImplementsExecutor` among them (TLAPS does not prove fairness arguments here).
Every safety property that a passing run checks is proved.

## What the checks found

1. **A timeout without an event** (`scheduler_timeout`).  `threadMain` takes
   `eventList.top()` after a timeout because "there has to be an event"
   (scheduler.cpp:39).  `shutdown` may clear the list after the time has passed
   and before the thread has the lock again.
2. **The server may not exit** (`runtime_exit`).  `shutdown` of the scheduler and
   of the database thread change the state and notify without regard to where
   the thread is: one that has tested the state and not yet taken the lock then
   waits on an empty list for ever, and `main` joins it.  The dispatcher has no
   such gap, because its end is a task in its own list (`DispatcherEnds`).
3. **A player with a dead client** (`session_dead_client`).  `connect` takes
   "the connection is not expired" for "release has not run"
   (protocolgame.cpp:179-183).  A closed connection lives on while a handler is
   pending; if `release` runs before `connect` meanwhile, the player gets a
   client that nobody will ever take away: its reference is leaked, and every
   later login of the character is refused until an idle kick removes it.
4. **Two raids at a time** (`raids_reload`).  A raid that is not repeated leaves
   `raidList` when it starts (raids.cpp:141).  A reload stops and deletes what is
   in the list, forgets which raid is running, and the next check starts another
   one beside it; the end of the first then clears `running` under the second.

Observations without a run of their own: a query flushed at shutdown overtakes
the one in flight (`OnlyInFlightOvertaken` states exactly this exception);
callbacks of queries run at shutdown are dropped; two events due while one task
runs are executed in reverse order, because each goes to the front; a task
queued by the network thread between `addTask(Game::shutdown)` and
`g_dispatcher.stop()` runs after the world was torn down.  A connection that met
the packet limit has neither a read nor a timer and stays open for ever if its
peer does (`limited` in `Watched`).  The write timeout of a connection that is
closed with a message pending does nothing, because `close` returns at once
(`Stalled` in `CloseEnds`).  Two chains of `sendAll` may run side by side; none is
lost.  A message that does not fit replaces the protocol's buffer without sending
what was in it.  A member who leaves a party is not found in its channel and goes
on hearing it, or the next party whose object gets the same address.  A house may
change its owner during a sale, and the transfer overwrites the new one.  A player
who has only acknowledged a trade can accept it without an item.  The first event
of a raid started by `/raid` cannot be stopped by a reload and fires for a deleted
object.  With `AUTO_STACK_ITEMS` a trade may be completed on one side only: a
stackable item that fits only onto a stack passes the test and fails in the move,
whose result is ignored (`Exchanged` says that it is only such an item, and that it
stays where it was).  An event id that comes round to a waiting event harms both
(`shared`).  A leader may invite himself, and is then a party alone until he
revokes it or leaves.  A script that vetoes `disband` leaves a party of one, a script that vetoes `leave`
a member who is gone (the shipped scripts veto neither; put them in `Vetoes` and
TLC shows it).

## What is not modelled

- **Scripting** (`luascript.cpp`, the script managers): a binding layer of some
  fifteen thousand lines in which each function converts arguments and calls one
  method.  Scripts appear as a free choice to answer or to veto.
- **Combat, conditions, spells, weapons, monsters, NPCs, vocations**: formulas over
  data files and randomness; what they do to a player's life (death) is in
  `GameSession`.
- **Movement** of creatures and items beyond what trades see of it: geometry,
  stacking and path finding, sequential on the dispatcher.
- **Loading** of items, maps and configuration, **login and status protocols**,
  **encodings**: parsing of input, or one request and one answer.
- **Waiting list** and **database transactions**: stateful, but separate from the
  rest; their hazards are listed without a property.  **Start-up**, summons, decay
  and spawns likewise.

Because the bulk of the source is of the first four kinds, the mapped lines are a
small share of the whole; they are nearly all of `tasks`, `scheduler`,
`databasetasks`, `connection`, `party`, the trade and shutdown parts of `game`, and
the session part of `protocolgame`.  `PROJECT.json` gives the status of each
component, and says for each part why it is left out.

## Plan

Done, in this order: `Dispatcher`, `Scheduler`, `DatabaseTasks`, `ServerRuntime`
and `GameSession`, each with proofs; `Executor`, which `Dispatcher` implements;
`Connection` with its port and the output pool, `Trade` and `Party`, each with
proofs; the theorems of the three queues carried over to `ServerRuntime`; `Raids`.

Left, in order of importance:

1. `Transactions`: the database handle shared by threads, `BEGIN` before the lock,
   retries under it.
2. `WaitingList`: two lists with timeouts, composed with the logins of
   `GameSession`.
3. `CreatureLife`: check lists, release lists, summons, decay buckets.
4. Start-up of `ServerRuntime` (`g_loaderSignal`, a failed start) and `Spawns`.
5. `DatabaseTasks` as an implementation of an abstract executor whose shutdown may
   run tasks in another thread.
6. Conditions and stacking as bounded pure functions.

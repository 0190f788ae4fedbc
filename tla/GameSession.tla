----------------------------- MODULE GameSession -----------------------------
(***************************************************************************)
(* A character's game sessions: connections, their ProtocolGame objects    *)
(* and the Player objects of one character (src/src/connection.cpp,        *)
(* protocolgame.cpp, and the parts of game.cpp that place and remove a     *)
(* player).  The network thread handles sockets and queues tasks; the      *)
(* dispatcher thread runs login, connect, release and logout.              *)
(*                                                                         *)
(* A Connection lives while it is in the ConnectionManager or an           *)
(* asynchronous operation holds it.  A protocol has a weak pointer to it.  *)
(* A task of the dispatcher is one step; so is a handler of the network    *)
(* thread, which holds connectionLock.                                     *)
(*                                                                         *)
(* A protocol is named by its connection, and so is the Player object that *)
(* its login may create.                                                   *)
(***************************************************************************)
EXTENDS Naturals, Sequences

CONSTANTS Conn, None

ASSUME GameSessionAssumption == None \notin Conn

VARIABLES connState,     \* Connection::connectionState
          reading,       \* a read is pending, or its handler is running
          sending,       \* Connection::messageQueue is not empty
          receivedFirst, \* Connection::receivedFirst
          queue,         \* dispatcher tasks about sessions
          timer,         \* connect events that are not due
          eventConnect,  \* the id that the event of ProtocolGame::eventConnect holds
          player,        \* ProtocolGame::player
          acceptPackets, \* ProtocolGame::acceptPackets
          autosend,      \* OutputMessagePool::bufferedProtocols
          released,      \* history: release() was run
          client,        \* Player::client
          refs,          \* Creature::referenceCounter
          life,          \* the life of a Player object
          inCheck,       \* Creature::inCheckCreaturesVector
          toRelease,     \* times it is in Game::ToReleaseCreatures
          isConnecting   \* Player::isConnecting

net   == <<connState, reading, sending>>
proto == <<eventConnect, player, acceptPackets, autosend, released>>
obj   == <<client, refs, life, inCheck, toRelease, isConnecting>>
vars  == <<net, receivedFirst, queue, timer, proto, obj>>

Task   == [kind : {"login", "connect", "release", "logout"}, conn : Conn]
Lives  == {"none", "loading", "online", "removed", "deleted"}

T(kind, c) == [kind |-> kind, conn |-> c]

Init ==
  /\ connState = [c \in Conn |-> "none"]
  /\ reading = [c \in Conn |-> FALSE]
  /\ sending = [c \in Conn |-> FALSE]
  /\ receivedFirst = [c \in Conn |-> FALSE]
  /\ queue = <<>>
  /\ timer = {}
  /\ eventConnect = [c \in Conn |-> None]
  /\ player = [c \in Conn |-> None]
  /\ acceptPackets = [c \in Conn |-> FALSE]
  /\ autosend = {}
  /\ released = {}
  /\ client = [o \in Conn |-> None]
  /\ refs = [o \in Conn |-> 0]
  /\ life = [o \in Conn |-> "none"]
  /\ inCheck = [o \in Conn |-> FALSE]
  /\ toRelease = [o \in Conn |-> 0]
  /\ isConnecting = [o \in Conn |-> FALSE]

\* Protocol::isConnectionExpired is the negation.
ConnectionAlive(c) == connState[c] = "open" \/ reading[c] \/ sending[c]

\* A bug: release jumps the queue.
CloseAtFront(c, before) ==
  IF connState[c] = "open"
    THEN /\ connState' = [connState EXCEPT ![c] = "closed"]
         /\ queue' = <<T("release", c)>> \o before
    ELSE /\ queue' = before
         /\ UNCHANGED connState

\* Connection::close: the first call queues ProtocolGame::release.  `before`
\* is the queue without the task that calls it.  A forced close also closes
\* the socket, so that what is pending fails; else it may linger.
CloseConnection(c, before) ==
  IF connState[c] = "open"
    THEN /\ connState' = [connState EXCEPT ![c] = "closed"]
         /\ queue' = Append(before, T("release", c))
    ELSE /\ queue' = before
         /\ UNCHANGED connState

\* Protocol::disconnect reaches a connection that still exists.
Disconnect(c, rest) ==
  /\ CloseConnection(c, rest)
  /\ UNCHANGED <<reading, sending>>

\* ProtocolGame::disconnectClient sends a message first.
DisconnectClient(c, rest) ==
  /\ CloseConnection(c, rest)
  /\ sending' = [sending EXCEPT ![c] = @ \/ connState[c] = "open"]
  /\ UNCHANGED reading

-----------------------------------------------------------------------------
(* The network thread                                                      *)

\* ServicePort::onAccept: the game protocol is made at once, for the server
\* sends first; the first read is started.
Accept(c) ==
  /\ connState[c] = "none"
  /\ connState' = [connState EXCEPT ![c] = "open"]
  /\ reading' = [reading EXCEPT ![c] = TRUE]
  /\ UNCHANGED <<sending, receivedFirst, queue, timer, proto, obj>>

CanReceive(c) == connState[c] = "open" /\ reading[c]

\* onRecvFirstMessage lets the login through ...
RecvLogin(c) ==
  /\ CanReceive(c) /\ ~receivedFirst[c]
  /\ receivedFirst' = [receivedFirst EXCEPT ![c] = TRUE]
  /\ queue' = Append(queue, T("login", c))
  /\ UNCHANGED <<net, timer, proto, obj>>

\* ... or refuses it, with a message or silently.
RecvRefused(c) ==
  /\ CanReceive(c) /\ ~receivedFirst[c]
  /\ receivedFirst' = [receivedFirst EXCEPT ![c] = TRUE]
  /\ Disconnect(c, queue) \/ DisconnectClient(c, queue)
  /\ UNCHANGED <<timer, proto, obj>>

\* parsePacket of a logout (0x14); the model lets one wait at a time.
RecvLogout(c) ==
  /\ CanReceive(c) /\ receivedFirst[c] /\ acceptPackets[c]
  /\ \A i \in DOMAIN queue : queue[i] # T("logout", c)
  /\ queue' = Append(queue, T("logout", c))
  /\ UNCHANGED <<net, receivedFirst, timer, proto, obj>>

\* parsePacket of 0x0F from a player that is gone, or dead: his health, which is no
\* part of the model, may be 0 at any time before he is removed.
RecvQuit(c) ==
  /\ CanReceive(c) /\ acceptPackets[c]
  /\ Disconnect(c, queue)
  /\ UNCHANGED <<receivedFirst, timer, proto, obj>>

\* Too many packets: parseHeader returns and starts neither read nor timer.
RateLimited(c) ==
  /\ CanReceive(c)
  /\ reading' = [reading EXCEPT ![c] = FALSE]
  /\ UNCHANGED <<connState, sending, receivedFirst, queue, timer, proto, obj>>

\* A read that fails, a malformed header, or handleTimeout of a pending
\* operation: close(FORCE_CLOSE).  The read handler has not returned yet.
Fail(c) ==
  /\ connState[c] = "open" /\ (reading[c] \/ sending[c])
  /\ CloseConnection(c, queue)
  /\ UNCHANGED <<reading, sending, receivedFirst, timer, proto, obj>>

\* The read handler of a closed connection returns and lets go of it.
ReaderEnds(c) ==
  /\ connState[c] = "closed" /\ reading[c]
  /\ reading' = [reading EXCEPT ![c] = FALSE]
  /\ UNCHANGED <<connState, sending, receivedFirst, queue, timer, proto, obj>>

\* OutputMessagePool::sendAll: what the protocol has buffered.
Send(c) ==
  /\ connState[c] = "open" /\ ~sending[c] /\ c \in autosend
  /\ sending' = [sending EXCEPT ![c] = TRUE]
  /\ UNCHANGED <<connState, reading, receivedFirst, queue, timer, proto, obj>>

\* onWriteOperation: the last message is out; or the write failed.
WriteEnds(c) ==
  /\ sending[c]
  /\ sending' = [sending EXCEPT ![c] = FALSE]
  /\ \/ UNCHANGED <<connState, queue>>
     \/ CloseConnection(c, queue)
  /\ UNCHANGED <<reading, receivedFirst, timer, proto, obj>>

Network(c) ==
  \/ Accept(c) \/ RecvLogin(c) \/ RecvRefused(c) \/ RecvLogout(c) \/ RecvQuit(c)
  \/ RateLimited(c) \/ Fail(c) \/ ReaderEnds(c) \/ Send(c) \/ WriteEnds(c)

-----------------------------------------------------------------------------
(* The dispatcher thread                                                   *)

\* The players that g_game.getPlayerByName finds; ALLOW_CLONES is off.
Online == {o \in Conn : life[o] = "online"}

\* Creature::decrementReferenceCounter
Decrement(o, by) ==
  /\ refs' = [refs EXCEPT ![o] = @ - by]
  /\ life' = [life EXCEPT ![o] = IF refs[o] = by THEN "deleted" ELSE @]

\* Bugs: a removed creature is removed again; it is not released.
RemoveAgain(o) ==
  /\ life' = [life EXCEPT ![o] = "removed"]
  /\ toRelease' = [toRelease EXCEPT ![o] = @ + 1]

RemoveUnreleased(o) ==
  /\ life' = [life EXCEPT ![o] = IF @ = "online" THEN "removed" ELSE @]
  /\ UNCHANGED toRelease

\* Game::removeCreature.  removeCreatureCheck only marks it: the check list
\* keeps it until checkCreatures comes by.
RemoveCreature(o) ==
  IF life[o] = "online"
    THEN /\ life' = [life EXCEPT ![o] = "removed"]
         /\ toRelease' = [toRelease EXCEPT ![o] = @ + 1]
    ELSE UNCHANGED <<life, toRelease>>

\* A bug: the player that has a client again is taken all the same.
ConnectAnyway(c, o, rest) ==
  /\ eventConnect' = [eventConnect EXCEPT ![c] = None]
  /\ \/ /\ o \notin Online
        /\ DisconnectClient(c, rest)
        /\ UNCHANGED <<player, client, refs, isConnecting, acceptPackets>>
     \/ /\ o \in Online
        /\ queue' = rest
        /\ player' = [player EXCEPT ![c] = o]
        /\ client' = [client EXCEPT ![o] = c]
        /\ refs' = [refs EXCEPT ![o] = @ + 1]
        /\ isConnecting' = [isConnecting EXCEPT ![o] = FALSE]
        /\ acceptPackets' = [acceptPackets EXCEPT ![c] = TRUE]
        /\ UNCHANGED net

\* ProtocolGame::connect for the player with id o.
Connect(c, o, rest) ==
  /\ eventConnect' = [eventConnect EXCEPT ![c] = None]
  /\ \/ /\ o \notin Online \/ client[o] # None
        /\ DisconnectClient(c, rest)
        /\ UNCHANGED <<player, client, refs, isConnecting, acceptPackets>>
     \/ /\ o \in Online /\ client[o] = None
        /\ queue' = rest
        /\ UNCHANGED net
        /\ IF ConnectionAlive(c)
             THEN /\ player' = [player EXCEPT ![c] = o]
                  /\ client' = [client EXCEPT ![o] = c]
                  /\ refs' = [refs EXCEPT ![o] = @ + 1]
                  /\ isConnecting' = [isConnecting EXCEPT ![o] = FALSE]
                  /\ acceptPackets' = [acceptPackets EXCEPT ![c] = TRUE]
             ELSE UNCHANGED <<player, client, refs, isConnecting, acceptPackets>>

\* login makes a Player that one of its checks refuses; the protocol keeps it
\* until release ...
LoginRejected(c, rest) ==
  /\ Online = {}
  /\ player' = [player EXCEPT ![c] = c]
  /\ client' = [client EXCEPT ![c] = c]
  /\ refs' = [refs EXCEPT ![c] = 1]
  /\ life' = [life EXCEPT ![c] = "loading"]
  /\ DisconnectClient(c, rest)
  /\ UNCHANGED <<timer, eventConnect, acceptPackets, autosend, released, inCheck,
                 toRelease, isConnecting>>

\* ... or that placeCreature puts on the map and in a check list.
LoginPlaced(c, rest) ==
  /\ Online = {}
  /\ player' = [player EXCEPT ![c] = c]
  /\ client' = [client EXCEPT ![c] = c]
  /\ refs' = [refs EXCEPT ![c] = 3]
  /\ life' = [life EXCEPT ![c] = "online"]
  /\ inCheck' = [inCheck EXCEPT ![c] = TRUE]
  /\ acceptPackets' = [acceptPackets EXCEPT ![c] = TRUE]
  /\ autosend' = autosend \cup {c}
  /\ queue' = rest
  /\ UNCHANGED <<net, timer, eventConnect, released, toRelease, isConnecting>>

\* The character is online and REPLACE_KICK_ON_LOGIN is off.
LoginTwice(c, rest) ==
  /\ Online # {}
  /\ DisconnectClient(c, rest)
  /\ UNCHANGED <<timer, proto, obj>>

\* A bug: nothing is scheduled.
LoginUnscheduled(c, rest) ==
  \E o \in Online :
    /\ eventConnect[c] = None /\ client[o] # None
    /\ Disconnect(client[o], rest)
    /\ isConnecting' = [isConnecting EXCEPT ![o] = TRUE]
    /\ eventConnect' = [eventConnect EXCEPT ![c] = o]
    /\ autosend' = autosend \cup {c}
    /\ UNCHANGED <<timer, player, acceptPackets, released, client, refs, life, inCheck, toRelease>>

\* Its client is disconnected; connect comes 1000 ms later.
LoginReplaces(c, rest) ==
  \E o \in Online :
    /\ eventConnect[c] = None /\ client[o] # None
    /\ Disconnect(client[o], rest)
    /\ isConnecting' = [isConnecting EXCEPT ![o] = TRUE]
    /\ eventConnect' = [eventConnect EXCEPT ![c] = o]
    /\ timer' = timer \cup {c}
    /\ autosend' = autosend \cup {c}
    /\ UNCHANGED <<player, acceptPackets, released, client, refs, life, inCheck, toRelease>>

\* It has no client: connect at once.
LoginConnects(c, rest) ==
  \E o \in Online :
    /\ eventConnect[c] = None /\ client[o] = None
    /\ Connect(c, o, rest)
    /\ autosend' = autosend \cup {c}
    /\ UNCHANGED <<timer, released, life, inCheck, toRelease>>

Login(c, rest) ==
  \/ LoginRejected(c, rest) \/ LoginPlaced(c, rest) \/ LoginTwice(c, rest)
  \/ LoginReplaces(c, rest) \/ LoginConnects(c, rest)

\* The event of eventConnect runs.
ConnectTask(c, rest) ==
  /\ Connect(c, eventConnect[c], rest)
  /\ UNCHANGED <<timer, autosend, released, life, inCheck, toRelease>>

\* ProtocolGame::release: the player it clears is its own only when that
\* player's client is this protocol.
OwnsPlayer(c) == player[c] # None /\ client[player[c]] = c

Release(c, rest) ==
  /\ IF OwnsPlayer(c)
       THEN /\ client' = [client EXCEPT ![player[c]] = None]
            /\ Decrement(player[c], 1)
            /\ player' = [player EXCEPT ![c] = None]
       ELSE UNCHANGED <<client, refs, life, player>>
  /\ autosend' = autosend \ {c}
  /\ released' = released \cup {c}
  /\ queue' = rest
  /\ UNCHANGED <<net, timer, eventConnect, acceptPackets, inCheck, toRelease, isConnecting>>

\* ProtocolGame::logout, forced.
ForcedLogout(c, rest) ==
  /\ Disconnect(c, rest)
  /\ RemoveCreature(player[c])
  /\ UNCHANGED <<timer, proto, client, refs, inCheck, isConnecting>>

\* ProtocolGame::logout, asked for: the tile, a fight or a script may refuse it.
Logout(c, rest) ==
  \/ /\ IF player[c] = None THEN TRUE ELSE life[player[c]] = "online"
     /\ queue' = rest
     /\ UNCHANGED <<net, timer, proto, obj>>
  \/ /\ player[c] # None
     /\ ForcedLogout(c, rest)

\* The head of the dispatcher's queue.
RunTask ==
  /\ queue # <<>>
  /\ LET task == Head(queue)
         rest == Tail(queue)
     IN  \/ task.kind = "login" /\ Login(task.conn, rest)
         \/ task.kind = "connect" /\ ConnectTask(task.conn, rest)
         \/ task.kind = "release" /\ Release(task.conn, rest)
         \/ task.kind = "logout" /\ Logout(task.conn, rest)
  /\ UNCHANGED receivedFirst

\* The scheduler hands an event that is due to the front of the queue.
Due(c) ==
  /\ c \in timer
  /\ timer' = timer \ {c}
  /\ queue' = <<T("connect", c)>> \o queue
  /\ UNCHANGED <<net, receivedFirst, proto, obj>>

\* Player::sendPing after 60 s without an answer, and Player::kickPlayer: both
\* run in a dispatcher task that is not about sessions.
Leave(o) ==
  IF client[o] # None
    THEN ForcedLogout(client[o], queue)
    ELSE /\ RemoveCreature(o)
         /\ UNCHANGED <<net, queue, timer, proto, client, refs, inCheck, isConnecting>>

PingOut(o) ==
  /\ o \in Online /\ ~isConnecting[o]
  /\ Leave(o)
  /\ UNCHANGED receivedFirst

Kick(o) ==
  /\ o \in Online
  /\ Leave(o)
  /\ UNCHANGED receivedFirst

\* Creature::onDeath with a corpse: the client stays.
Death(o) ==
  /\ o \in Online
  /\ RemoveCreature(o)
  /\ UNCHANGED <<net, receivedFirst, queue, timer, proto, client, refs, inCheck, isConnecting>>

\* A bug: the check list drops a creature without ReleaseCreature.
PurgedUncounted(S, o) == toRelease[o]

\* Game::checkCreatures of one list, which holds S of the removed creatures,
\* then Game::cleanup of all that wait to be released.
Purged(S, o) == toRelease[o] + (IF o \in S THEN 1 ELSE 0)

CheckCreatures(S) ==
  /\ inCheck' = [o \in Conn |-> inCheck[o] /\ o \notin S]
  /\ refs' = [o \in Conn |-> refs[o] - Purged(S, o)]
  /\ life' = [o \in Conn |-> IF refs[o] # 0 /\ refs[o] = Purged(S, o) THEN "deleted"
                                                                    ELSE life[o]]
  /\ toRelease' = [o \in Conn |-> 0]
  /\ UNCHANGED <<net, receivedFirst, queue, timer, proto, client, isConnecting>>

\* Removed creatures that a check list still holds.
Stale == {o \in Conn : inCheck[o] /\ life[o] = "removed"}

Game ==
  \/ \E c \in Conn : Due(c)
  \/ \E o \in Conn : PingOut(o) \/ Kick(o) \/ Death(o)
  \/ \E S \in SUBSET Stale : CheckCreatures(S)

Next == (\E c \in Conn : Network(c)) \/ RunTask \/ Game

Spec == Init /\ [][Next]_vars

\* The dispatcher runs what it is given, an event falls due, and every check
\* list has its turn.
FairSpec ==
  /\ Spec
  /\ WF_vars(RunTask)
  /\ \A c \in Conn : WF_vars(Due(c))
  /\ \A o \in Conn : WF_vars(\E S \in SUBSET Stale : o \in S /\ CheckCreatures(S))
  /\ WF_vars(CheckCreatures({}))

-----------------------------------------------------------------------------
(* Properties                                                              *)

\* Every variable has its type.
TypeOK ==
  /\ connState \in [Conn -> {"none", "open", "closed"}]
  /\ reading \in [Conn -> BOOLEAN]
  /\ sending \in [Conn -> BOOLEAN]
  /\ receivedFirst \in [Conn -> BOOLEAN]
  /\ queue \in Seq(Task)
  /\ timer \in SUBSET Conn
  /\ eventConnect \in [Conn -> Conn \cup {None}]
  /\ player \in [Conn -> Conn \cup {None}]
  /\ acceptPackets \in [Conn -> BOOLEAN]
  /\ autosend \in SUBSET Conn
  /\ released \in SUBSET Conn
  /\ client \in [Conn -> Conn \cup {None}]
  /\ refs \in [Conn -> Nat]
  /\ life \in [Conn -> Lives]
  /\ inCheck \in [Conn -> BOOLEAN]
  /\ toRelease \in [Conn -> Nat]
  /\ isConnecting \in [Conn -> BOOLEAN]

\* The reference counter of a Player counts exactly its protocol (OneSession:
\* there is no other), the world, its check list and its entries in
\* ToReleaseCreatures: so no protocol's `player` (a raw pointer) dangles, and no
\* removed player is freed while checkCreatures still has to visit it.
One(b) == IF b THEN 1 ELSE 0

RefsExact ==
  \A o \in Conn :
    /\ refs[o] = One(client[o] # None) + One(life[o] = "online") + One(inCheck[o])
                   + toRelease[o]
    /\ life[o] \in {"none", "deleted"} <=> refs[o] = 0

\* A protocol points at a Player exactly when that Player's client is the
\* protocol: release and connect hand a character over without two sessions
\* ever commanding it.
OneSession == \A c, o \in Conn : player[c] = o <=> client[o] = c

\* sendAll never finds a protocol whose release has run: no login adds to
\* bufferedProtocols after removeProtocolFromAutosend.
AutosendIsLive == autosend \cap released = {}

\* A login that the dispatcher was given ends in a session in the game or in a
\* closed connection, also when another session has to go first.
Waiting(c) == \E i \in DOMAIN queue : queue[i] = T("login", c)

Playing(c) == player[c] # None

LoginAnswered ==
  \A c \in Conn : Waiting(c) ~> Playing(c) \/ connState[c] = "closed"

\* A Player that left the game is freed once its connection is closed, unless
\* connect attached it to a protocol that was released already.
Leaked(o) == \E c \in released : player[c] = o

Gone(o) ==
  /\ life[o] \in {"loading", "removed"}
  /\ \A c \in Conn : player[c] = o => connState[c] = "closed"

PlayerFreed ==
  \A o \in Conn : Gone(o) ~> life[o] = "deleted" \/ Leaked(o)

\* protocolgame.cpp says of connect's last test: "ProtocolGame::release() has
\* been called at this point and the Connection object no longer exists, so we
\* return to prevent leakage of the Player".  After release has run, connect
\* never makes a protocol the client of a Player.
NoDeadClient == \A o \in Conn : client[o] \notin released
=============================================================================

----------------------------- MODULE Connection -----------------------------
(***************************************************************************)
(* The life of a TCP connection (src/src/connection.cpp), the port that    *)
(* accepts it (server.cpp, ServicePort) and the pool that sends what the   *)
(* protocols have buffered (outputmessage.cpp).                            *)
(*                                                                         *)
(* Handlers of the network thread and calls of the dispatcher thread hold  *)
(* connectionLock, so each is one step.  A timer and its handler are two:  *)
(* cancel() does not reach a handleTimeout that waits to run.  A write and *)
(* its handler are two as well.                                            *)
(*                                                                         *)
(* A connection exists while ConnectionManager, an operation of its socket *)
(* or a handler of one holds it.  A member of Conn is used again when the  *)
(* connection and its protocol are gone.                                   *)
(***************************************************************************)
EXTENDS Naturals, FiniteSets

CONSTANTS Conn,      \* connections that exist at a time
          None,
          MaxQueue,  \* bound on Connection::messageQueue
          MaxChains  \* bound on the sendAll events that are scheduled

ASSUME ConnectionAssumption ==
  /\ None \notin Conn
  /\ MaxQueue \in Nat \ {0}
  /\ MaxChains \in Nat \ {0}

VARIABLES conn,         \* the connections
          peer,         \* what the other side of each does
          acceptor,     \* ServicePort::acceptor is open
          accepting,    \* the connection that async_accept holds
          pendingStart, \* ServicePort::pendingStart
          retry,        \* the openAcceptor event: "none", "scheduled" or "due"
          buffered,     \* OutputMessagePool::bufferedProtocols
          outputBuffer, \* protocols with a Protocol::outputBuffer
          chains        \* sendAll events in the scheduler

port == <<acceptor, accepting, pendingStart, retry>>
pool == <<buffered, outputBuffer, chains>>
vars == <<conn, peer, port, pool>>

Timer == {"read", "write"}

ConnectionObject ==
  [managed : BOOLEAN,                  \* in ConnectionManager::connections
   state : {"none", "open", "closed"}, \* connectionState; "none": destroyed
   socket : BOOLEAN,                   \* socket.is_open()
   read : {"none", "header", "body"},  \* the pending async_read
   write : {"none", "pending", "done"},\* the async_write; "done": not handled
   armed : SUBSET Timer,               \* timers that run
   due : SUBSET Timer,                 \* timers whose handleTimeout will run
   messages : 0..MaxQueue,             \* length of messageQueue
   receivedFirst : BOOLEAN,
   protocol : BOOLEAN,                 \* there is a protocol
   release : {"none", "queued", "run"},\* its release() in the dispatcher
   limited : BOOLEAN]                  \* history: the packet limit was met

\* Connection::Connection, from ConnectionManager::createConnection.
Created ==
  [managed |-> TRUE, state |-> "open", socket |-> FALSE, read |-> "none",
   write |-> "none", armed |-> {}, due |-> {}, messages |-> 0,
   receivedFirst |-> FALSE, protocol |-> FALSE, release |-> "none", limited |-> FALSE]

NoConnection == [Created EXCEPT !.managed = FALSE, !.state = "none"]

\* ServicePort::open succeeded, or its retry is scheduled.
Init ==
  /\ \/ /\ acceptor = TRUE /\ pendingStart = FALSE /\ retry = "none"
        /\ accepting \in Conn
        /\ conn = [c \in Conn |-> IF c = accepting THEN Created ELSE NoConnection]
     \/ /\ acceptor = FALSE /\ pendingStart = TRUE /\ retry = "scheduled"
        /\ accepting = None
        /\ conn = [c \in Conn |-> NoConnection]
  /\ peer = [c \in Conn |-> "alive"]
  /\ buffered = {} /\ outputBuffer = {} /\ chains = 0

-----------------------------------------------------------------------------
(* The methods of a Connection, on the object r                            *)

Arm(r, t) == [r EXCEPT !.armed = @ \cup {t}]

Cancel(r, t) == [r EXCEPT !.armed = @ \ {t}]

\* Connection::closeSocket: what is pending on the socket fails.
CloseSocket(r) == IF r.socket THEN [r EXCEPT !.socket = FALSE, !.armed = {}] ELSE r

\* A bug: close does not queue the release of the protocol.
CloseSilently(r, force) ==
  LET gone   == [r EXCEPT !.managed = FALSE]
      closed == [gone EXCEPT !.state = "closed"]
  IN  IF r.state # "open" THEN gone
      ELSE IF r.messages = 0 \/ force THEN CloseSocket(closed) ELSE closed

\* Connection::close: with messages to send the socket stays open, unless it is
\* forced.  A connection that is closed already is only released.
Close(r, force) ==
  LET gone   == [r EXCEPT !.managed = FALSE]
      closed == [gone EXCEPT !.state = "closed",
                             !.release = IF r.protocol THEN "queued" ELSE @]
  IN  IF r.state # "open" THEN gone
      ELSE IF r.messages = 0 \/ force THEN CloseSocket(closed) ELSE closed

\* Connection::internalSend
InternalSend(r) == Arm([r EXCEPT !.write = "pending"], "write")

\* A bug: send looks at the queue after it has appended to it.
SendAppended(r) ==
  IF r.state # "open" THEN r ELSE [r EXCEPT !.messages = @ + 1]

\* Connection::send
Send(r) ==
  IF r.state # "open" THEN r
  ELSE LET queued == [r EXCEPT !.messages = @ + 1]
       IN  IF r.messages = 0 THEN InternalSend(queued) ELSE queued

\* A bug: the next read has no timer.
ReadUntimed(r, what) == [r EXCEPT !.read = what]

\* The end of accept, parseHeader and parsePacket: wait for what comes next.
Read(r, what) == Arm([r EXCEPT !.read = what], "read")

\* The start of parseHeader and parsePacket.
ReadEnds(r) == Cancel([r EXCEPT !.read = "none"], "read")

Exists(c) == conn[c].state # "none"

Room(c) == conn[c].messages + (IF c \in outputBuffer THEN 1 ELSE 0) < MaxQueue

-----------------------------------------------------------------------------
(* ServicePort                                                             *)

\* Members of Conn for a new connection; the pool does not know them.
Fresh ==
  {c \in Conn : /\ ~Exists(c) /\ conn[c].due = {}
                /\ conn[c].release # "queued" /\ c \notin buffered}

\* ServicePort::accept after `this` became r: createConnection and async_accept.
\* When all of Conn are in use, AcceptMore comes later.
AcceptNext(c, r) ==
  LET before == IF c = None THEN conn ELSE [conn EXCEPT ![c] = r]
  IN  \/ /\ Fresh = {}
         /\ accepting' = None /\ conn' = before
         /\ UNCHANGED peer
      \/ \E d \in Fresh :
           /\ accepting' = d /\ conn' = [before EXCEPT ![d] = Created]
           /\ peer' = [peer EXCEPT ![d] = "alive"]

\* ServicePort::onAccept: the game's protocol is made now, those of other ports
\* by the first packet; a connection that the flood filter refuses is closed.
OnAccept ==
  /\ accepting # None
  /\ \E made \in BOOLEAN :
       LET r == [conn[accepting] EXCEPT !.socket = TRUE, !.protocol = made]
       IN  \/ AcceptNext(accepting, Read(r, "header"))
           \/ ~made /\ AcceptNext(accepting, Close(r, TRUE))
  /\ UNCHANGED <<acceptor, pendingStart, retry, pool>>

\* onAccept with an error: try again in 15 s.  ConnectionManager keeps the object
\* that was to be accepted, but nothing uses it any more.
AcceptFails ==
  /\ accepting # None /\ ~pendingStart
  /\ acceptor' = FALSE /\ accepting' = None
  /\ pendingStart' = TRUE /\ retry' = "scheduled"
  /\ conn' = [conn EXCEPT ![accepting] = NoConnection]
  /\ UNCHANGED <<peer, pool>>

\* The 15 s are over: the scheduler hands openAcceptor to the dispatcher.
RetryDue ==
  /\ retry = "scheduled"
  /\ retry' = "due"
  /\ UNCHANGED <<conn, peer, acceptor, accepting, pendingStart, pool>>

Opened ==
  /\ acceptor' = TRUE /\ pendingStart' = FALSE /\ retry' = "none"
  /\ AcceptNext(None, NoConnection)

\* A bug: a failed open is not tried again.
OpenOnce ==
  /\ retry = "due"
  /\ \/ Opened
     \/ /\ acceptor' = FALSE /\ pendingStart' = TRUE /\ retry' = "none"
        /\ UNCHANGED <<accepting, conn, peer>>
  /\ UNCHANGED pool

\* ServicePort::open from its event: the port listens, or it cannot be opened and
\* another event is made, for as many times as it takes.
Open ==
  /\ retry = "due"
  /\ \/ Opened
     \/ /\ acceptor' = FALSE /\ pendingStart' = TRUE /\ retry' = "scheduled"
        /\ UNCHANGED <<accepting, conn, peer>>
  /\ UNCHANGED pool

\* The bound on Conn is no limit any more.
AcceptMore ==
  /\ acceptor /\ accepting = None /\ Fresh # {}
  /\ AcceptNext(None, NoConnection)
  /\ UNCHANGED <<acceptor, pendingStart, retry, pool>>

-----------------------------------------------------------------------------
(* The network thread: handlers of a connection                            *)

Becomes(c, r) ==
  /\ conn' = [conn EXCEPT ![c] = r]
  /\ UNCHANGED <<peer, port, pool>>

IsOpen(c) == conn[c].state = "open"

CanRead(c, what) == conn[c].read = what /\ conn[c].socket /\ peer[c] = "alive"

\* An error of a read, or bytes that parseHeader or parsePacket refuses: they
\* close the connection; of a closed one they only stop reading.
ReadFails(c) ==
  /\ conn[c].read # "none"
  /\ ~conn[c].socket \/ peer[c] # "silent"
  /\ Becomes(c, Close(ReadEnds(conn[c]), TRUE))

\* Connection::parseHeader
ParseHeader(c) ==
  /\ CanRead(c, "header") /\ IsOpen(c)
  /\ Becomes(c, Read(ReadEnds(conn[c]), "body"))

\* It returns at once when there were too many packets.
MeetLimit(c) ==
  /\ CanRead(c, "header") /\ IsOpen(c)
  /\ Becomes(c, [ReadEnds(conn[c]) EXCEPT !.limited = TRUE])

\* What the protocol does with a packet: it may disconnect the client, with a
\* message or without one.
Handled(r) == {r, Close(r, FALSE), Close(Send(r), FALSE)}

\* Connection::parsePacket starts the next read also when the protocol has
\* closed the connection.
ParsePacket(c) ==
  /\ CanRead(c, "body") /\ IsOpen(c) /\ Room(c)
  /\ \E r \in Handled([ReadEnds(conn[c]) EXCEPT !.receivedFirst = TRUE, !.protocol = TRUE]) :
       Becomes(c, Read(r, "header"))

\* The other side takes the message that is being written ...
WriteDone(c) ==
  /\ conn[c].write = "pending" /\ conn[c].socket /\ peer[c] = "alive"
  /\ Becomes(c, [conn[c] EXCEPT !.write = "done"])

\* A bug: the last message of a closed connection leaves its socket open.
DrainOnly(r) ==
  LET sent == [Cancel(r, "write") EXCEPT !.write = "none", !.messages = @ - 1]
  IN  IF sent.messages > 0 THEN InternalSend(sent) ELSE sent

\* ... and onWriteOperation goes on to the next one,
Drain(r) ==
  LET sent == [Cancel(r, "write") EXCEPT !.write = "none", !.messages = @ - 1]
  IN  IF sent.messages > 0 THEN InternalSend(sent)
      ELSE IF sent.state = "closed" THEN CloseSocket(sent) ELSE sent

OnWrite(c) ==
  /\ conn[c].write = "done"
  /\ Becomes(c, Drain(conn[c]))

\* or drops them all.
WriteFails(c) ==
  /\ conn[c].write = "pending"
  /\ ~conn[c].socket \/ peer[c] = "gone"
  /\ Becomes(c, Close([Cancel(conn[c], "write") EXCEPT !.write = "none", !.messages = 0], TRUE))

\* 30 seconds have passed: cancel() comes too late from now on.
Expire(c, t) ==
  /\ t \in conn[c].armed
  /\ Becomes(c, [Cancel(conn[c], t) EXCEPT !.due = @ \cup {t}])

\* A bug: handleTimeout takes every wait for a cancelled one.
TimeOutIgnored(r) == r

TimeOut(r) == IF r.state = "none" THEN r ELSE Close(r, TRUE)

\* Connection::handleTimeout, if the connection still exists.
HandleTimeout(c, t) ==
  /\ t \in conn[c].due
  /\ Becomes(c, TimeOut([conn[c] EXCEPT !.due = @ \ {t}]))

\* Nothing refers to the connection any more: the destructor closes the socket.
Destroy(c) ==
  /\ Exists(c) /\ ~conn[c].managed /\ c # accepting
  /\ conn[c].read = "none" /\ conn[c].write = "none"
  /\ Becomes(c, [conn[c] EXCEPT !.state = "none", !.socket = FALSE, !.armed = {}])

\* The other side falls silent, or its connection breaks.
PeerStops(c) ==
  /\ conn[c].socket
  /\ \/ peer[c] = "alive" /\ peer' = [peer EXCEPT ![c] = "silent"]
     \/ peer[c] # "gone" /\ peer' = [peer EXCEPT ![c] = "gone"]
  /\ UNCHANGED <<conn, port, pool>>

Network(c) ==
  \/ ReadFails(c) \/ ParseHeader(c) \/ MeetLimit(c) \/ ParsePacket(c)
  \/ WriteDone(c) \/ OnWrite(c) \/ WriteFails(c) \/ Destroy(c) \/ PeerStops(c)
  \/ \E t \in Timer : Expire(c, t) \/ HandleTimeout(c, t)

-----------------------------------------------------------------------------
(* The dispatcher thread                                                   *)

\* ProtocolGame::login, whose task was queued before release can be: it adds the
\* protocol to the pool, and starts a chain of sendAll events for the first one.
Login(c) ==
  /\ conn[c].receivedFirst /\ conn[c].release # "run" /\ c \notin buffered
  /\ buffered = {} => chains < MaxChains
  /\ buffered' = buffered \cup {c}
  /\ chains' = IF buffered = {} THEN chains + 1 ELSE chains
  /\ UNCHANGED <<conn, peer, port, outputBuffer>>

\* ProtocolGame::writeToOutputBuffer
Write(c) ==
  /\ c \in buffered /\ c \notin outputBuffer /\ Room(c)
  /\ outputBuffer' = outputBuffer \cup {c}
  /\ UNCHANGED <<conn, peer, port, buffered, chains>>

\* A bug: sendAll schedules the next one only when it had something to send.
SendAllBriefly ==
  /\ chains > 0
  /\ conn' = [c \in Conn |-> IF c \in buffered \cap outputBuffer THEN Send(conn[c]) ELSE conn[c]]
  /\ outputBuffer' = outputBuffer \ buffered
  /\ chains' = IF buffered \cap outputBuffer = {} THEN chains - 1 ELSE chains
  /\ UNCHANGED <<peer, port, buffered>>

\* A bug: sendAll schedules itself before it sends, and again afterwards.
SendAllTwice ==
  /\ chains > 0
  /\ conn' = [c \in Conn |-> IF c \in buffered \cap outputBuffer THEN Send(conn[c]) ELSE conn[c]]
  /\ outputBuffer' = outputBuffer \ buffered
  /\ chains' = IF buffered = {} THEN chains ELSE chains + 1
  /\ UNCHANGED <<peer, port, buffered>>

\* OutputMessagePool::sendAll
SendAll ==
  /\ chains > 0
  /\ conn' = [c \in Conn |-> IF c \in buffered \cap outputBuffer THEN Send(conn[c]) ELSE conn[c]]
  /\ outputBuffer' = outputBuffer \ buffered
  /\ chains' = IF buffered = {} THEN chains - 1 ELSE chains
  /\ UNCHANGED <<peer, port, buffered>>

\* Protocol::send and Protocol::disconnect from a task: separate calls.
SendNow(c) ==
  /\ Exists(c) /\ conn[c].receivedFirst /\ Room(c)
  /\ Becomes(c, Send(conn[c]))

Disconnect(c) ==
  /\ Exists(c) /\ conn[c].receivedFirst
  /\ Becomes(c, Close(conn[c], FALSE))

\* ProtocolGame::release; what the protocol had not sent goes with it.
Release(c) ==
  /\ conn[c].release = "queued"
  /\ conn' = [conn EXCEPT ![c].release = "run"]
  /\ buffered' = buffered \ {c} /\ outputBuffer' = outputBuffer \ {c}
  /\ UNCHANGED <<peer, port, chains>>

Dispatcher(c) == Login(c) \/ Write(c) \/ SendNow(c) \/ Disconnect(c) \/ Release(c)

Next ==
  \/ OnAccept \/ AcceptFails \/ RetryDue \/ Open \/ AcceptMore \/ SendAll
  \/ \E c \in Conn : Network(c) \/ Dispatcher(c)

Spec == Init /\ [][Next]_vars

\* Handlers and events run; operations on a closed socket or with a broken peer
\* fail; a peer that is alive takes what is written; and the timer of a silent
\* peer, which nothing arms anew, expires.
FairSpec ==
  /\ Spec
  /\ WF_vars(SendAll)
  /\ \A c \in Conn :
       /\ WF_vars((~conn[c].socket \/ peer[c] = "gone") /\ ReadFails(c))
       /\ WF_vars(WriteFails(c)) /\ WF_vars(WriteDone(c)) /\ WF_vars(OnWrite(c))
       /\ WF_vars(Destroy(c)) /\ WF_vars(Release(c))
       /\ \A t \in Timer : /\ WF_vars(HandleTimeout(c, t))
                           /\ WF_vars(peer[c] # "alive" /\ Expire(c, t))

-----------------------------------------------------------------------------
(* Properties                                                              *)

\* Every variable has its type.
TypeOK ==
  /\ conn \in [Conn -> ConnectionObject]
  /\ peer \in [Conn -> {"alive", "silent", "gone"}]
  /\ acceptor \in BOOLEAN /\ accepting \in Conn \cup {None}
  /\ pendingStart \in BOOLEAN /\ retry \in {"none", "scheduled", "due"}
  /\ buffered \in SUBSET Conn /\ outputBuffer \in SUBSET Conn /\ chains \in 0..MaxChains

\* An open connection always waits for bytes with a timer behind it, so that
\* parseHeader, parsePacket and a handleTimeout that comes late never leave it
\* unwatched; only parseHeader at the packet limit does.
Watched ==
  \A c \in Conn :
    IsOpen(c) /\ conn[c].socket /\ ~conn[c].limited
      => conn[c].read # "none" /\ "read" \in conn[c].armed \cup conn[c].due

\* messageQueue is not empty exactly while one write is under way, through
\* send, onWriteOperation, close and closeSocket: no message waits for a write
\* that nobody started, and no two writes of a socket overlap.
OneWrite == \A c \in Conn : conn[c].messages > 0 <=> conn[c].write # "none"

\* Whatever ends a connection, the game learns of it: a protocol in the pool has
\* a connection, or its release is queued.
NoOrphan == \A c \in buffered : Exists(c) \/ conn[c].release = "queued"

\* close() "will be closed by the destructor or onWriteOperation": the socket of
\* a closed connection is closed in the end, unless the peer stalls for ever a
\* write that was left to linger (the write timeout does not help then).
Stalled(c) == conn[c].state = "closed" /\ conn[c].write = "pending" /\ peer[c] = "silent"

CloseEnds ==
  \A c \in Conn :
    (conn[c].state = "closed" /\ conn[c].socket) ~> (~conn[c].socket \/ Stalled(c))

\* handleTimeout closes the connection of a peer that has fallen silent, unless
\* the packet limit left it without a read.
SilentIsClosed ==
  \A c \in Conn :
    peer[c] = "silent" ~> (peer[c] # "silent" \/ ~IsOpen(c) \/ conn[c].limited)

\* What a protocol has buffered is sent or goes with it: while there is a member
\* of bufferedProtocols, sendAll is scheduled.
OutputIsSent == \A c \in Conn : c \in outputBuffer ~> c \notin outputBuffer

\* A port that failed to accept, or to open, is always about to be opened again:
\* it is closed exactly while its event is under way, also after any number of
\* attempts that fail, and a port that listens has no event that would close it.
RetryPending ==
  /\ acceptor <=> retry = "none"
  /\ pendingStart <=> retry # "none"
=============================================================================

--------------------------- MODULE ConnectionProofs ---------------------------
(***************************************************************************)
(* Proofs about Connection, for any number of connections, any length of   *)
(* their queues and any bound on the chains of sendAll events.             *)
(***************************************************************************)
EXTENDS Connection, TLAPS

\* The conjuncts of the inductive invariant that speak of one connection.
WritesOnce(r) == r.messages > 0 <=> r.write # "none"

Attended(r) ==
  r.state = "open" /\ r.socket /\ ~r.limited
    => r.read # "none" /\ "read" \in r.armed \cup r.due

\* What ConnectionManager has forgotten is not open; the first packet makes the
\* protocol; the end of a connection with a protocol has queued its release.
Released(r) ==
  /\ ~r.managed => r.state # "open"
  /\ r.receivedFirst => r.protocol
  /\ r.protocol /\ r.state # "open" => r.release # "none"

Sound(r) == r \in ConnectionObject /\ WritesOnce(r) /\ Attended(r) /\ Released(r)

\* What a method leaves alone: s came from r, and the release of r did not run.
Continues(r, s) ==
  /\ s.receivedFirst = r.receivedFirst
  /\ s.release = "run" => r.release = "run"

-----------------------------------------------------------------------------
(* The methods                                                             *)

LEMMA CreatedSound == Sound(Created) /\ Sound(NoConnection)
<1>1. 0 \in 0..MaxQueue /\ {} \in SUBSET Timer
  BY ConnectionAssumption
<1>2. Created \in ConnectionObject
  BY <1>1 DEF ConnectionObject, Created
<1>3. WritesOnce(Created) /\ Attended(Created) /\ Released(Created)
  BY DEF Created, WritesOnce, Attended, Released
<1>4. NoConnection \in ConnectionObject
  BY <1>2 DEF ConnectionObject, NoConnection
<1>5. WritesOnce(NoConnection) /\ Attended(NoConnection) /\ Released(NoConnection)
  BY DEF Created, NoConnection, WritesOnce, Attended, Released
<1> QED BY <1>2, <1>3, <1>4, <1>5 DEF Sound

LEMMA CloseSound ==
  ASSUME NEW r \in ConnectionObject, WritesOnce(r), Released(r), NEW force \in BOOLEAN
  PROVE  /\ Sound(Close(r, force)) /\ Close(r, force).state # "open"
         /\ Continues(r, Close(r, force)) /\ Close(r, force).messages = r.messages
<1> DEFINE gone   == [r EXCEPT !.managed = FALSE]
           closed == [gone EXCEPT !.state = "closed",
                                  !.release = IF r.protocol THEN "queued" ELSE @]
<1>1. CASE r.state # "open"
  <2>1. Close(r, force) = gone
    BY <1>1 DEF Close
  <2> QED BY <1>1, <2>1
      DEF Sound, ConnectionObject, WritesOnce, Attended, Released, Continues
<1>2. CASE r.state = "open"
  <2>1. /\ closed \in ConnectionObject /\ WritesOnce(closed) /\ Released(closed)
        /\ closed.state = "closed" /\ closed.messages = r.messages /\ Continues(r, closed)
    BY <1>2 DEF ConnectionObject, WritesOnce, Released, Continues
  <2>2. Close(r, force) \in {closed, CloseSocket(closed)}
    BY <1>2 DEF Close
  <2> HIDE DEF closed
  <2>3. CloseSocket(closed) \in {closed, [closed EXCEPT !.socket = FALSE, !.armed = {}]}
    BY DEF CloseSocket
  <2>4. Sound(closed)
    BY <2>1 DEF Sound, Attended
  <2>5. LET s == [closed EXCEPT !.socket = FALSE, !.armed = {}]
        IN  Sound(s) /\ s.state = "closed" /\ s.messages = r.messages /\ Continues(r, s)
    BY <2>1 DEF Sound, ConnectionObject, WritesOnce, Attended, Released, Continues
  <2> QED BY <2>1, <2>2, <2>3, <2>4, <2>5
<1> QED BY <1>1, <1>2

LEMMA SendKeeps ==
  ASSUME NEW r \in ConnectionObject, WritesOnce(r), Released(r), r.messages < MaxQueue
  PROVE  /\ Send(r) \in ConnectionObject /\ WritesOnce(Send(r)) /\ Released(Send(r))
         /\ Attended(r) => Attended(Send(r))
         /\ Continues(r, Send(r)) /\ Send(r).messages \in {r.messages, r.messages + 1}
<1> DEFINE queued == [r EXCEPT !.messages = @ + 1]
           begun  == [queued EXCEPT !.write = "pending"]
           armed  == [begun EXCEPT !.armed = @ \cup {"write"}]
<1>0. r.messages \in Nat /\ r.messages + 1 \in 0..MaxQueue
  BY ConnectionAssumption DEF ConnectionObject
<1>1. CASE r.state # "open"
  BY <1>1 DEF Send, Continues
<1>2. CASE r.state = "open" /\ r.messages = 0
  <2>1. Send(r) = armed
    BY <1>2 DEF Send, InternalSend, Arm
  <2>2. begun \in ConnectionObject
    BY <1>0 DEF ConnectionObject
  <2>3. armed \in ConnectionObject
    <3> HIDE DEF begun
    <3> QED BY <2>2 DEF ConnectionObject, Timer
  <2>4. WritesOnce(armed) /\ Released(armed) /\ Continues(r, armed) /\ armed.messages = r.messages + 1
    BY <1>0 DEF ConnectionObject, WritesOnce, Released, Continues
  <2>5. Attended(r) => Attended(armed)
    BY DEF ConnectionObject, Attended
  <2> QED BY <2>1, <2>3, <2>4, <2>5
<1>3. CASE r.state = "open" /\ r.messages # 0
  <2>1. Send(r) = queued
    BY <1>3 DEF Send
  <2>2. queued \in ConnectionObject
    BY <1>0 DEF ConnectionObject
  <2> QED BY <1>0, <1>3, <2>1, <2>2
      DEF ConnectionObject, WritesOnce, Attended, Released, Continues
<1> QED BY <1>1, <1>2, <1>3

LEMMA SendSound ==
  ASSUME NEW r, Sound(r), r.messages < MaxQueue
  PROVE  /\ Sound(Send(r)) /\ Continues(r, Send(r))
         /\ Send(r).messages \in {r.messages, r.messages + 1}
BY SendKeeps DEF Sound

LEMMA ReadEndsSound ==
  ASSUME NEW r, Sound(r)
  PROVE  /\ ReadEnds(r) \in ConnectionObject /\ WritesOnce(ReadEnds(r)) /\ Released(ReadEnds(r))
         /\ Continues(r, ReadEnds(r)) /\ ReadEnds(r).messages = r.messages
         /\ ReadEnds(r).state = r.state
BY DEF ReadEnds, Cancel, Sound, ConnectionObject, WritesOnce, Released, Continues

LEMMA ReadSound ==
  ASSUME NEW r \in ConnectionObject, WritesOnce(r), Released(r),
         NEW what \in {"header", "body"}
  PROVE  /\ Sound(Read(r, what)) /\ Continues(r, Read(r, what))
         /\ Read(r, what).messages = r.messages
BY DEF Read, Arm, Sound, ConnectionObject, WritesOnce, Attended, Released, Continues, Timer

\* What parsePacket makes of a connection, whatever the protocol does with the packet.
LEMMA ParseSound ==
  ASSUME NEW r, Sound(r), r.state = "open", r.messages < MaxQueue,
         NEW s \in Handled([ReadEnds(r) EXCEPT !.receivedFirst = TRUE, !.protocol = TRUE])
  PROVE  /\ Sound(Read(s, "header")) /\ Read(s, "header").receivedFirst
         /\ Read(s, "header").release = "run" => r.release = "run"
         /\ Read(s, "header").messages \in {r.messages, r.messages + 1}
<1> DEFINE t == [ReadEnds(r) EXCEPT !.receivedFirst = TRUE, !.protocol = TRUE]
           u == [t EXCEPT !.limited = TRUE]
<1>1. /\ t \in ConnectionObject /\ WritesOnce(t) /\ Released(t) /\ t.receivedFirst
      /\ (t.release = "run" => r.release = "run") /\ t.messages = r.messages
      /\ t.state = "open"
  <2>1. /\ ReadEnds(r) \in ConnectionObject /\ WritesOnce(ReadEnds(r))
        /\ Released(ReadEnds(r)) /\ Continues(r, ReadEnds(r))
        /\ ReadEnds(r).messages = r.messages /\ ReadEnds(r).state = "open"
    BY ReadEndsSound
  <2> QED BY <2>1 DEF ConnectionObject, WritesOnce, Released, Continues
<1> HIDE DEF t
<1>2. /\ Send(t) \in ConnectionObject /\ WritesOnce(Send(t)) /\ Released(Send(t))
      /\ Continues(t, Send(t)) /\ Send(t).messages \in {t.messages, t.messages + 1}
  BY <1>1, SendKeeps
<1>3. /\ s \in ConnectionObject /\ WritesOnce(s) /\ Released(s) /\ s.receivedFirst
      /\ (s.release = "run" => r.release = "run")
      /\ s.messages \in {r.messages, r.messages + 1}
  <2>1. s \in {t, Close(t, FALSE), Close(Send(t), FALSE)}
    BY DEF Handled, t
  <2>2. /\ Sound(Close(t, FALSE)) /\ Continues(t, Close(t, FALSE))
        /\ Close(t, FALSE).messages = t.messages
    BY <1>1, CloseSound
  <2>3. /\ Sound(Close(Send(t), FALSE)) /\ Continues(Send(t), Close(Send(t), FALSE))
        /\ Close(Send(t), FALSE).messages = Send(t).messages
    BY <1>2, CloseSound
  <2> QED BY <1>1, <1>2, <2>1, <2>2, <2>3 DEF Sound, Continues
<1>4. /\ Sound(Read(s, "header")) /\ Continues(s, Read(s, "header"))
      /\ Read(s, "header").messages = s.messages
  BY <1>3, ReadSound
<1> QED BY <1>3, <1>4 DEF Continues

LEMMA DrainSound ==
  ASSUME NEW r, Sound(r), r.write = "done"
  PROVE  Sound(Drain(r)) /\ Continues(r, Drain(r)) /\ Drain(r).messages = r.messages - 1
<1> DEFINE sent   == [Cancel(r, "write") EXCEPT !.write = "none", !.messages = @ - 1]
           begun  == [sent EXCEPT !.write = "pending"]
           armed  == [begun EXCEPT !.armed = @ \cup {"write"}]
           closed == [sent EXCEPT !.socket = FALSE, !.armed = {}]
<1>1. /\ r \in ConnectionObject /\ r.messages \in Nat /\ r.messages - 1 \in 0..MaxQueue
      /\ r.messages > 0
  BY ConnectionAssumption DEF Sound, WritesOnce, ConnectionObject
<1>2. /\ sent \in ConnectionObject /\ Attended(sent) /\ Released(sent) /\ Continues(r, sent)
      /\ sent.messages = r.messages - 1 /\ sent.write = "none"
  BY <1>1 DEF Cancel, Sound, ConnectionObject, Attended, Released, Continues, Timer
<1>3. Drain(r) = IF sent.messages > 0 THEN armed
                 ELSE IF sent.state = "closed" THEN CloseSocket(sent) ELSE sent
  BY DEF Drain, InternalSend, Arm
<1> HIDE DEF sent
<1>4. CASE sent.messages > 0
  <2>1. begun \in ConnectionObject
    BY <1>2 DEF ConnectionObject
  <2>2. armed \in ConnectionObject
    <3> HIDE DEF begun
    <3> QED BY <2>1 DEF ConnectionObject, Timer
  <2>3. /\ WritesOnce(armed) /\ Attended(armed) /\ Released(armed)
        /\ Continues(r, armed) /\ armed.messages = r.messages - 1
    BY <1>2, <1>4 DEF ConnectionObject, WritesOnce, Attended, Released, Continues
  <2> QED BY <1>3, <1>4, <2>2, <2>3 DEF Sound
<1>5. CASE ~(sent.messages > 0)
  <2>1. sent.messages = 0
    BY <1>1, <1>2, <1>5
  <2>2. Sound(sent)
    BY <1>2, <2>1 DEF Sound, WritesOnce
  <2>3. closed \in ConnectionObject
    BY <1>2 DEF ConnectionObject, Timer
  <2>4. /\ WritesOnce(closed) /\ Attended(closed) /\ Released(closed)
        /\ Continues(r, closed) /\ closed.messages = r.messages - 1
    BY <1>2, <2>1 DEF ConnectionObject, WritesOnce, Attended, Released, Continues
  <2>5. Drain(r) \in {sent, closed}
    BY <1>3, <1>5 DEF CloseSocket
  <2> QED BY <1>2, <2>2, <2>3, <2>4, <2>5 DEF Sound
<1> QED BY <1>4, <1>5

-----------------------------------------------------------------------------
(* The inductive invariant                                                 *)

\* messageQueue has room for what the protocol has buffered.
HasRoom(c, r, b) == r.messages + (IF c \in b THEN 1 ELSE 0) <= MaxQueue

Inv ==
  /\ TypeOK
  /\ \A c \in Conn : Sound(conn[c]) /\ HasRoom(c, conn[c], outputBuffer)
  /\ accepting # None => conn[accepting] = Created
  /\ \A c \in buffered : conn[c].receivedFirst /\ conn[c].release # "run"

LEMMA InitInv == Init => Inv
<1> SUFFICES ASSUME Init PROVE Inv
  OBVIOUS
<1>1. \A c \in Conn : conn[c] \in {Created, NoConnection}
  BY DEF Init
<1>2. \A c \in Conn : Sound(conn[c])
  BY <1>1, CreatedSound
<1>3. Created.messages = 0 /\ NoConnection.messages = 0
  BY DEF Created, NoConnection
<1>4. \A c \in Conn : HasRoom(c, conn[c], outputBuffer)
  BY <1>1, <1>3, ConnectionAssumption DEF HasRoom, Init
<1>5. conn \in [Conn -> ConnectionObject]
  BY <1>2 DEF Init, Sound
<1>6. TypeOK
  <2>1. acceptor \in BOOLEAN /\ pendingStart \in BOOLEAN /\ retry \in {"none", "scheduled", "due"}
    BY DEF Init
  <2>2. accepting \in Conn \cup {None} /\ peer \in [Conn -> {"alive", "silent", "gone"}]
    BY DEF Init
  <2>3. chains \in 0..MaxChains
    BY ConnectionAssumption DEF Init
  <2> QED BY <1>5, <2>1, <2>2, <2>3 DEF Init, TypeOK
<1>7. accepting # None => conn[accepting] = Created
  BY ConnectionAssumption DEF Init
<1> QED BY <1>2, <1>4, <1>6, <1>7 DEF Inv, Init

\* A step of one connection: Becomes.
LEMMA BecomesInv ==
  ASSUME Inv, NEW c \in Conn, NEW r, Becomes(c, r), Sound(r),
         conn[c] # Created \/ accepting # c,
         conn[c].receivedFirst => r.receivedFirst,
         r.release = "run" => conn[c].release = "run",
         HasRoom(c, r, outputBuffer)
  PROVE  Inv'
<1>1. conn' = [conn EXCEPT ![c] = r] /\ UNCHANGED <<peer, port, pool>>
  BY DEF Becomes
<1>2. conn'[c] = r /\ \A d \in Conn : d # c => conn'[d] = conn[d]
  BY <1>1 DEF Inv, TypeOK
<1>3. TypeOK'
  BY <1>1 DEF Inv, TypeOK, Sound, port, pool
<1>4. \A d \in Conn : Sound(conn'[d]) /\ HasRoom(d, conn'[d], outputBuffer')
  BY <1>1, <1>2 DEF Inv, pool
<1>5. accepting' # None => conn'[accepting'] = Created
  BY <1>1, <1>2 DEF Inv, TypeOK, port
<1>6. \A d \in buffered' : conn'[d].receivedFirst /\ conn'[d].release # "run"
  BY <1>1, <1>2 DEF Inv, TypeOK, pool
<1> QED BY <1>3, <1>4, <1>5, <1>6 DEF Inv

\* The port hands over r, if c is the connection it held, and makes the next one.
LEMMA AcceptInv ==
  ASSUME Inv, NEW c \in {accepting, None}, NEW r, AcceptNext(c, r),
         c # None => Sound(r) /\ r.messages = 0,
         UNCHANGED pool, acceptor' \in BOOLEAN, pendingStart' \in BOOLEAN, retry' \in {"none", "scheduled", "due"}
  PROVE  Inv'
<1> DEFINE before == IF c = None THEN conn ELSE [conn EXCEPT ![c] = r]
<1>1. c # None => c \in Conn /\ conn[c] = Created /\ c \notin buffered
  BY DEF Inv, TypeOK, Created
<1>2. /\ before \in [Conn -> ConnectionObject]
      /\ \A d \in Conn : Sound(before[d]) /\ HasRoom(d, before[d], outputBuffer)
      /\ \A d \in buffered : before[d] = conn[d]
  BY <1>1, ConnectionAssumption DEF Inv, TypeOK, Sound, HasRoom
<1>3. \/ accepting' = None /\ conn' = before /\ UNCHANGED peer
      \/ \E d \in Fresh : /\ accepting' = d /\ conn' = [before EXCEPT ![d] = Created]
                          /\ peer' = [peer EXCEPT ![d] = "alive"]
  BY DEF AcceptNext
<1> HIDE DEF before
<1>4. CASE accepting' = None /\ conn' = before /\ UNCHANGED peer
  BY <1>2, <1>4 DEF Inv, TypeOK, pool
<1>5. ASSUME NEW d \in Fresh, accepting' = d, conn' = [before EXCEPT ![d] = Created],
             peer' = [peer EXCEPT ![d] = "alive"]
      PROVE  Inv'
  <2>1. d \in Conn /\ d \notin buffered
    BY DEF Fresh
  <2>2. conn'[d] = Created /\ \A e \in Conn : e # d => conn'[e] = before[e]
    BY <1>2, <1>5, <2>1
  <2>3. Sound(Created) /\ HasRoom(d, Created, outputBuffer)
    BY CreatedSound, ConnectionAssumption DEF HasRoom, Created
  <2>4. conn' \in [Conn -> ConnectionObject]
    BY <1>2, <1>5, <2>1, <2>3 DEF Sound
  <2>5. TypeOK'
    BY <1>5, <2>1, <2>4 DEF Inv, TypeOK, pool
  <2>6. \A e \in Conn : Sound(conn'[e]) /\ HasRoom(e, conn'[e], outputBuffer')
    BY <1>2, <2>2, <2>3 DEF pool
  <2>7. \A e \in buffered' : conn'[e].receivedFirst /\ conn'[e].release # "run"
    BY <1>2, <2>1, <2>2 DEF Inv, TypeOK, pool
  <2> QED BY <1>5, <2>2, <2>5, <2>6, <2>7 DEF Inv
<1> QED BY <1>3, <1>4, <1>5

-----------------------------------------------------------------------------
(* The steps                                                               *)

LEMMA OnAcceptInv == ASSUME Inv, OnAccept PROVE Inv'
<1>1. PICK made \in BOOLEAN :
        LET r == [conn[accepting] EXCEPT !.socket = TRUE, !.protocol = made]
        IN  AcceptNext(accepting, Read(r, "header"))
              \/ (~made /\ AcceptNext(accepting, Close(r, TRUE)))
  BY DEF OnAccept
<1> DEFINE r == [conn[accepting] EXCEPT !.socket = TRUE, !.protocol = made]
<1>2. conn[accepting] = Created /\ UNCHANGED <<acceptor, pendingStart, retry, pool>>
  BY DEF OnAccept, Inv
<1>3. Created \in ConnectionObject
  BY CreatedSound DEF Sound
<1>4. r \in ConnectionObject /\ WritesOnce(r) /\ Released(r) /\ r.messages = 0
  <2>1. r = [Created EXCEPT !.socket = TRUE, !.protocol = made]
    BY <1>2
  <2>2. r \in ConnectionObject
    BY <1>3, <2>1 DEF ConnectionObject
  <2>3. /\ r.managed = TRUE /\ r.state = "open" /\ r.receivedFirst = FALSE
        /\ r.messages = 0 /\ r.write = "none"
    BY <2>1 DEF Created
  <2> QED BY <2>2, <2>3 DEF WritesOnce, Released
<1>5. AcceptNext(accepting, Read(r, "header")) \/ AcceptNext(accepting, Close(r, TRUE))
  BY <1>1
<1> HIDE DEF r
<1>6. Sound(Read(r, "header")) /\ Read(r, "header").messages = 0
  BY <1>4, ReadSound
<1>7. Sound(Close(r, TRUE)) /\ Close(r, TRUE).messages = 0
  BY <1>4, CloseSound
<1>8. acceptor' \in BOOLEAN /\ pendingStart' \in BOOLEAN /\ retry' \in {"none", "scheduled", "due"} /\ UNCHANGED pool
  BY <1>2 DEF Inv, TypeOK
<1> QED BY <1>5, <1>6, <1>7, <1>8, AcceptInv

LEMMA AcceptFailsInv == ASSUME Inv, AcceptFails PROVE Inv'
<1>1. /\ accepting \in Conn /\ conn[accepting] = Created /\ accepting \notin buffered
      /\ conn' = [conn EXCEPT ![accepting] = NoConnection] /\ accepting' = None
      /\ acceptor' = FALSE /\ pendingStart' = TRUE /\ retry' = "scheduled" /\ UNCHANGED <<peer, pool>>
  BY DEF AcceptFails, Inv, TypeOK, Created
<1>2. Sound(NoConnection) /\ HasRoom(accepting, NoConnection, outputBuffer)
  BY CreatedSound, ConnectionAssumption DEF HasRoom, NoConnection, Created
<1>3. conn'[accepting] = NoConnection /\ \A e \in Conn : e # accepting => conn'[e] = conn[e]
  BY <1>1 DEF Inv, TypeOK
<1>4. TypeOK'
  BY <1>1, <1>2 DEF Inv, TypeOK, Sound, pool
<1>5. \A e \in Conn : Sound(conn'[e]) /\ HasRoom(e, conn'[e], outputBuffer')
  BY <1>1, <1>2, <1>3 DEF Inv, pool
<1>6. \A e \in buffered' : conn'[e].receivedFirst /\ conn'[e].release # "run"
  BY <1>1, <1>3 DEF Inv, TypeOK, pool
<1> QED BY <1>1, <1>4, <1>5, <1>6 DEF Inv

LEMMA OpenInv == ASSUME Inv, RetryDue \/ Open \/ AcceptMore PROVE Inv'
<1>1. \/ /\ AcceptNext(None, NoConnection)
      \/ UNCHANGED <<accepting, conn, peer>>
  BY DEF RetryDue, Open, Opened, AcceptMore
<1>2. /\ UNCHANGED pool
      /\ acceptor' \in BOOLEAN /\ pendingStart' \in BOOLEAN
      /\ retry' \in {"none", "scheduled", "due"}
  BY DEF RetryDue, Open, Opened, AcceptMore, Inv, TypeOK
<1>3. CASE UNCHANGED <<accepting, conn, peer>>
  BY <1>2, <1>3 DEF Inv, TypeOK, pool
<1> QED BY <1>1, <1>2, <1>3, AcceptInv

\* The connection that the port holds has no operation, no timer and no packet.
LEMMA Unaccepted ==
  ASSUME Inv, NEW c \in Conn, c = accepting
  PROVE  /\ conn[c].read = "none" /\ conn[c].write = "none" /\ ~conn[c].socket
         /\ conn[c].armed = {} /\ conn[c].due = {} /\ ~conn[c].receivedFirst
BY ConnectionAssumption DEF Inv, Created

LEMMA NetworkInv ==
  ASSUME Inv, NEW c \in Conn, Network(c)
  PROVE  Inv'
<1> DEFINE r == conn[c]
<1>0. /\ Sound(r) /\ HasRoom(c, r, outputBuffer)
      /\ r \in ConnectionObject /\ WritesOnce(r) /\ Attended(r) /\ Released(r)
      /\ r.messages \in Nat
  BY DEF Inv, Sound, ConnectionObject
<1>1. ASSUME ReadFails(c) PROVE Inv'
  <2>1. c # accepting
    BY <1>1, Unaccepted DEF ReadFails
  <2>2. /\ Sound(Close(ReadEnds(r), TRUE)) /\ Continues(r, Close(ReadEnds(r), TRUE))
        /\ Close(ReadEnds(r), TRUE).messages = r.messages
    BY <1>0, ReadEndsSound, CloseSound DEF Continues
  <2> QED BY <1>0, <1>1, <2>1, <2>2, BecomesInv DEF ReadFails, Continues, HasRoom
<1>2. ASSUME ParseHeader(c) PROVE Inv'
  <2>1. c # accepting
    BY <1>2, Unaccepted DEF ParseHeader, CanRead
  <2>2. /\ Sound(Read(ReadEnds(r), "body")) /\ Continues(r, Read(ReadEnds(r), "body"))
        /\ Read(ReadEnds(r), "body").messages = r.messages
    BY <1>0, ReadEndsSound, ReadSound DEF Continues
  <2> QED BY <1>0, <1>2, <2>1, <2>2, BecomesInv DEF ParseHeader, Continues, HasRoom
<1>3. ASSUME MeetLimit(c) PROVE Inv'
  <2> DEFINE s == [ReadEnds(r) EXCEPT !.limited = TRUE]
  <2>1. c # accepting
    BY <1>3, Unaccepted DEF MeetLimit, CanRead
  <2>2. /\ ReadEnds(r) \in ConnectionObject /\ WritesOnce(ReadEnds(r))
        /\ Released(ReadEnds(r)) /\ Continues(r, ReadEnds(r))
        /\ ReadEnds(r).messages = r.messages
    BY <1>0, ReadEndsSound
  <2>3. Sound(s) /\ Continues(r, s) /\ s.messages = r.messages
    BY <2>2 DEF Sound, ConnectionObject, WritesOnce, Attended, Released, Continues
  <2>4. Becomes(c, s)
    BY <1>3 DEF MeetLimit
  <2> HIDE DEF s
  <2> QED BY <1>0, <2>1, <2>3, <2>4, BecomesInv DEF Continues, HasRoom
<1>4. ASSUME ParsePacket(c) PROVE Inv'
  <2>1. c # accepting
    BY <1>4, Unaccepted DEF ParsePacket, CanRead
  <2>2. PICK s \in Handled([ReadEnds(r) EXCEPT !.receivedFirst = TRUE, !.protocol = TRUE]) :
          Becomes(c, Read(s, "header"))
    BY <1>4 DEF ParsePacket
  <2>3. r.state = "open" /\ r.messages < MaxQueue
    BY <1>0, <1>4, ConnectionAssumption DEF ParsePacket, IsOpen, Room
  <2>4. /\ Sound(Read(s, "header")) /\ Read(s, "header").receivedFirst
        /\ Read(s, "header").release = "run" => r.release = "run"
        /\ Read(s, "header").messages \in {r.messages, r.messages + 1}
    BY <1>0, <2>2, <2>3, ParseSound
  <2>5. HasRoom(c, Read(s, "header"), outputBuffer)
    BY <1>0, <1>4, <2>4, ConnectionAssumption DEF ParsePacket, Room, HasRoom
  <2> QED BY <2>1, <2>2, <2>4, <2>5, BecomesInv
<1>5. ASSUME WriteDone(c) PROVE Inv'
  <2> DEFINE s == [r EXCEPT !.write = "done"]
  <2>1. c # accepting
    BY <1>5, Unaccepted DEF WriteDone
  <2>2. Becomes(c, s) /\ r.write # "none"
    BY <1>5 DEF WriteDone
  <2>3. Sound(s) /\ Continues(r, s) /\ s.messages = r.messages
    BY <1>0, <2>2 DEF Sound, ConnectionObject, WritesOnce, Attended, Released, Continues
  <2> HIDE DEF s
  <2> QED BY <1>0, <2>1, <2>2, <2>3, BecomesInv DEF Continues, HasRoom
<1>6. ASSUME OnWrite(c) PROVE Inv'
  <2>1. c # accepting
    BY <1>6, Unaccepted DEF OnWrite
  <2>2. Sound(Drain(r)) /\ Continues(r, Drain(r)) /\ Drain(r).messages = r.messages - 1
    BY <1>0, <1>6, DrainSound DEF OnWrite
  <2>3. HasRoom(c, Drain(r), outputBuffer)
    BY <1>0, <2>2, ConnectionAssumption DEF HasRoom
  <2> QED BY <1>6, <2>1, <2>2, <2>3, BecomesInv DEF OnWrite, Continues
<1>7. ASSUME WriteFails(c) PROVE Inv'
  <2> DEFINE s == [Cancel(r, "write") EXCEPT !.write = "none", !.messages = 0]
  <2>1. c # accepting
    BY <1>7, Unaccepted DEF WriteFails
  <2>2. Becomes(c, Close(s, TRUE))
    BY <1>7 DEF WriteFails
  <2>3. /\ s \in ConnectionObject /\ WritesOnce(s) /\ Released(s) /\ Continues(r, s)
        /\ s.messages = 0
    <3>1. 0 \in 0..MaxQueue
      BY ConnectionAssumption
    <3>2. s \in ConnectionObject
      BY <1>0, <3>1 DEF Cancel, ConnectionObject
    <3>3. s.messages = 0 /\ s.write = "none"
      BY <1>0 DEF Cancel, ConnectionObject
    <3>4. Released(s) /\ Continues(r, s)
      BY <1>0 DEF Cancel, ConnectionObject, Released, Continues
    <3> QED BY <3>2, <3>3, <3>4 DEF WritesOnce
  <2> HIDE DEF s
  <2>4. Sound(Close(s, TRUE)) /\ Continues(s, Close(s, TRUE)) /\ Close(s, TRUE).messages = 0
    BY <2>3, CloseSound
  <2>5. HasRoom(c, Close(s, TRUE), outputBuffer)
    <3>1. 0 + 1 <= MaxQueue /\ 0 + 0 <= MaxQueue
      BY ConnectionAssumption
    <3> QED BY <2>4, <3>1 DEF HasRoom
  <2> QED BY <2>1, <2>2, <2>3, <2>4, <2>5, BecomesInv DEF Continues
<1>8. ASSUME Destroy(c) PROVE Inv'
  <2> DEFINE s == [r EXCEPT !.state = "none", !.socket = FALSE, !.armed = {}]
  <2>1. c # accepting /\ ~r.managed /\ Becomes(c, s) /\ r.state # "open"
    BY <1>0, <1>8 DEF Destroy, Released
  <2>2. Sound(s) /\ Continues(r, s) /\ s.messages = r.messages
    BY <1>0, <2>1 DEF Sound, ConnectionObject, WritesOnce, Attended, Released, Continues
  <2> HIDE DEF s
  <2> QED BY <1>0, <2>1, <2>2, BecomesInv DEF Continues, HasRoom
<1>9. ASSUME PeerStops(c) PROVE Inv'
  <2>1. peer' \in [Conn -> {"alive", "silent", "gone"}]
    BY <1>9 DEF PeerStops, Inv, TypeOK
  <2>2. UNCHANGED <<conn, port, pool>>
    BY <1>9 DEF PeerStops
  <2> QED BY <2>1, <2>2 DEF Inv, TypeOK, port, pool
<1>10. ASSUME NEW t \in Timer, Expire(c, t) PROVE Inv'
  <2> DEFINE s == [Cancel(r, t) EXCEPT !.due = @ \cup {t}]
  <2>1. c # accepting
    BY <1>10, Unaccepted DEF Expire
  <2>2. Becomes(c, s)
    BY <1>10 DEF Expire
  <2>3. Sound(s) /\ Continues(r, s) /\ s.messages = r.messages
    BY <1>0 DEF Cancel, Sound, ConnectionObject, WritesOnce, Attended, Released, Continues
  <2> HIDE DEF s
  <2> QED BY <1>0, <2>1, <2>2, <2>3, BecomesInv DEF Continues, HasRoom
<1>11. ASSUME NEW t \in Timer, HandleTimeout(c, t) PROVE Inv'
  <2> DEFINE s == [r EXCEPT !.due = @ \ {t}]
  <2>1. c # accepting
    BY <1>11, Unaccepted DEF HandleTimeout
  <2>2. Becomes(c, TimeOut(s))
    BY <1>11 DEF HandleTimeout
  <2>3. /\ s \in ConnectionObject /\ WritesOnce(s) /\ Released(s) /\ Continues(r, s)
        /\ s.messages = r.messages
    BY <1>0 DEF ConnectionObject, WritesOnce, Released, Continues
  <2> HIDE DEF s
  <2>4. Sound(TimeOut(s)) /\ Continues(s, TimeOut(s)) /\ TimeOut(s).messages = s.messages
    <3>1. Sound(Close(s, TRUE)) /\ Continues(s, Close(s, TRUE))
          /\ Close(s, TRUE).messages = s.messages
      BY <2>3, CloseSound
    <3>2. s.state = "none" => Sound(s)
      BY <2>3 DEF Sound, Attended
    <3> QED BY <3>1, <3>2 DEF TimeOut, Continues
  <2> QED BY <1>0, <2>1, <2>2, <2>3, <2>4, BecomesInv DEF Continues, HasRoom
<1> QED BY <1>1, <1>2, <1>3, <1>4, <1>5, <1>6, <1>7, <1>8, <1>9, <1>10, <1>11 DEF Network

LEMMA DispatcherInv ==
  ASSUME Inv, NEW c \in Conn, Dispatcher(c)
  PROVE  Inv'
<1> DEFINE r == conn[c]
<1>0. /\ Sound(r) /\ HasRoom(c, r, outputBuffer) /\ r \in ConnectionObject
      /\ WritesOnce(r) /\ Attended(r) /\ Released(r) /\ r.messages \in Nat
  BY DEF Inv, Sound, ConnectionObject
<1>1. ASSUME Login(c) PROVE Inv'
  <2>1. /\ conn' = conn /\ UNCHANGED <<peer, port, outputBuffer>>
        /\ buffered' = buffered \cup {c} /\ conn[c].receivedFirst /\ conn[c].release # "run"
        /\ chains' \in 0..MaxChains
    BY <1>1, ConnectionAssumption DEF Login, Inv, TypeOK
  <2> QED BY <2>1 DEF Inv, TypeOK, port
<1>2. ASSUME Write(c) PROVE Inv'
  <2>1. /\ UNCHANGED <<conn, peer, port, buffered, chains>>
        /\ outputBuffer' = outputBuffer \cup {c} /\ r.messages < MaxQueue
    BY <1>0, <1>2, ConnectionAssumption DEF Write, Room
  <2>2. \A d \in Conn : HasRoom(d, conn[d], outputBuffer')
    BY <1>0, <2>1, ConnectionAssumption DEF HasRoom, Inv
  <2> QED BY <2>1, <2>2 DEF Inv, TypeOK, port
<1>3. ASSUME SendNow(c) PROVE Inv'
  <2>1. c # accepting
    BY <1>3, Unaccepted DEF SendNow
  <2>2. r.messages < MaxQueue
    BY <1>0, <1>3, ConnectionAssumption DEF SendNow, Room
  <2>3. /\ Sound(Send(r)) /\ Continues(r, Send(r))
        /\ Send(r).messages \in {r.messages, r.messages + 1}
    BY <1>0, <2>2, SendSound
  <2>4. HasRoom(c, Send(r), outputBuffer)
    BY <1>0, <1>3, <2>3, ConnectionAssumption DEF SendNow, Room, HasRoom
  <2> QED BY <1>3, <2>1, <2>3, <2>4, BecomesInv DEF SendNow, Continues
<1>4. ASSUME Disconnect(c) PROVE Inv'
  <2>1. c # accepting
    BY <1>4, Unaccepted DEF Disconnect
  <2>2. /\ Sound(Close(r, FALSE)) /\ Continues(r, Close(r, FALSE))
        /\ Close(r, FALSE).messages = r.messages
    BY <1>0, CloseSound
  <2> QED BY <1>0, <1>4, <2>1, <2>2, BecomesInv DEF Disconnect, Continues, HasRoom
<1>5. ASSUME Release(c) PROVE Inv'
  <2> DEFINE s == [r EXCEPT !.release = "run"]
  <2>1. /\ conn' = [conn EXCEPT ![c] = s] /\ r.release = "queued"
        /\ buffered' = buffered \ {c} /\ outputBuffer' = outputBuffer \ {c}
        /\ UNCHANGED <<peer, port, chains>>
    BY <1>5 DEF Release, Inv, TypeOK
  <2>2. c # accepting
    BY <2>1, ConnectionAssumption DEF Inv, Created
  <2>3. Sound(s) /\ s.messages = r.messages
    BY <1>0 DEF Sound, ConnectionObject, WritesOnce, Attended, Released
  <2> HIDE DEF s
  <2>4. conn'[c] = s /\ \A d \in Conn : d # c => conn'[d] = conn[d]
    BY <2>1 DEF Inv, TypeOK
  <2>5. TypeOK'
    BY <2>1, <2>3 DEF Inv, TypeOK, Sound, port
  <2>6. \A d \in Conn : Sound(conn'[d]) /\ HasRoom(d, conn'[d], outputBuffer')
    BY <1>0, <2>1, <2>3, <2>4, ConnectionAssumption DEF Inv, HasRoom
  <2> QED BY <2>1, <2>2, <2>4, <2>5, <2>6 DEF Inv, TypeOK, port
<1> QED BY <1>1, <1>2, <1>3, <1>4, <1>5 DEF Dispatcher

LEMMA SendAllInv == ASSUME Inv, SendAll PROVE Inv'
<1> DEFINE flushed == buffered \cap outputBuffer
<1>1. /\ \A c \in Conn : conn'[c] = IF c \in flushed THEN Send(conn[c]) ELSE conn[c]
      /\ outputBuffer' = outputBuffer \ buffered /\ UNCHANGED <<peer, port, buffered>>
      /\ chains' \in 0..MaxChains
  BY ConnectionAssumption DEF SendAll, Inv, TypeOK
<1>2. ASSUME NEW c \in Conn
      PROVE  /\ Sound(conn'[c]) /\ Continues(conn[c], conn'[c])
             /\ HasRoom(c, conn'[c], outputBuffer')
  <2>0. Sound(conn[c]) /\ HasRoom(c, conn[c], outputBuffer) /\ conn[c].messages \in Nat
    BY DEF Inv, Sound, ConnectionObject
  <2>1. CASE c \in flushed
    <3>1. conn[c].messages < MaxQueue
      BY <2>0, <2>1, ConnectionAssumption DEF HasRoom
    <3>2. /\ Sound(Send(conn[c])) /\ Continues(conn[c], Send(conn[c]))
          /\ Send(conn[c]).messages \in {conn[c].messages, conn[c].messages + 1}
      BY <2>0, <3>1, SendSound
    <3> QED BY <1>1, <2>0, <2>1, <3>1, <3>2, ConnectionAssumption DEF HasRoom
  <2>2. CASE c \notin flushed
    <3>1. conn'[c] = conn[c]
      BY <1>1, <2>2
    <3> QED BY <1>1, <2>0, <3>1, ConnectionAssumption DEF HasRoom, Continues
  <2> QED BY <2>1, <2>2
<1>3. conn' \in [Conn -> ConnectionObject]
  <2>1. conn' = [c \in Conn |-> conn'[c]]
    BY DEF SendAll
  <2> QED BY <1>2, <2>1 DEF Sound
<1>4. TypeOK'
  BY <1>1, <1>3 DEF Inv, TypeOK, port
<1>5. accepting' # None => conn'[accepting'] = Created
  <2>1. accepting # None => accepting \in Conn /\ accepting \notin buffered
    BY DEF Inv, TypeOK, Created
  <2> QED BY <1>1, <2>1 DEF Inv, port
<1>6. \A c \in buffered' : conn'[c].receivedFirst /\ conn'[c].release # "run"
  BY <1>1, <1>2 DEF Inv, TypeOK, Continues
<1> QED BY <1>2, <1>4, <1>5, <1>6 DEF Inv

LEMMA NextInv == ASSUME Inv, [Next]_vars PROVE Inv'
<1>1. CASE UNCHANGED vars
  BY <1>1 DEF vars, port, pool, Inv, TypeOK
<1> QED BY <1>1, OnAcceptInv, AcceptFailsInv, OpenInv, SendAllInv, NetworkInv, DispatcherInv
        DEF Next

\* Handlers and tasks of a connection leave the port alone.
LEMMA HandlersSparePort ==
  ASSUME NEW c \in Conn, Network(c) \/ Dispatcher(c)
  PROVE  UNCHANGED port
BY DEF Network, ReadFails, ParseHeader, MeetLimit, ParsePacket, WriteDone, OnWrite, WriteFails,
       Destroy, PeerStops, Expire, HandleTimeout, Dispatcher, Login, Write, SendNow, Disconnect,
       Release, Becomes
-----------------------------------------------------------------------------
(* The theorems                                                            *)

\* The inductive invariant holds in every state.
THEOREM Invariance == Spec => []Inv
BY InitInv, NextInv, PTL DEF Spec

\* Every variable has its type; a messageQueue keeps its bound although sendAll
\* does not look at it.
THEOREM TypeCorrect == Spec => []TypeOK
<1>1. Inv => TypeOK
  BY DEF Inv
<1> QED BY <1>1, Invariance, PTL

\* No message waits without a write, and no two writes overlap (Connection::send,
\* onWriteOperation, close).
THEOREM WritesAreSingle == Spec => []OneWrite
<1>1. Inv => OneWrite
  BY DEF Inv, Sound, WritesOnce, OneWrite
<1> QED BY <1>1, Invariance, PTL

\* An open connection has a read and its timer, but at the packet limit
\* (parseHeader, parsePacket, handleTimeout).
THEOREM ConnectionsAreWatched == Spec => []Watched
<1>1. Inv => Watched
  BY DEF Inv, Sound, Attended, Watched, IsOpen
<1> QED BY <1>1, Invariance, PTL

\* A protocol in the output pool has a connection, or its release is queued
\* (Connection::close, ProtocolGame::release).
THEOREM NoProtocolIsOrphaned == Spec => []NoOrphan
<1>1. Inv => NoOrphan
  <2> SUFFICES ASSUME Inv, NEW c \in buffered, conn[c].state = "none"
               PROVE  conn[c].release = "queued"
    BY DEF NoOrphan, Exists
  <2>1. c \in Conn /\ conn[c].receivedFirst /\ conn[c].release # "run"
    BY DEF Inv, TypeOK
  <2>2. conn[c].release \in {"none", "queued", "run"} /\ Released(conn[c])
    BY <2>1 DEF Inv, Sound, ConnectionObject
  <2> QED BY <2>1, <2>2 DEF Released
<1> QED BY <1>1, Invariance, PTL

\* A port that is closed has one event under way that will open it, whatever fails
\* and however often (ServicePort::onAccept, open): true of every step by itself.
THEOREM PortIsRetried == Spec => []RetryPending
<1>1. Init => RetryPending
  BY DEF Init, RetryPending
<1>2. RetryPending /\ [Next]_vars => RetryPending'
  <2> SUFFICES ASSUME RetryPending, [Next]_vars PROVE RetryPending'
    OBVIOUS
  <2>1. CASE OnAccept \/ AcceptMore
    <3>1. UNCHANGED <<acceptor, pendingStart, retry>>
      BY <2>1 DEF OnAccept, AcceptMore
    <3> QED BY <3>1 DEF RetryPending
  <2>2. CASE AcceptFails \/ RetryDue \/ Open
    BY <2>2 DEF AcceptFails, RetryDue, Open, Opened, RetryPending
  <2>3. CASE SendAll \/ UNCHANGED vars
    <3>1. UNCHANGED port
      BY <2>3 DEF SendAll, vars
    <3> QED BY <3>1 DEF port, RetryPending
  <2>4. ASSUME NEW c \in Conn, Network(c)  PROVE RetryPending'
    BY <2>4, HandlersSparePort DEF port, RetryPending
  <2>5. ASSUME NEW c \in Conn, Dispatcher(c)  PROVE RetryPending'
    BY <2>5, HandlersSparePort DEF port, RetryPending
  <2> QED BY <2>1, <2>2, <2>3, <2>4, <2>5 DEF Next
<1> QED BY <1>1, <1>2, PTL DEF Spec
=============================================================================

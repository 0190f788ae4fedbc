-------------------------- MODULE GameSessionProofs --------------------------
(***************************************************************************)
(* The safety properties of GameSession, for any number of connections.    *)
(* The invariant says what the dispatcher's queue may still hold for a     *)
(* protocol at each point of its life; every task that runs leaves a queue *)
(* that says less, so the conditions are stated for any queue q.           *)
(***************************************************************************)
EXTENDS GameSession, TLAPS

Kinds == {"login", "connect", "release", "logout"}

Has(q, k, c) == \E i \in DOMAIN q : q[i] = T(k, c)

\* A protocol's login and connect wait at most once, its login before its
\* release.
QueueOK(q) ==
  /\ q \in Seq(Task)
  /\ \A c \in Conn, i, j \in DOMAIN q :
       /\ q[i] = T("login", c) /\ q[j] = T("login", c) => i = j
       /\ q[i] = T("connect", c) /\ q[j] = T("connect", c) => i = j
       /\ q[i] = T("login", c) /\ q[j] = T("release", c) => i < j

\* What may wait for a protocol: a login only before anything else has happened
\* to it; a connect (or its event) once, while it has no player; a release only
\* when its connection is closed.
QueueInv(q) ==
  /\ QueueOK(q)
  /\ \A c \in Conn :
       /\ ~receivedFirst[c] \/ Has(q, "login", c) =>
            player[c] = None /\ life[c] = "none" /\ c \notin timer /\ ~Has(q, "connect", c)
       /\ Has(q, "login", c) => receivedFirst[c] /\ c \notin released
       /\ c \in timer \/ Has(q, "connect", c) => player[c] = None
       /\ c \in timer => ~Has(q, "connect", c)
       /\ Has(q, "release", c) \/ c \in released => connState[c] = "closed"

\* The inductive invariant, for the queue or for what a task leaves of it.
Inv(q) == TypeOK /\ OneSession /\ RefsExact /\ AutosendIsLive /\ QueueInv(q)

IInv == Inv(queue)

-----------------------------------------------------------------------------
(* What the operations on the queue do                                     *)

\* Tasks are equal when kind and connection are.
LEMMA TaskFields ==
  ASSUME NEW k \in Kinds, NEW c \in Conn
  PROVE  /\ T(k, c) \in Task
         /\ T(k, c).kind = k /\ T(k, c).conn = c
  BY DEF T, Task, Kinds

\* A task kind and a connection determine the task.
LEMMA TaskIs ==
  ASSUME NEW t \in Task
  PROVE  t.kind \in Kinds /\ t.conn \in Conn /\ t = T(t.kind, t.conn)
  BY DEF T, Task, Kinds

\* What is left when the first task is taken.
LEMMA TakeHead ==
  ASSUME NEW q, QueueOK(q), q # <<>>
  PROVE  /\ QueueOK(Tail(q))
         /\ Head(q) \in Task
         /\ \A k \in Kinds, c \in Conn : Has(Tail(q), k, c) => Has(q, k, c)
         /\ Has(q, Head(q).kind, Head(q).conn)
         /\ Head(q).kind \in {"login", "release"} => ~Has(Tail(q), "login", Head(q).conn)
         /\ Head(q).kind = "connect" => ~Has(Tail(q), "connect", Head(q).conn)
<1> DEFINE t == Head(q)  r == Tail(q)
<1>1. /\ q \in Seq(Task) /\ r \in Seq(Task) /\ t \in Task /\ t = q[1] /\ 1 \in DOMAIN q
      /\ \A i \in DOMAIN r : i \in Nat /\ i + 1 \in DOMAIN q /\ r[i] = q[i + 1] /\ i + 1 # 1 /\ i > 0
  BY DEF QueueOK
<1>2. t.kind \in Kinds /\ t.conn \in Conn /\ t = T(t.kind, t.conn)
  BY <1>1, TaskIs
<1>3. QueueOK(r)
  <2> SUFFICES ASSUME NEW c \in Conn, NEW i \in DOMAIN r, NEW j \in DOMAIN r
               PROVE  /\ r[i] = T("login", c) /\ r[j] = T("login", c) => i = j
                      /\ r[i] = T("connect", c) /\ r[j] = T("connect", c) => i = j
                      /\ r[i] = T("login", c) /\ r[j] = T("release", c) => i < j
    BY <1>1 DEF QueueOK
  <2>1. /\ q[i + 1] = T("login", c) /\ q[j + 1] = T("login", c) => i + 1 = j + 1
        /\ q[i + 1] = T("connect", c) /\ q[j + 1] = T("connect", c) => i + 1 = j + 1
        /\ q[i + 1] = T("login", c) /\ q[j + 1] = T("release", c) => i + 1 < j + 1
    BY <1>1 DEF QueueOK
  <2>2. i \in Nat /\ j \in Nat /\ r[i] = q[i + 1] /\ r[j] = q[j + 1]
    BY <1>1
  <2> HIDE DEF r
  <2> QED BY <2>1, <2>2
<1>4. \A k \in Kinds, c \in Conn : Has(r, k, c) => Has(q, k, c)
  BY <1>1 DEF Has
<1>5. Has(q, t.kind, t.conn)
  BY <1>1, <1>2 DEF Has
<1>6. t.kind \in {"login", "release"} => ~Has(r, "login", t.conn)
  <2> SUFFICES ASSUME t.kind \in {"login", "release"}, NEW i \in DOMAIN r, r[i] = T("login", t.conn)
               PROVE  FALSE
    BY DEF Has
  <2>1. q[i + 1] = T("login", t.conn) /\ i + 1 \in DOMAIN q /\ i \in Nat /\ i > 0
    BY <1>1
  <2>2. CASE t.kind = "login"
    <3>1. i + 1 = 1
      BY <1>1, <1>2, <2>1, <2>2 DEF QueueOK
    <3> QED BY <2>1, <3>1
  <2>3. CASE t.kind = "release"
    <3>1. i + 1 < 1
      BY <1>1, <1>2, <2>1, <2>3 DEF QueueOK
    <3> QED BY <2>1, <3>1
  <2> QED BY <2>2, <2>3
<1>7. t.kind = "connect" => ~Has(r, "connect", t.conn)
  <2> SUFFICES ASSUME t.kind = "connect", NEW i \in DOMAIN r, r[i] = T("connect", t.conn)
               PROVE  FALSE
    BY DEF Has
  <2>1. q[i + 1] = T("connect", t.conn) /\ i + 1 \in DOMAIN q /\ i \in Nat /\ i > 0
    BY <1>1
  <2>2. i + 1 = 1
    BY <1>1, <1>2, <2>1 DEF QueueOK
  <2> QED BY <2>1, <2>2
<1> QED BY <1>1, <1>3, <1>4, <1>5, <1>6, <1>7

\* A task is queued behind all others.
LEMMA QueueTask ==
  ASSUME NEW q, QueueOK(q), NEW k \in Kinds \ {"connect"}, NEW c \in Conn,
         k = "login" => ~Has(q, "login", c) /\ ~Has(q, "release", c)
  PROVE  /\ QueueOK(Append(q, T(k, c)))
         /\ \A l \in Kinds, d \in Conn :
              Has(Append(q, T(k, c)), l, d) => Has(q, l, d) \/ (l = k /\ d = c)
<1> DEFINE t == T(k, c)  r == Append(q, t)  n == Len(q) + 1
<1>1. t \in Task /\ t.kind = k /\ t.conn = c
  BY TaskFields
<1>2. /\ q \in Seq(Task) /\ r \in Seq(Task) /\ n \in DOMAIN r /\ r[n] = t
      /\ \A i \in DOMAIN r : i \in Nat /\ (i = n \/ (i \in DOMAIN q /\ r[i] = q[i] /\ i < n))
  BY <1>1 DEF QueueOK
<1> HIDE DEF t, r, n
<1>3. \A l \in Kinds, d \in Conn : t = T(l, d) => l = k /\ d = c
  BY <1>1, TaskFields
<1>4. QueueOK(r)
  <2> SUFFICES ASSUME NEW d \in Conn, NEW i \in DOMAIN r, NEW j \in DOMAIN r
               PROVE  /\ r[i] = T("login", d) /\ r[j] = T("login", d) => i = j
                      /\ r[i] = T("connect", d) /\ r[j] = T("connect", d) => i = j
                      /\ r[i] = T("login", d) /\ r[j] = T("release", d) => i < j
    BY <1>2 DEF QueueOK
  <2>1. CASE i # n /\ j # n
    BY <1>2, <2>1 DEF QueueOK
  <2>2. CASE i = n /\ j # n
    <3>1. j \in DOMAIN q /\ r[j] = q[j]
      BY <1>2, <2>2
    <3>2. t # T("connect", d) /\ (t = T("login", d) => k = "login" /\ d = c)
      BY <1>3 DEF Kinds
    <3> QED BY <1>2, <2>2, <3>1, <3>2 DEF Has
  <2>3. CASE i # n /\ j = n
    <3>1. i \in DOMAIN q /\ r[i] = q[i] /\ i < n
      BY <1>2, <2>3
    <3>2. t # T("connect", d) /\ (t = T("login", d) => k = "login" /\ d = c)
      BY <1>3 DEF Kinds
    <3> QED BY <1>2, <2>3, <3>1, <3>2 DEF Has
  <2>4. CASE i = n /\ j = n
    <3>1. ~(t = T("login", d) /\ t = T("release", d))
      BY <1>3 DEF Kinds
    <3> QED BY <1>2, <2>4, <3>1
  <2> QED BY <2>1, <2>2, <2>3, <2>4
<1>5. \A l \in Kinds, d \in Conn : Has(r, l, d) => Has(q, l, d) \/ (l = k /\ d = c)
  BY <1>2, <1>3 DEF Has
<1> QED BY <1>4, <1>5 DEF t, r

\* A connect that falls due goes in front of all others.
LEMMA QueueConnect ==
  ASSUME NEW q, QueueOK(q), NEW c \in Conn, ~Has(q, "connect", c)
  PROVE  LET r == <<T("connect", c)>> \o q
         IN  /\ QueueOK(r)
             /\ \A l \in Kinds, d \in Conn :
                  Has(r, l, d) => Has(q, l, d) \/ (l = "connect" /\ d = c)
<1> DEFINE t == T("connect", c)  r == <<t>> \o q
<1>1. t \in Task /\ t.kind = "connect" /\ t.conn = c
  BY TaskFields DEF Kinds
<1>2. /\ q \in Seq(Task) /\ r \in Seq(Task) /\ 1 \in DOMAIN r /\ r[1] = t
      /\ \A i \in DOMAIN r : i \in Nat /\ (i = 1 \/ (i - 1 \in DOMAIN q /\ r[i] = q[i - 1] /\ i > 1))
  BY <1>1 DEF QueueOK
<1> HIDE DEF t, r
<1>3. \A l \in Kinds, d \in Conn : t = T(l, d) => l = "connect" /\ d = c
  BY <1>1, TaskFields
<1>4. QueueOK(r)
  <2> SUFFICES ASSUME NEW d \in Conn, NEW i \in DOMAIN r, NEW j \in DOMAIN r
               PROVE  /\ r[i] = T("login", d) /\ r[j] = T("login", d) => i = j
                      /\ r[i] = T("connect", d) /\ r[j] = T("connect", d) => i = j
                      /\ r[i] = T("login", d) /\ r[j] = T("release", d) => i < j
    BY <1>2 DEF QueueOK
  <2>1. CASE i # 1 /\ j # 1
    <3>1. /\ i - 1 \in DOMAIN q /\ r[i] = q[i - 1] /\ i \in Nat
          /\ j - 1 \in DOMAIN q /\ r[j] = q[j - 1] /\ j \in Nat
      BY <1>2, <2>1
    <3>2. /\ r[i] = T("login", d) /\ r[j] = T("login", d) => i - 1 = j - 1
          /\ r[i] = T("connect", d) /\ r[j] = T("connect", d) => i - 1 = j - 1
          /\ r[i] = T("login", d) /\ r[j] = T("release", d) => i - 1 < j - 1
      BY <3>1 DEF QueueOK
    <3> QED BY <3>1, <3>2
  <2>2. CASE i = 1 \/ j = 1
    <3>1. t # T("login", d) /\ t # T("release", d) /\ (t = T("connect", d) => d = c)
      BY <1>3 DEF Kinds
    <3> QED BY <1>2, <2>2, <3>1 DEF Has
  <2> QED BY <2>1, <2>2
<1>5. \A l \in Kinds, d \in Conn : Has(r, l, d) => Has(q, l, d) \/ (l = "connect" /\ d = c)
  BY <1>2, <1>3 DEF Has
<1> QED BY <1>4, <1>5 DEF t, r

-----------------------------------------------------------------------------
(* What a step may do to the queue                                         *)

\* The queue of the next state has the tasks of b, and perhaps a logout, or a
\* release of a connection that is closed by then.
QueueFrom(b) ==
  /\ QueueOK(queue')
  /\ connState' \in [Conn -> {"none", "open", "closed"}]
  /\ \A d \in Conn : connState[d] = "closed" => connState'[d] = "closed"
  /\ \A k \in Kinds \ {"logout"}, d \in Conn :
       Has(queue', k, d) => Has(b, k, d) \/ (k = "release" /\ connState'[d] = "closed")

\* Nothing is queued.
LEMMA Quiet ==
  ASSUME TypeOK, NEW b, QueueOK(b), queue' = b, UNCHANGED connState
  PROVE  QueueFrom(b)
  BY DEF QueueFrom, TypeOK

\* Connection::close queues a release once.
LEMMA Closing ==
  ASSUME TypeOK, NEW c \in Conn, NEW b, QueueOK(b), CloseConnection(c, b)
  PROVE  QueueFrom(b)
<1>1. CASE connState[c] = "open"
  <2>1. queue' = Append(b, T("release", c)) /\ connState' = [connState EXCEPT ![c] = "closed"]
    BY <1>1 DEF CloseConnection
  <2>2. /\ QueueOK(queue')
        /\ \A l \in Kinds, d \in Conn :
             Has(queue', l, d) => Has(b, l, d) \/ (l = "release" /\ d = c)
    BY <2>1, QueueTask DEF Kinds
  <2> QED BY <2>1, <2>2 DEF QueueFrom, TypeOK
<1>2. CASE connState[c] # "open"
  <2>1. queue' = b /\ UNCHANGED connState
    BY <1>2 DEF CloseConnection
  <2> QED BY <2>1, Quiet
<1> QED BY <1>1, <1>2

\* So do the two ways in which a protocol disconnects.
LEMMA Disconnecting ==
  ASSUME TypeOK, NEW c \in Conn, NEW b, QueueOK(b),
         Disconnect(c, b) \/ DisconnectClient(c, b)
  PROVE  /\ QueueFrom(b)
         /\ reading' \in [Conn -> BOOLEAN] /\ sending' \in [Conn -> BOOLEAN]
<1>1. QueueFrom(b)
  BY Closing DEF Disconnect, DisconnectClient
<1>2. reading' \in [Conn -> BOOLEAN] /\ sending' \in [Conn -> BOOLEAN]
  BY DEF Disconnect, DisconnectClient, TypeOK
<1> QED BY <1>1, <1>2

\* A step that queues no login and no connect keeps the part of the invariant
\* about the queue when what it gives a protocol (a player, an event) comes
\* after the protocol's login and its connect were taken from the queue.
LEMMA QueueInvKept ==
  ASSUME NEW b, QueueInv(b), QueueFrom(b),
         \A c \in Conn :
           LET Begun == receivedFirst[c] /\ ~Has(b, "login", c)
               Idle  == Begun /\ ~Has(b, "connect", c)
           IN  /\ receivedFirst[c] => receivedFirst'[c]
               /\ player'[c] = None \/ player'[c] = player[c] \/ (Idle /\ c \notin timer')
               /\ life[c] = "none" => life'[c] = "none" \/ Begun
               /\ c \in timer' => c \in timer \/ (Idle /\ player'[c] = None)
               /\ c \in released' => c \in released
                                       \/ (~Has(b, "login", c) /\ connState'[c] = "closed")
  PROVE  QueueInv(queue)'
<1> SUFFICES ASSUME NEW c \in Conn
    PROVE  /\ ~receivedFirst'[c] \/ Has(queue', "login", c) =>
                player'[c] = None /\ life'[c] = "none" /\ c \notin timer'
                                  /\ ~Has(queue', "connect", c)
           /\ Has(queue', "login", c) => receivedFirst'[c] /\ c \notin released'
           /\ c \in timer' \/ Has(queue', "connect", c) => player'[c] = None
           /\ c \in timer' => ~Has(queue', "connect", c)
           /\ Has(queue', "release", c) \/ c \in released' => connState'[c] = "closed"
  BY DEF QueueInv, QueueFrom, Has, QueueOK
<1>1. /\ Has(queue', "login", c) => Has(b, "login", c)
      /\ Has(queue', "connect", c) => Has(b, "connect", c)
      /\ Has(queue', "release", c) => Has(b, "release", c) \/ connState'[c] = "closed"
      /\ connState[c] = "closed" => connState'[c] = "closed"
  BY DEF QueueFrom, Kinds
<1>2. /\ ~receivedFirst[c] \/ Has(b, "login", c) =>
           player[c] = None /\ life[c] = "none" /\ c \notin timer /\ ~Has(b, "connect", c)
      /\ Has(b, "login", c) => receivedFirst[c] /\ c \notin released
      /\ c \in timer \/ Has(b, "connect", c) => player[c] = None
      /\ c \in timer => ~Has(b, "connect", c)
      /\ Has(b, "release", c) \/ c \in released => connState[c] = "closed"
  BY DEF QueueInv
<1> QED BY <1>1, <1>2

\* What is known when the dispatcher takes a task.
LEMMA Taken ==
  ASSUME Inv(queue), queue # <<>>
  PROVE  LET c == Head(queue).conn
             b == Tail(queue)
         IN  /\ Inv(b) /\ c \in Conn
             /\ Head(queue).kind \in {"login", "connect"} =>
                  /\ receivedFirst[c] /\ player[c] = None
                  /\ ~Has(b, "login", c) /\ ~Has(b, "connect", c) /\ c \notin timer
             /\ Head(queue).kind = "login" => life[c] = "none" /\ c \notin released
             /\ Head(queue).kind = "release" => connState[c] = "closed" /\ ~Has(b, "login", c)
<1> DEFINE t == Head(queue)  c == t.conn  b == Tail(queue)
<1>1. QueueOK(queue) /\ QueueInv(queue)
  BY DEF Inv, QueueInv
<1>2. /\ QueueOK(b)
      /\ t \in Task
      /\ \A k \in Kinds, d \in Conn : Has(b, k, d) => Has(queue, k, d)
      /\ Has(queue, t.kind, c)
      /\ t.kind \in {"login", "release"} => ~Has(b, "login", c)
      /\ t.kind = "connect" => ~Has(b, "connect", c)
  BY <1>1, TakeHead
<1> HIDE DEF t, b
<1>3. t.kind \in Kinds /\ c \in Conn
  BY <1>2, TaskIs
<1>4. QueueInv(b)
  BY <1>1, <1>2 DEF QueueInv, Kinds
<1>5. t.kind = "login" => /\ receivedFirst[c] /\ player[c] = None /\ life[c] = "none"
                          /\ c \notin released /\ c \notin timer
                          /\ ~Has(b, "login", c) /\ ~Has(b, "connect", c)
  BY <1>1, <1>2, <1>3 DEF QueueInv, Kinds
<1>6. t.kind = "connect" => /\ receivedFirst[c] /\ player[c] = None /\ c \notin timer
                            /\ ~Has(b, "login", c) /\ ~Has(b, "connect", c)
  BY <1>1, <1>2, <1>3 DEF QueueInv, Kinds
<1>7. t.kind = "release" => connState[c] = "closed" /\ ~Has(b, "login", c)
  BY <1>1, <1>2, <1>3 DEF QueueInv
<1>8. Inv(b)
  BY <1>4 DEF Inv
<1> QED BY <1>3, <1>5, <1>6, <1>7, <1>8 DEF t, b

-----------------------------------------------------------------------------
(* The steps of the network thread                                         *)

\* They leave protocols and players alone.
LEMMA NetworkStep ==
  ASSUME IInv, NEW c \in Conn, Network(c)
  PROVE  IInv'
<1>1. TypeOK /\ QueueOK(queue) /\ QueueInv(queue)
  BY DEF IInv, Inv, QueueInv
<1>2. UNCHANGED <<timer, proto, obj>>
  BY DEF Network, Accept, RecvLogin, RecvRefused, RecvLogout, RecvQuit, RateLimited, Fail,
         ReaderEnds, Send, WriteEnds
<1>3. OneSession' /\ RefsExact' /\ AutosendIsLive'
  BY <1>2 DEF IInv, Inv, OneSession, RefsExact, AutosendIsLive, proto, obj
<1>4. /\ reading' \in [Conn -> BOOLEAN] /\ sending' \in [Conn -> BOOLEAN]
      /\ receivedFirst' \in [Conn -> BOOLEAN]
      /\ \A d \in Conn : receivedFirst[d] => receivedFirst'[d]
  BY <1>1 DEF Network, Accept, RecvLogin, RecvRefused, RecvLogout, RecvQuit, RateLimited, Fail,
         ReaderEnds, Send, WriteEnds, Disconnect, DisconnectClient, TypeOK, net
<1>5. CASE RecvLogin(c)
  <2>1. /\ connState[c] = "open" /\ ~receivedFirst[c]
        /\ receivedFirst' = [receivedFirst EXCEPT ![c] = TRUE]
        /\ queue' = Append(queue, T("login", c)) /\ UNCHANGED <<connState, timer, proto, obj>>
    BY <1>5 DEF RecvLogin, CanReceive, net
  <2>2. /\ ~Has(queue, "login", c) /\ ~Has(queue, "release", c) /\ c \notin released
        /\ player[c] = None /\ life[c] = "none" /\ c \notin timer /\ ~Has(queue, "connect", c)
    BY <1>1, <2>1 DEF QueueInv
  <2>3. /\ QueueOK(queue')
        /\ \A l \in Kinds, d \in Conn :
             Has(queue', l, d) => Has(queue, l, d) \/ (l = "login" /\ d = c)
    BY <1>1, <2>1, <2>2, QueueTask DEF Kinds
  <2>4. SUFFICES ASSUME NEW d \in Conn
        PROVE  /\ ~receivedFirst'[d] \/ Has(queue', "login", d) =>
                    player[d] = None /\ life[d] = "none" /\ d \notin timer
                                     /\ ~Has(queue', "connect", d)
               /\ Has(queue', "login", d) => receivedFirst'[d] /\ d \notin released
               /\ d \in timer \/ Has(queue', "connect", d) => player[d] = None
               /\ d \in timer => ~Has(queue', "connect", d)
               /\ Has(queue', "release", d) \/ d \in released => connState[d] = "closed"
    <3>1. QueueInv(queue)'
      BY <2>1, <2>3, <2>4 DEF QueueInv, QueueOK, Has, proto, obj
    <3>2. TypeOK'
      BY <1>1, <1>4, <2>1, <2>3 DEF TypeOK, QueueOK, proto, obj
    <3> QED BY <1>3, <3>1, <3>2 DEF IInv, Inv
  <2>5. /\ Has(queue', "login", d) => Has(queue, "login", d) \/ d = c
        /\ Has(queue', "connect", d) => Has(queue, "connect", d)
        /\ Has(queue', "release", d) => Has(queue, "release", d)
        /\ receivedFirst'[d] = (d = c \/ receivedFirst[d])
    BY <1>1, <2>1, <2>3 DEF Kinds, TypeOK
  <2> QED BY <1>1, <2>2, <2>5 DEF QueueInv
<1>6. CASE ~RecvLogin(c)
  <2>1. QueueFrom(queue)
    <3>1. CASE Accept(c)
      <4>1. queue' = queue /\ connState[c] = "none"
            /\ connState' = [connState EXCEPT ![c] = "open"]
        BY <3>1 DEF Accept
      <4> QED BY <1>1, <4>1 DEF QueueFrom, TypeOK
    <3>2. CASE RecvRefused(c)
      BY <1>1, <3>2, Disconnecting DEF RecvRefused
    <3>3. CASE RecvLogout(c)
      <4>1. queue' = Append(queue, T("logout", c)) /\ UNCHANGED connState
        BY <3>3 DEF RecvLogout, net
      <4>2. /\ QueueOK(queue')
            /\ \A l \in Kinds, d \in Conn :
                 Has(queue', l, d) => Has(queue, l, d) \/ (l = "logout" /\ d = c)
        BY <1>1, <4>1, QueueTask DEF Kinds
      <4> QED BY <1>1, <4>1, <4>2 DEF QueueFrom, TypeOK, Kinds
    <3>4. CASE RecvQuit(c)
      BY <1>1, <3>4, Disconnecting DEF RecvQuit
    <3>5. CASE RateLimited(c) \/ ReaderEnds(c) \/ Send(c)
      <4>1. queue' = queue /\ UNCHANGED connState
        BY <3>5 DEF RateLimited, ReaderEnds, Send
      <4> QED BY <1>1, <4>1, Quiet
    <3>6. CASE Fail(c)
      BY <1>1, <3>6, Closing DEF Fail
    <3>7. CASE WriteEnds(c)
      <4>1. (queue' = queue /\ UNCHANGED connState) \/ CloseConnection(c, queue)
        BY <3>7 DEF WriteEnds
      <4> QED BY <1>1, <4>1, Quiet, Closing
    <3> QED BY <1>6, <3>1, <3>2, <3>3, <3>4, <3>5, <3>6, <3>7 DEF Network
  <2>2. QueueInv(queue)'
    <3>1. /\ player' = player /\ life' = life /\ timer' = timer /\ released' = released
      BY <1>2 DEF proto, obj
    <3> QED BY <1>1, <1>4, <2>1, <3>1, QueueInvKept
  <2>3. TypeOK'
    BY <1>1, <1>2, <1>4, <2>1 DEF TypeOK, QueueFrom, QueueOK, proto, obj
  <2> QED BY <1>3, <2>2, <2>3 DEF IInv, Inv
<1> QED BY <1>5, <1>6

-----------------------------------------------------------------------------
(* The steps of the dispatcher thread                                      *)

\* Game::removeCreature trades the reference of the world for one of
\* ToReleaseCreatures.
LEMMA Removing ==
  ASSUME TypeOK, RefsExact, NEW o \in Conn, RemoveCreature(o),
         UNCHANGED <<client, refs, inCheck>>
  PROVE  /\ life' \in [Conn -> Lives] /\ toRelease' \in [Conn -> Nat]
         /\ RefsExact'
         /\ \A d \in Conn : life[d] = "none" => life'[d] = "none"
<1>1. CASE life[o] = "online"
  <2>1. /\ life' = [life EXCEPT ![o] = "removed"]
        /\ toRelease' = [toRelease EXCEPT ![o] = @ + 1]
    BY <1>1 DEF RemoveCreature
  <2>2. life' \in [Conn -> Lives] /\ toRelease' \in [Conn -> Nat]
    BY <2>1 DEF TypeOK, Lives
  <2>3. ASSUME NEW d \in Conn
        PROVE  /\ refs'[d] = One(client'[d] # None) + One(life'[d] = "online")
                               + One(inCheck'[d]) + toRelease'[d]
               /\ life'[d] \in {"none", "deleted"} <=> refs'[d] = 0
    <3>1. CASE d = o
      BY <1>1, <2>1, <3>1 DEF TypeOK, RefsExact, One
    <3>2. CASE d # o
      BY <2>1, <3>2 DEF TypeOK, RefsExact
    <3> QED BY <3>1, <3>2
  <2> QED BY <1>1, <2>1, <2>2, <2>3 DEF TypeOK, RefsExact
<1>2. CASE life[o] # "online"
  BY <1>2 DEF RemoveCreature, TypeOK, RefsExact
<1> QED BY <1>1, <1>2

\* ... also when the client of the player is disconnected.
LEMMA ForcedOut ==
  ASSUME NEW b, Inv(b), NEW c \in Conn, player[c] \in Conn, ForcedLogout(c, b),
         UNCHANGED receivedFirst
  PROVE  IInv'
<1>1. TypeOK /\ RefsExact /\ QueueInv(b) /\ QueueOK(b)
  BY DEF Inv, QueueInv
<1>2. Disconnect(c, b) /\ RemoveCreature(player[c])
      /\ UNCHANGED <<timer, proto, client, refs, inCheck, isConnecting>>
  BY DEF ForcedLogout
<1>3. QueueFrom(b) /\ reading' \in [Conn -> BOOLEAN] /\ sending' \in [Conn -> BOOLEAN]
  BY <1>1, <1>2, Disconnecting
<1>4. /\ life' \in [Conn -> Lives] /\ toRelease' \in [Conn -> Nat] /\ RefsExact'
      /\ \A d \in Conn : life[d] = "none" => life'[d] = "none"
  BY <1>1, <1>2, Removing
<1>5. QueueInv(queue)'
  BY <1>1, <1>2, <1>3, <1>4, QueueInvKept DEF proto
<1>6. TypeOK'
  BY <1>1, <1>2, <1>3, <1>4 DEF TypeOK, QueueFrom, QueueOK, proto
<1>7. OneSession' /\ AutosendIsLive'
  BY <1>2 DEF Inv, OneSession, AutosendIsLive, proto
<1> QED BY <1>4, <1>5, <1>6, <1>7 DEF IInv, Inv

\* A client that is kicked or does not answer leaves; so does a player that
\* has none.
LEMMA LeaveStep ==
  ASSUME IInv, NEW o \in Conn, Leave(o), UNCHANGED receivedFirst
  PROVE  IInv'
<1>1. TypeOK /\ OneSession /\ RefsExact /\ QueueInv(queue) /\ QueueOK(queue) /\ Inv(queue)
  BY DEF IInv, Inv, QueueInv
<1>2. CASE client[o] # None
  <2>1. client[o] \in Conn /\ player[client[o]] = o /\ ForcedLogout(client[o], queue)
    BY <1>1, <1>2 DEF TypeOK, OneSession, Leave
  <2> QED BY <1>1, <2>1, ForcedOut
<1>3. CASE client[o] = None
  <2>1. RemoveCreature(o)
        /\ UNCHANGED <<net, queue, timer, proto, client, refs, inCheck, isConnecting>>
    BY <1>3 DEF Leave
  <2>2. /\ life' \in [Conn -> Lives] /\ toRelease' \in [Conn -> Nat] /\ RefsExact'
        /\ \A d \in Conn : life[d] = "none" => life'[d] = "none"
    BY <1>1, <2>1, Removing
  <2>3. QueueFrom(queue)
    BY <1>1, <2>1, Quiet DEF net
  <2>4. QueueInv(queue)'
    BY <1>1, <2>1, <2>2, <2>3, QueueInvKept DEF proto
  <2>5. TypeOK'
    BY <1>1, <2>1, <2>2 DEF TypeOK, proto, net
  <2>6. OneSession' /\ AutosendIsLive'
    BY <2>1 DEF IInv, Inv, OneSession, AutosendIsLive, proto
  <2> QED BY <2>2, <2>4, <2>5, <2>6 DEF IInv, Inv
<1> QED BY <1>2, <1>3

\* A creature that dies is removed.
LEMMA DeathStep ==
  ASSUME IInv, NEW o \in Conn, Death(o)
  PROVE  IInv'
<1>1. TypeOK /\ RefsExact /\ QueueInv(queue) /\ QueueOK(queue)
  BY DEF IInv, Inv, QueueInv
<1>2. RemoveCreature(o)
      /\ UNCHANGED <<net, receivedFirst, queue, timer, proto, client, refs, inCheck, isConnecting>>
  BY DEF Death
<1>3. /\ life' \in [Conn -> Lives] /\ toRelease' \in [Conn -> Nat] /\ RefsExact'
      /\ \A d \in Conn : life[d] = "none" => life'[d] = "none"
  BY <1>1, <1>2, Removing
<1>4. QueueFrom(queue)
  BY <1>1, <1>2, Quiet DEF net
<1>5. QueueInv(queue)'
  BY <1>1, <1>2, <1>3, <1>4, QueueInvKept DEF proto
<1>6. TypeOK'
  BY <1>1, <1>2, <1>3 DEF TypeOK, proto, net
<1>7. OneSession' /\ AutosendIsLive'
  BY <1>2 DEF IInv, Inv, OneSession, AutosendIsLive, proto
<1> QED BY <1>3, <1>5, <1>6, <1>7 DEF IInv, Inv

\* checkCreatures and cleanup take back as many references as there are
\* entries in the lists they empty.
LEMMA CheckStep ==
  ASSUME IInv, NEW S \in SUBSET Stale, CheckCreatures(S)
  PROVE  IInv'
<1>1. TypeOK /\ RefsExact /\ QueueInv(queue) /\ QueueOK(queue)
  BY DEF IInv, Inv, QueueInv
<1>2. /\ inCheck' = [o \in Conn |-> inCheck[o] /\ o \notin S]
      /\ refs' = [o \in Conn |-> refs[o] - Purged(S, o)]
      /\ life' = [o \in Conn |-> IF refs[o] # 0 /\ refs[o] = Purged(S, o)
                                   THEN "deleted" ELSE life[o]]
      /\ toRelease' = [o \in Conn |-> 0]
      /\ UNCHANGED <<net, receivedFirst, queue, timer, proto, client, isConnecting>>
  BY DEF CheckCreatures
<1>3. ASSUME NEW o \in Conn
      PROVE  /\ refs'[o] \in Nat /\ life'[o] \in Lives
             /\ refs'[o] = One(client'[o] # None) + One(life'[o] = "online")
                             + One(inCheck'[o]) + toRelease'[o]
             /\ life'[o] \in {"none", "deleted"} <=> refs'[o] = 0
             /\ life[o] = "none" => life'[o] = "none"
  <2>1. /\ refs[o] \in Nat /\ toRelease[o] \in Nat /\ inCheck[o] \in BOOLEAN
        /\ life[o] \in Lives
        /\ refs[o] = One(client[o] # None) + One(life[o] = "online") + One(inCheck[o])
                       + toRelease[o]
        /\ life[o] \in {"none", "deleted"} <=> refs[o] = 0
    BY <1>1 DEF TypeOK, RefsExact
  <2>2. /\ refs'[o] = refs[o] - Purged(S, o)
        /\ life'[o] = IF refs[o] # 0 /\ refs[o] = Purged(S, o) THEN "deleted" ELSE life[o]
        /\ toRelease'[o] = 0 /\ client'[o] = client[o]
    BY <1>2
  <2>3. CASE o \in S
    <3>1. /\ inCheck[o] = TRUE /\ life[o] = "removed" /\ Purged(S, o) = toRelease[o] + 1
          /\ inCheck'[o] = FALSE
      BY <1>2, <2>1, <2>3 DEF Stale, Purged
    <3> QED BY <2>1, <2>2, <3>1 DEF One, Lives
  <2>4. CASE o \notin S
    <3>1. Purged(S, o) = toRelease[o] /\ inCheck'[o] = inCheck[o]
      BY <1>2, <2>1, <2>4 DEF Purged
    <3> QED BY <2>1, <2>2, <3>1 DEF One, Lives
  <2> QED BY <2>3, <2>4
<1>4. RefsExact'
  BY <1>3 DEF RefsExact
<1>5. TypeOK'
  BY <1>1, <1>2, <1>3 DEF TypeOK, proto, net
<1>6. QueueFrom(queue)
  BY <1>1, <1>2, Quiet DEF net
<1>7. QueueInv(queue)'
  <2>1. player' = player /\ timer' = timer /\ released' = released
        /\ receivedFirst' = receivedFirst
    BY <1>2 DEF proto
  <2> QED BY <1>1, <1>3, <1>6, <2>1, QueueInvKept
<1>8. OneSession' /\ AutosendIsLive'
  BY <1>2 DEF IInv, Inv, OneSession, AutosendIsLive, proto
<1> QED BY <1>4, <1>5, <1>7, <1>8 DEF IInv, Inv

\* ProtocolGame::connect gives a protocol that has no player one that has no
\* client.
LEMMA Connecting ==
  ASSUME NEW b, Inv(b), NEW c \in Conn, NEW o, Connect(c, o, b),
         receivedFirst[c], player[c] = None, c \notin timer,
         ~Has(b, "login", c), ~Has(b, "connect", c),
         autosend' \in SUBSET Conn, AutosendIsLive',
         UNCHANGED <<receivedFirst, timer, released, life, inCheck, toRelease>>
  PROVE  IInv'
<1>1. TypeOK /\ OneSession /\ RefsExact /\ QueueInv(b) /\ QueueOK(b)
  BY DEF Inv, QueueInv
<1>2. eventConnect' = [eventConnect EXCEPT ![c] = None]
  BY DEF Connect
<1>3. CASE UNCHANGED <<player, client, refs, isConnecting, acceptPackets>>
  <2>1. QueueFrom(b) /\ reading' \in [Conn -> BOOLEAN] /\ sending' \in [Conn -> BOOLEAN]
    <3>1. DisconnectClient(c, b) \/ (queue' = b /\ UNCHANGED net)
      BY DEF Connect
    <3>2. CASE DisconnectClient(c, b)
      BY <1>1, <3>2, Disconnecting
    <3>3. CASE queue' = b /\ UNCHANGED net
      <4>1. UNCHANGED <<connState, reading, sending>>
        BY <3>3 DEF net
      <4> QED BY <1>1, <3>3, <4>1, Quiet DEF TypeOK
    <3> QED BY <3>1, <3>2, <3>3
  <2>2. QueueInv(queue)'
    BY <1>1, <1>3, <2>1, QueueInvKept
  <2>3. TypeOK'
    BY <1>1, <1>2, <1>3, <2>1 DEF TypeOK, QueueFrom, QueueOK
  <2>4. OneSession' /\ RefsExact'
    BY <1>1, <1>3 DEF OneSession, RefsExact
  <2> QED BY <2>2, <2>3, <2>4 DEF IInv, Inv
<1>4. CASE /\ o \in Online /\ client[o] = None
           /\ queue' = b /\ UNCHANGED net
           /\ player' = [player EXCEPT ![c] = o]
           /\ client' = [client EXCEPT ![o] = c]
           /\ refs' = [refs EXCEPT ![o] = @ + 1]
           /\ isConnecting' = [isConnecting EXCEPT ![o] = FALSE]
           /\ acceptPackets' = [acceptPackets EXCEPT ![c] = TRUE]
  <2>1. o \in Conn /\ life[o] = "online" /\ c # None /\ o # None
    BY <1>4, GameSessionAssumption DEF Online
  <2>2. QueueFrom(b)
    BY <1>1, <1>4, Quiet DEF net
  <2>3. QueueInv(queue)'
    <3>1. ASSUME NEW d \in Conn
          PROVE  player'[d] = player[d] \/ d = c
      BY <1>1, <1>4 DEF TypeOK
    <3> QED BY <1>1, <2>2, <3>1, QueueInvKept
  <2>4. TypeOK'
    BY <1>1, <1>2, <1>4, <2>1, <2>2 DEF TypeOK, QueueFrom, QueueOK, net
  <2>5. OneSession'
    <3> SUFFICES ASSUME NEW d \in Conn, NEW e \in Conn
                 PROVE  player'[d] = e <=> client'[e] = d
      BY DEF OneSession
    <3>1. /\ player'[d] = IF d = c THEN o ELSE player[d]
          /\ client'[e] = IF e = o THEN c ELSE client[e]
      BY <1>1, <1>4 DEF TypeOK
    <3>2. /\ player[d] = e <=> client[e] = d
          /\ player[d] # o /\ client[e] # c
      BY <1>1, <1>4, <2>1, GameSessionAssumption DEF OneSession
    <3> QED BY <3>1, <3>2
  <2>6. RefsExact'
    <3> SUFFICES ASSUME NEW d \in Conn
        PROVE  /\ refs'[d] = One(client'[d] # None) + One(life[d] = "online")
                               + One(inCheck[d]) + toRelease[d]
               /\ life[d] \in {"none", "deleted"} <=> refs'[d] = 0
      BY DEF RefsExact
    <3>1. CASE d = o
      BY <1>1, <1>4, <2>1, <3>1 DEF TypeOK, RefsExact, One
    <3>2. CASE d # o
      BY <1>1, <1>4, <3>2 DEF TypeOK, RefsExact
    <3> QED BY <3>1, <3>2
  <2> QED BY <2>3, <2>4, <2>5, <2>6 DEF IInv, Inv
<1> QED BY <1>3, <1>4 DEF Connect

\* A login makes a Player, if the protocol is new and so is the Player.
LEMMA LoginMakes ==
  ASSUME NEW b, Inv(b), NEW c \in Conn, LoginRejected(c, b) \/ LoginPlaced(c, b),
         receivedFirst[c], player[c] = None, life[c] = "none", c \notin timer,
         c \notin released, ~Has(b, "login", c), ~Has(b, "connect", c),
         UNCHANGED receivedFirst
  PROVE  IInv'
<1>1. TypeOK /\ OneSession /\ RefsExact /\ QueueInv(b) /\ QueueOK(b) /\ AutosendIsLive
  BY DEF Inv, QueueInv
<1>2. /\ client[c] = None /\ refs[c] = 0 /\ inCheck[c] = FALSE /\ toRelease[c] = 0
      /\ c # None
  <2>1. /\ refs[c] = 0 /\ toRelease[c] \in Nat /\ inCheck[c] \in BOOLEAN
        /\ refs[c] = One(client[c] # None) + One(life[c] = "online") + One(inCheck[c])
                       + toRelease[c]
    BY <1>1 DEF TypeOK, RefsExact
  <2> QED BY <2>1, GameSessionAssumption DEF One
<1>3. /\ player' = [player EXCEPT ![c] = c] /\ client' = [client EXCEPT ![c] = c]
      /\ UNCHANGED <<timer, eventConnect, released, toRelease, isConnecting>>
  BY DEF LoginRejected, LoginPlaced
<1>4. \/ /\ refs' = [refs EXCEPT ![c] = 1] /\ life' = [life EXCEPT ![c] = "loading"]
         /\ UNCHANGED <<inCheck, acceptPackets, autosend>>
      \/ /\ refs' = [refs EXCEPT ![c] = 3] /\ life' = [life EXCEPT ![c] = "online"]
         /\ inCheck' = [inCheck EXCEPT ![c] = TRUE]
         /\ acceptPackets' = [acceptPackets EXCEPT ![c] = TRUE]
         /\ autosend' = autosend \cup {c}
  BY DEF LoginRejected, LoginPlaced
<1>5. QueueFrom(b) /\ reading' \in [Conn -> BOOLEAN] /\ sending' \in [Conn -> BOOLEAN]
  <2>1. DisconnectClient(c, b) \/ (queue' = b /\ UNCHANGED <<connState, reading, sending>>)
    BY DEF LoginRejected, LoginPlaced, net
  <2> QED BY <1>1, <2>1, Disconnecting, Quiet DEF TypeOK
<1>6. QueueInv(queue)'
  <2>1. ASSUME NEW d \in Conn, d # c
        PROVE  player'[d] = player[d] /\ life'[d] = life[d]
    BY <1>1, <1>3, <1>4, <2>1 DEF TypeOK
  <2> QED BY <1>1, <1>3, <1>5, <2>1, QueueInvKept
<1>7. TypeOK'
  <2>1. player' \in [Conn -> Conn \cup {None}] /\ client' \in [Conn -> Conn \cup {None}]
    BY <1>1, <1>3 DEF TypeOK
  <2>2. refs' \in [Conn -> Nat] /\ life' \in [Conn -> Lives] /\ inCheck' \in [Conn -> BOOLEAN]
    <3>1. refs' \in [Conn -> Nat]
      BY <1>1, <1>4 DEF TypeOK
    <3>2. life' \in [Conn -> Lives]
      <4>1. \E l \in Lives : life' = [life EXCEPT ![c] = l]
        BY <1>4 DEF Lives
      <4> QED BY <1>1, <4>1 DEF TypeOK
    <3>3. inCheck' \in [Conn -> BOOLEAN]
      BY <1>1, <1>4 DEF TypeOK
    <3> QED BY <3>1, <3>2, <3>3
  <2>3. acceptPackets' \in [Conn -> BOOLEAN] /\ autosend' \in SUBSET Conn
    BY <1>1, <1>4 DEF TypeOK
  <2> QED BY <1>1, <1>3, <1>5, <2>1, <2>2, <2>3 DEF TypeOK, QueueFrom, QueueOK
<1>8. OneSession' /\ AutosendIsLive'
  <2>1. OneSession'
    <3> SUFFICES ASSUME NEW d \in Conn, NEW e \in Conn
                 PROVE  player'[d] = e <=> client'[e] = d
      BY DEF OneSession
    <3>1. /\ player'[d] = IF d = c THEN c ELSE player[d]
          /\ client'[e] = IF e = c THEN c ELSE client[e]
      BY <1>1, <1>3 DEF TypeOK
    <3>2. /\ player[d] = e <=> client[e] = d
          /\ player[d] # c /\ client[e] # c
      BY <1>1, <1>2, GameSessionAssumption DEF OneSession
    <3> QED BY <3>1, <3>2
  <2>2. AutosendIsLive'
    BY <1>1, <1>3, <1>4 DEF AutosendIsLive
  <2> QED BY <2>1, <2>2
<1>9. RefsExact'
  <2> SUFFICES ASSUME NEW d \in Conn
      PROVE  /\ refs'[d] = One(client'[d] # None) + One(life'[d] = "online")
                             + One(inCheck'[d]) + toRelease'[d]
             /\ life'[d] \in {"none", "deleted"} <=> refs'[d] = 0
    BY DEF RefsExact
  <2>1. CASE d = c
    BY <1>1, <1>2, <1>3, <1>4, <2>1 DEF TypeOK, One
  <2>2. CASE d # c
    BY <1>1, <1>3, <1>4, <2>2 DEF TypeOK, RefsExact
  <2> QED BY <2>1, <2>2
<1> QED BY <1>6, <1>7, <1>8, <1>9 DEF IInv, Inv

\* A login finds the character online, and is refused or disconnects its client.
LEMMA LoginFinds ==
  ASSUME NEW b, Inv(b), NEW c \in Conn, LoginTwice(c, b) \/ LoginReplaces(c, b),
         receivedFirst[c], player[c] = None, c \notin timer,
         c \notin released, ~Has(b, "login", c), ~Has(b, "connect", c),
         UNCHANGED receivedFirst
  PROVE  IInv'
<1>1. TypeOK /\ OneSession /\ RefsExact /\ QueueInv(b) /\ QueueOK(b) /\ AutosendIsLive
  BY DEF Inv, QueueInv
<1>2. UNCHANGED <<player, acceptPackets, released, client, refs, life, inCheck, toRelease>>
  BY DEF LoginTwice, LoginReplaces, proto, obj
<1>3. /\ timer' \in {timer, timer \cup {c}} /\ autosend' \in {autosend, autosend \cup {c}}
      /\ eventConnect' \in [Conn -> Conn \cup {None}]
      /\ isConnecting' \in [Conn -> BOOLEAN]
  <2>1. CASE LoginTwice(c, b)
    BY <1>1, <2>1 DEF LoginTwice, proto, obj, TypeOK
  <2>2. CASE LoginReplaces(c, b)
    <3>1. PICK o \in Online :
            /\ isConnecting' = [isConnecting EXCEPT ![o] = TRUE]
            /\ eventConnect' = [eventConnect EXCEPT ![c] = o]
            /\ timer' = timer \cup {c} /\ autosend' = autosend \cup {c}
      BY <2>2 DEF LoginReplaces
    <3>2. o \in Conn
      BY DEF Online
    <3> QED BY <1>1, <3>1, <3>2 DEF TypeOK
  <2> QED BY <2>1, <2>2
<1>4. QueueFrom(b) /\ reading' \in [Conn -> BOOLEAN] /\ sending' \in [Conn -> BOOLEAN]
  <2>1. CASE LoginTwice(c, b)
    BY <1>1, <2>1, Disconnecting DEF LoginTwice
  <2>2. CASE LoginReplaces(c, b)
    <3>1. PICK o \in Online : client[o] # None /\ Disconnect(client[o], b)
      BY <2>2 DEF LoginReplaces
    <3>2. client[o] \in Conn
      BY <1>1, <3>1 DEF TypeOK, Online
    <3> QED BY <1>1, <3>1, <3>2, Disconnecting
  <2> QED BY <2>1, <2>2
<1>5. QueueInv(queue)'
  BY <1>1, <1>2, <1>3, <1>4, QueueInvKept
<1>6. TypeOK'
  BY <1>1, <1>2, <1>3, <1>4 DEF TypeOK, QueueFrom, QueueOK
<1>7. OneSession' /\ RefsExact' /\ AutosendIsLive'
  BY <1>1, <1>2, <1>3 DEF OneSession, RefsExact, AutosendIsLive
<1> QED BY <1>5, <1>6, <1>7 DEF IInv, Inv

\* ProtocolGame::release drops the reference of its player, if it is its own.
LEMMA Releasing ==
  ASSUME NEW b, Inv(b), NEW c \in Conn, Release(c, b),
         connState[c] = "closed", ~Has(b, "login", c), UNCHANGED receivedFirst
  PROVE  IInv'
<1>1. TypeOK /\ OneSession /\ RefsExact /\ QueueInv(b) /\ QueueOK(b) /\ AutosendIsLive
  BY DEF Inv, QueueInv
<1>2. /\ autosend' = autosend \ {c} /\ released' = released \cup {c} /\ queue' = b
      /\ UNCHANGED <<net, timer, eventConnect, acceptPackets, inCheck, toRelease, isConnecting>>
  BY DEF Release
<1>3. QueueFrom(b) /\ UNCHANGED <<connState, reading, sending>>
  BY <1>1, <1>2, Quiet DEF net
<1>4. AutosendIsLive' /\ autosend' \in SUBSET Conn /\ released' \in SUBSET Conn
  BY <1>1, <1>2 DEF AutosendIsLive, TypeOK
<1>5. CASE OwnsPlayer(c)
  <2>1. PICK o \in Conn : o = player[c] /\ client[o] = c
    BY <1>1, <1>5 DEF OwnsPlayer, TypeOK
  <2>2. /\ client' = [client EXCEPT ![o] = None] /\ player' = [player EXCEPT ![c] = None]
        /\ refs' = [refs EXCEPT ![o] = @ - 1]
        /\ life' = [life EXCEPT ![o] = IF refs[o] = 1 THEN "deleted" ELSE @]
    BY <1>5, <2>1 DEF Release, Decrement
  <2>3. c # None /\ o # None
    BY GameSessionAssumption
  <2>4. /\ refs[o] \in Nat /\ refs[o] # 0 /\ life[o] \notin {"none", "deleted"}
        /\ refs[o] = 1 => life[o] # "online" /\ inCheck[o] = FALSE /\ toRelease[o] = 0
    BY <1>1, <2>1, <2>3 DEF TypeOK, RefsExact, One
  <2>5. refs' \in [Conn -> Nat] /\ life' \in [Conn -> Lives]
    BY <1>1, <2>2, <2>4 DEF TypeOK, Lives
  <2>6. TypeOK'
    BY <1>1, <1>2, <1>3, <1>4, <2>2, <2>5 DEF TypeOK, QueueFrom, QueueOK
  <2>7. OneSession'
    <3> SUFFICES ASSUME NEW d \in Conn, NEW e \in Conn
                 PROVE  player'[d] = e <=> client'[e] = d
      BY DEF OneSession
    <3>1. /\ player'[d] = IF d = c THEN None ELSE player[d]
          /\ client'[e] = IF e = o THEN None ELSE client[e]
      BY <1>1, <2>2 DEF TypeOK
    <3>2. /\ player[d] = e <=> client[e] = d
          /\ player[d] = o <=> d = c
          /\ d # None /\ e # None
      BY <1>1, <2>1, GameSessionAssumption DEF OneSession
    <3> QED BY <2>1, <3>1, <3>2
  <2>8. ASSUME NEW d \in Conn
        PROVE  /\ refs'[d] = One(client'[d] # None) + One(life'[d] = "online")
                               + One(inCheck[d]) + toRelease[d]
               /\ life'[d] \in {"none", "deleted"} <=> refs'[d] = 0
               /\ life[d] = "none" => life'[d] = "none"
               /\ player'[d] \in {None, player[d]}
    <3>1. player'[d] \in {None, player[d]}
      BY <1>1, <2>2 DEF TypeOK
    <3>2. CASE d = o
      BY <1>1, <2>1, <2>2, <2>3, <2>4, <3>1, <3>2 DEF TypeOK, RefsExact, One
    <3>3. CASE d # o
      BY <1>1, <2>2, <3>1, <3>3 DEF TypeOK, RefsExact
    <3> QED BY <3>2, <3>3
  <2>9. RefsExact'
    BY <1>2, <2>8 DEF RefsExact
  <2>10. QueueInv(queue)'
    BY <1>1, <1>2, <1>3, <2>8, QueueInvKept
  <2> QED BY <1>4, <2>6, <2>7, <2>9, <2>10 DEF IInv, Inv
<1>6. CASE ~OwnsPlayer(c)
  <2>1. UNCHANGED <<client, refs, life, player>>
    BY <1>6 DEF Release
  <2>2. TypeOK'
    BY <1>1, <1>2, <1>3, <1>4, <2>1 DEF TypeOK, QueueFrom, QueueOK
  <2>3. OneSession' /\ RefsExact'
    BY <1>1, <1>2, <2>1 DEF OneSession, RefsExact
  <2>4. QueueInv(queue)'
    BY <1>1, <1>2, <1>3, <2>1, QueueInvKept
  <2> QED BY <1>4, <2>2, <2>3, <2>4 DEF IInv, Inv
<1> QED BY <1>5, <1>6

\* A logout is refused or removes the player.
LEMMA LoggingOut ==
  ASSUME NEW b, Inv(b), NEW c \in Conn, Logout(c, b), UNCHANGED receivedFirst
  PROVE  IInv'
<1>1. TypeOK /\ QueueInv(b) /\ QueueOK(b)
  BY DEF Inv, QueueInv
<1>2. CASE queue' = b /\ UNCHANGED <<net, timer, proto, obj>>
  <2>1. QueueFrom(b)
    BY <1>1, <1>2, Quiet DEF net
  <2>2. QueueInv(queue)'
    <3>1. UNCHANGED <<player, life, timer, released>>
      BY <1>2 DEF proto, obj
    <3> QED BY <1>1, <2>1, <3>1, QueueInvKept
  <2>3. TypeOK'
    BY <1>1, <1>2, <2>1 DEF TypeOK, QueueFrom, QueueOK, net, proto, obj
  <2>4. OneSession' /\ RefsExact' /\ AutosendIsLive'
    BY <1>2 DEF Inv, OneSession, RefsExact, AutosendIsLive, proto, obj
  <2> QED BY <2>2, <2>3, <2>4 DEF IInv, Inv
<1>3. CASE player[c] # None /\ ForcedLogout(c, b)
  <2>1. player[c] \in Conn
    BY <1>1, <1>3 DEF TypeOK
  <2> QED BY <1>3, <2>1, ForcedOut
<1> QED BY <1>2, <1>3 DEF Logout

\* The task at the head of the queue keeps the invariant.
LEMMA RunTaskStep ==
  ASSUME IInv, RunTask
  PROVE  IInv'
<1> DEFINE task == Head(queue)  c == task.conn  b == Tail(queue)
<1>1. /\ queue # <<>> /\ UNCHANGED receivedFirst
      /\ \/ task.kind = "login" /\ Login(c, b)
         \/ task.kind = "connect" /\ ConnectTask(c, b)
         \/ task.kind = "release" /\ Release(c, b)
         \/ task.kind = "logout" /\ Logout(c, b)
  BY DEF RunTask
<1>2. /\ Inv(b) /\ c \in Conn
      /\ task.kind \in {"login", "connect"} =>
           /\ receivedFirst[c] /\ player[c] = None
           /\ ~Has(b, "login", c) /\ ~Has(b, "connect", c) /\ c \notin timer
      /\ task.kind = "login" => life[c] = "none" /\ c \notin released
      /\ task.kind = "release" => connState[c] = "closed" /\ ~Has(b, "login", c)
  BY <1>1, Taken DEF IInv
<1> HIDE DEF task, b
<1>3. CASE task.kind = "login" /\ Login(c, b)
  <2>1. CASE LoginRejected(c, b) \/ LoginPlaced(c, b)
    BY <1>1, <1>2, <1>3, <2>1, LoginMakes
  <2>2. CASE LoginTwice(c, b) \/ LoginReplaces(c, b)
    BY <1>1, <1>2, <1>3, <2>2, LoginFinds
  <2>3. CASE LoginConnects(c, b)
    <3>1. PICK o \in Online :
            /\ Connect(c, o, b) /\ autosend' = autosend \cup {c}
            /\ UNCHANGED <<timer, released, life, inCheck, toRelease>>
      BY <2>3 DEF LoginConnects
    <3>2. autosend' \in SUBSET Conn /\ AutosendIsLive'
      BY <1>2, <1>3, <3>1 DEF Inv, TypeOK, AutosendIsLive
    <3> QED BY <1>1, <1>2, <1>3, <3>1, <3>2, Connecting
  <2> QED BY <1>3, <2>1, <2>2, <2>3 DEF Login
<1>4. CASE task.kind = "connect" /\ ConnectTask(c, b)
  <2>1. /\ Connect(c, eventConnect[c], b)
        /\ UNCHANGED <<timer, autosend, released, life, inCheck, toRelease>>
    BY <1>4 DEF ConnectTask
  <2>2. autosend' \in SUBSET Conn /\ AutosendIsLive'
    BY <1>2, <2>1 DEF Inv, TypeOK, AutosendIsLive
  <2> QED BY <1>1, <1>2, <1>4, <2>1, <2>2, Connecting
<1>5. CASE task.kind = "release" /\ Release(c, b)
  BY <1>1, <1>2, <1>5, Releasing
<1>6. CASE task.kind = "logout" /\ Logout(c, b)
  BY <1>1, <1>2, <1>6, LoggingOut
<1> QED BY <1>1, <1>3, <1>4, <1>5, <1>6

\* An event that falls due turns into a connect.
LEMMA DueStep ==
  ASSUME IInv, NEW c \in Conn, Due(c)
  PROVE  IInv'
<1>1. TypeOK /\ QueueInv(queue) /\ QueueOK(queue)
  BY DEF IInv, Inv, QueueInv
<1>2. /\ c \in timer /\ timer' = timer \ {c} /\ queue' = <<T("connect", c)>> \o queue
      /\ UNCHANGED <<net, receivedFirst, proto, obj>>
  BY DEF Due
<1>3. ~Has(queue, "connect", c) /\ player[c] = None /\ receivedFirst[c]
      /\ ~Has(queue, "login", c)
  BY <1>1, <1>2 DEF QueueInv
<1>4. /\ QueueOK(queue')
      /\ \A l \in Kinds, d \in Conn :
           Has(queue', l, d) => Has(queue, l, d) \/ (l = "connect" /\ d = c)
  BY <1>1, <1>2, <1>3, QueueConnect
<1>5. QueueInv(queue)'
  <2>1. SUFFICES ASSUME NEW d \in Conn
        PROVE  /\ ~receivedFirst[d] \/ Has(queue', "login", d) =>
                    player[d] = None /\ life[d] = "none" /\ d \notin timer'
                                     /\ ~Has(queue', "connect", d)
               /\ Has(queue', "login", d) => receivedFirst[d] /\ d \notin released
               /\ d \in timer' \/ Has(queue', "connect", d) => player[d] = None
               /\ d \in timer' => ~Has(queue', "connect", d)
               /\ Has(queue', "release", d) \/ d \in released => connState[d] = "closed"
    BY <1>2, <1>4 DEF QueueInv, QueueOK, Has, net, proto, obj
  <2>2. /\ Has(queue', "login", d) => Has(queue, "login", d)
        /\ Has(queue', "connect", d) => Has(queue, "connect", d) \/ d = c
        /\ Has(queue', "release", d) => Has(queue, "release", d)
        /\ d \in timer' => d \in timer /\ d # c
    BY <1>2, <1>4 DEF Kinds
  <2> QED BY <1>1, <1>3, <2>2 DEF QueueInv
<1>6. TypeOK'
  BY <1>1, <1>2, <1>4 DEF TypeOK, QueueOK, net, proto, obj
<1>7. OneSession' /\ RefsExact' /\ AutosendIsLive'
  BY <1>2 DEF IInv, Inv, OneSession, RefsExact, AutosendIsLive, proto, obj
<1> QED BY <1>5, <1>6, <1>7 DEF IInv, Inv

-----------------------------------------------------------------------------
(* The theorems                                                            *)

\* Nothing waits for anyone at first.
LEMMA InitInv == Init => IInv
<1> SUFFICES ASSUME Init
             PROVE  IInv
  OBVIOUS
<1>1. TypeOK
  BY DEF Init, TypeOK, Lives
<1>2. OneSession /\ RefsExact /\ AutosendIsLive
  BY GameSessionAssumption DEF Init, OneSession, RefsExact, AutosendIsLive, One
<1>3. QueueInv(queue)
  BY DEF Init, QueueInv, QueueOK, Has
<1> QED BY <1>1, <1>2, <1>3 DEF IInv, Inv

\* Every step keeps the invariant.
LEMMA NextInv == IInv /\ [Next]_vars => IInv'
<1> SUFFICES ASSUME IInv, [Next]_vars
             PROVE  IInv'
  OBVIOUS
<1>1. CASE \E c \in Conn : Network(c)
  BY <1>1, NetworkStep
<1>2. CASE RunTask
  BY <1>2, RunTaskStep
<1>3. CASE Game
  <2>1. CASE \E c \in Conn : Due(c)
    BY <2>1, DueStep
  <2>2. CASE \E o \in Conn : PingOut(o) \/ Kick(o)
    BY <2>2, LeaveStep DEF PingOut, Kick
  <2>3. CASE \E o \in Conn : Death(o)
    BY <2>3, DeathStep
  <2>4. CASE \E S \in SUBSET Stale : CheckCreatures(S)
    BY <2>4, CheckStep
  <2> QED BY <1>3, <2>1, <2>2, <2>3, <2>4 DEF Game
<1>4. CASE UNCHANGED vars
  BY <1>4 DEF vars, net, proto, obj, IInv, Inv, TypeOK, OneSession, RefsExact, AutosendIsLive,
              QueueInv, QueueOK, Has
<1> QED BY <1>1, <1>2, <1>3, <1>4 DEF Next

LEMMA Invariance == Spec => []IInv
<1> QED BY InitInv, NextInv, PTL DEF Spec

\* Every variable of a session has its type.
THEOREM TypeCorrect == Spec => []TypeOK
<1>1. IInv => TypeOK
  BY DEF IInv, Inv
<1> QED BY <1>1, Invariance, PTL

\* A protocol has the Player whose client it is, however many connections log
\* in to the character, replace each other, are closed and released.
THEOREM SessionsAreExclusive == Spec => []OneSession
<1>1. IInv => OneSession
  BY DEF IInv, Inv
<1> QED BY <1>1, Invariance, PTL

\* The reference counter of a Player counts its holders, so that it is freed
\* when the last one lets go and not before.
THEOREM ReferencesAreCounted == Spec => []RefsExact
<1>1. IInv => RefsExact
  BY DEF IInv, Inv
<1> QED BY <1>1, Invariance, PTL

\* No protocol that was released is in bufferedProtocols.
THEOREM NoReleasedAutosend == Spec => []AutosendIsLive
<1>1. IInv => AutosendIsLive
  BY DEF IInv, Inv
<1> QED BY <1>1, Invariance, PTL
=============================================================================

----------------------------- MODULE BenchProofs -----------------------------
(***************************************************************************)
(* Proofs about what the two processes of the benchmark keep of their      *)
(* connections: the client knows how many of them are open, and the list   *)
(* of the server is sound.                                                 *)
(***************************************************************************)
EXTENDS Bench, TLAPS, FiniteSetTheorems, WellFoundedInduction

-----------------------------------------------------------------------------
(* The connections of the client.                                           *)

ConnFields == {"phase", "buf", "progress", "sent", "sequence"}
ClientFields == {"conn", "active", "stopping", "isBreak", "pc"}

OpenOf(s) == {c \in Conns : s.conn[c].phase # "closed"}

\* A struct tcp_client whose count of open connections is right
ClientRecord(s) ==
  /\ DOMAIN s = ClientFields
  /\ DOMAIN s.conn = Conns
  /\ \A c \in Conns : DOMAIN s.conn[c] = ConnFields
Counts(s) == s.active = Cardinality(OpenOf(s)) /\ (s.active = 0 => s.isBreak)

ClientInv ==
  /\ ClientRecord(client)
  /\ client.pc = "running" => Counts(client)
  /\ client.pc = "setup" => OpenOf(client) = {}

\* What a step from s to t keeps of the client
Keeps(s, t) ==
  /\ ClientRecord(t) /\ t.pc = s.pc
  /\ Counts(s) => Counts(t)
  /\ \A c \in Conns : t.conn[c].phase = "connect" => s.conn[c].phase = "connect"

LEMMA KeepsChain ==
  ASSUME NEW s, NEW t, NEW u, Keeps(s, t), Keeps(t, u)
  PROVE  Keeps(s, u)
BY Zenon DEF Keeps

LEMMA KeepsItself ==
  ASSUME NEW s, ClientRecord(s)
  PROVE  Keeps(s, s)
BY DEF Keeps

LEMMA OpenIsFinite ==
  ASSUME NEW s
  PROVE  IsFiniteSet(OpenOf(s)) /\ Cardinality(OpenOf(s)) \in Nat
<1>1. OpenOf(s) \in SUBSET Conns
  BY DEF OpenOf
<1>2. IsFiniteSet(OpenOf(s))
  BY <1>1, FS_Subset, ConnsAssumption, Zenon
<1> QED BY <1>2, FS_CardinalityType, Zenon

\* A step that closes no connection leaves the count right.
LEMMA SameCount ==
  ASSUME NEW s, NEW t, Counts(s), OpenOf(t) = OpenOf(s), t.active = s.active,
         s.isBreak => t.isBreak
  PROVE  Counts(t)
BY DEF Counts

WithConn(s, c, conn) == [s EXCEPT !.conn[c] = conn]

\* A connection that is open stays open.
LEMMA ConnUpdate ==
  ASSUME NEW s, NEW c \in Conns, NEW conn, ClientRecord(s), DOMAIN conn = ConnFields
  PROVE  LET t == WithConn(s, c, conn)
         IN /\ ClientRecord(t) /\ t.pc = s.pc /\ t.active = s.active /\ t.isBreak = s.isBreak
            /\ t.conn[c] = conn
            /\ \A d \in Conns \ {c} : t.conn[d] = s.conn[d]
            /\ (conn.phase # "closed" /\ s.conn[c].phase # "closed" => OpenOf(t) = OpenOf(s))
            /\ (conn.phase = "closed" => OpenOf(t) = OpenOf(s) \ {c})
BY DEF ClientRecord, ClientFields, OpenOf, WithConn

LEMMA ConnCloseCounts ==
  ASSUME NEW s, NEW c \in Conns, ClientRecord(s)
  PROVE  LET t == ConnClose(s, c)
         IN Keeps(s, t)
<1> DEFINE t == ConnClose(s, c)
<1>1. CASE s.conn[c].phase = "closed"
  BY <1>1, KeepsItself DEF ConnClose
<1>2. CASE s.conn[c].phase # "closed"
  <2> DEFINE u == WithConn(s, c, ClosedConn)
  <2>1. DOMAIN ClosedConn = ConnFields /\ ClosedConn.phase = "closed"
    BY DEF ClosedConn, ConnFields
  <2>2. /\ ClientRecord(u) /\ u.pc = s.pc /\ OpenOf(u) = OpenOf(s) \ {c}
        /\ \A d \in Conns : u.conn[d].phase = "connect" => s.conn[d].phase = "connect"
    BY <2>1, ConnUpdate
  <2>3. /\ t.conn = u.conn /\ t.pc = u.pc /\ DOMAIN t = DOMAIN u
        /\ t.active = (IF s.active > 0 THEN s.active - 1 ELSE 0)
        /\ (s.isBreak \/ s.active = 1 => t.isBreak)
    BY <1>2, Zenon DEF ConnClose, ClientRecord, ClientFields, WithConn
  <2>4. ClientRecord(t) /\ t.pc = s.pc /\ OpenOf(t) = OpenOf(s) \ {c}
    BY <2>2, <2>3 DEF ClientRecord, OpenOf
  <2>5. ASSUME Counts(s) PROVE Counts(t)
    <3>1. c \in OpenOf(s)
      BY <1>2 DEF OpenOf
    <3>2. Cardinality(OpenOf(t)) = Cardinality(OpenOf(s)) - 1 /\ Cardinality(OpenOf(t)) \in Nat
      BY <2>4, <3>1, OpenIsFinite, FS_RemoveElement, Zenon
    <3>3. Cardinality(OpenOf(s)) \in Nat
      BY OpenIsFinite
    <3> QED BY <2>3, <2>5, <3>2, <3>3 DEF Counts
  <2> HIDE DEF t, u
  <2> QED BY <2>2, <2>3, <2>4, <2>5 DEF Keeps, t
<1> QED BY <1>1, <1>2

LEMMA CloseAllCounts ==
  ASSUME NEW s, ClientRecord(s)
  PROVE  LET t == CloseAll(s)
         IN Keeps(s, t)
<1> DEFINE t == CloseAll(s)
           n == Cardinality(OpenOf(s))
<1>1. /\ DOMAIN t = ClientFields /\ t.conn = [c \in Conns |-> ClosedConn] /\ t.pc = s.pc
      /\ t.active = (IF s.active > n THEN s.active - n ELSE 0)
      /\ (s.isBreak \/ s.active \in 1 .. n => t.isBreak)
  BY Zenon DEF CloseAll, ClientRecord, ClientFields, OpenOf
<1>2. ClientRecord(t) /\ OpenOf(t) = {}
  BY <1>1 DEF ClientRecord, OpenOf, ClosedConn, ConnFields
<1>3. Cardinality(OpenOf(t)) = 0
  BY <1>2, FS_EmptySet
<1>4. n \in Nat
  BY OpenIsFinite
<1>5. Counts(s) => Counts(t)
  BY <1>1, <1>3, <1>4 DEF Counts
<1>6. \A c \in Conns : t.conn[c].phase # "connect"
  BY <1>1 DEF ClosedConn
<1> QED BY <1>1, <1>2, <1>5, <1>6 DEF Keeps

LEMMA StartedCounts ==
  ASSUME NEW s, NEW c \in Conns, ClientRecord(s), NEW t \in Started(s, c)
  PROVE  Keeps(s, t)
<1>1. t = s \/ t = ConnClose(s, c)
  BY DEF Started
<1> QED BY <1>1, ConnCloseCounts, KeepsItself

LEMMA ConnSendCounts ==
  ASSUME NEW s, NEW c \in Conns, ClientRecord(s), s.conn[c].phase # "closed"
  PROVE  LET t == ConnSend(s, c)
         IN Keeps(s, t) /\ t.conn[c].phase = "write"
<1> DEFINE conn == [s.conn[c] EXCEPT !.phase = "write", !.progress = 0, !.sent = 0,
                                     !.buf = Frame(s.conn[c].sequence)]
<1>1. DOMAIN conn = ConnFields /\ conn.phase = "write"
  BY DEF ClientRecord, ConnFields
<1>2. ConnSend(s, c) = WithConn(s, c, conn)
  BY DEF ConnSend, ClientRecord, ClientFields, WithConn
<1> HIDE DEF conn
<1> DEFINE t == ConnSend(s, c)
<1>3. /\ ClientRecord(t) /\ t.pc = s.pc /\ t.active = s.active /\ t.isBreak = s.isBreak
      /\ OpenOf(t) = OpenOf(s) /\ t.conn[c] = conn
      /\ \A d \in Conns : t.conn[d].phase = "connect" => s.conn[d].phase = "connect"
  BY <1>1, <1>2, ConnUpdate
<1> HIDE DEF t
<1>4. Counts(s) => Counts(t)
  BY <1>3, SameCount
<1> QED BY <1>1, <1>3, <1>4 DEF t, Keeps

\* A change of the fields of a connection that leaves it open
LEMMA FieldsCount ==
  ASSUME NEW s, NEW c \in Conns, ClientRecord(s), s.conn[c].phase # "closed",
         NEW conn, DOMAIN conn = ConnFields, conn.phase \notin {"closed", "connect"},
         NEW t, t = WithConn(s, c, conn)
  PROVE  Keeps(s, t) /\ t.conn[c] = conn
<1>1. /\ ClientRecord(t) /\ t.pc = s.pc /\ t.active = s.active /\ t.isBreak = s.isBreak
      /\ t.conn[c] = conn /\ OpenOf(t) = OpenOf(s)
      /\ \A d \in Conns : t.conn[d].phase = "connect" => s.conn[d].phase = "connect"
  BY ConnUpdate
<1>2. Counts(s) => Counts(t)
  BY <1>1, SameCount
<1> QED BY <1>1, <1>2 DEF Keeps

\* The client may reach the server over this connection for the first time.
Unseen(c) == client.pc = "setup" \/ client.conn[c].phase = "connect"

\* A connection reaches the server once.
Reaches ==
  /\ \A c \in Conns : Unseen(c)' => Unseen(c) /\ (c \in backlog' => c \in backlog)
  /\ \A c \in backlog' : c \in backlog \/ (c \in Conns /\ Unseen(c))

\* The step of a callback
LEMMA CallbackCounts ==
  ASSUME ClientInv, client.pc = "running", Keeps(client, client'), backlog' = backlog
  PROVE  ClientInv' /\ Reaches
<1>1. ClientInv'
  BY DEF ClientInv, Keeps
<1>2. \A c \in Conns : Unseen(c)' => Unseen(c)
  BY DEF Keeps, Unseen
<1> QED BY <1>1, <1>2 DEF Reaches

LEMMA OnWriteCounts ==
  ASSUME ClientInv, NEW c \in Conns, ClientOnWrite(c)
  PROVE  ClientInv' /\ Reaches
<1> DEFINE conn == client.conn[c]
           progress == conn.progress + conn.sent
           after == IF progress < FrameSize
                      THEN [conn EXCEPT !.progress = progress, !.sent = 0]
                      ELSE [conn EXCEPT !.phase = "header", !.progress = 0, !.sent = 0]
           s == WithConn(client, c, after)
<1>1. ClientRecord(client) /\ client.pc = "running" /\ conn.phase = "write"
  BY DEF ClientInv, ClientOnWrite, Callback
<1>2. client' \in Started(s, c) \/ client' = ConnClose(client, c)
  BY DEF ClientOnWrite, WithConn
<1>3. DOMAIN after = ConnFields /\ after.phase \notin {"closed", "connect"}
  BY <1>1 DEF ClientRecord, ConnFields
<1>4. Keeps(client, s)
  <2> HIDE DEF after
  <2> QED BY <1>1, <1>3, FieldsCount
<1>5. Keeps(client, client')
  <2> HIDE DEF s
  <2>1. ClientRecord(s)
    BY <1>4 DEF Keeps
  <2>2. Keeps(s, client') \/ Keeps(client, client')
    BY <1>1, <1>2, <2>1, StartedCounts, ConnCloseCounts
  <2> QED BY <1>4, <2>2, KeepsChain
<1>9. backlog' = backlog
  BY DEF ClientOnWrite
<1> QED BY <1>1, <1>5, <1>9, CallbackCounts

LEMMA HeaderReadCounts ==
  ASSUME NEW s, NEW c \in Conns, ClientRecord(s), s.conn[c].phase # "closed",
         NEW t \in HeaderRead(s, c)
  PROVE  Keeps(s, t)
<1> DEFINE conn == [s.conn[c] EXCEPT !.phase = "payload"]
           u == WithConn(s, c, conn)
<1>1. t = ConnClose(s, c) \/ t \in Started(u, c)
  BY DEF HeaderRead, ClientRecord, ClientFields, WithConn
<1>2. DOMAIN conn = ConnFields /\ conn.phase \notin {"closed", "connect"}
  BY DEF ClientRecord, ConnFields
<1>3. Keeps(s, u)
  <2> HIDE DEF conn
  <2> QED BY <1>2, FieldsCount
<1> HIDE DEF u
<1>4. ClientRecord(u)
  BY <1>3 DEF Keeps
<1>5. Keeps(s, t) \/ Keeps(u, t)
  BY <1>1, <1>4, StartedCounts, ConnCloseCounts
<1> QED BY <1>3, <1>5, KeepsChain

LEMMA EchoReadCounts ==
  ASSUME NEW s, NEW c \in Conns, ClientRecord(s), s.conn[c].phase \notin {"closed", "connect"},
         NEW t \in EchoRead(s, c)
  PROVE  Keeps(s, t)
<1> DEFINE conn == [s.conn[c] EXCEPT !.sequence = (@ + 1) % Place[Width]]
           u == WithConn(s, c, conn)
           v == [s EXCEPT !.stopping = TRUE]
<1>1. t = ConnClose(s, c) \/ t = ConnClose(v, c) \/ t \in Started(ConnSend(u, c), c)
  BY DEF EchoRead, ClientRecord, ClientFields, WithConn
<1>2. DOMAIN conn = ConnFields /\ conn.phase \notin {"closed", "connect"}
  BY DEF ClientRecord, ConnFields
<1>3. Keeps(s, u) /\ u.conn[c] = conn
  <2> HIDE DEF conn
  <2> QED BY <1>2, FieldsCount
<1>4. Keeps(s, v)
  BY DEF ClientRecord, ClientFields, Counts, OpenOf, Keeps
<1> DEFINE w == ConnSend(u, c)
<1> HIDE DEF u, v, conn
<1>5. ClientRecord(u) /\ ClientRecord(v) /\ u.conn[c].phase # "closed"
  BY <1>2, <1>3, <1>4 DEF Keeps
<1>6. Keeps(u, w)
  BY <1>5, ConnSendCounts
<1> HIDE DEF w
<1>7. ClientRecord(w)
  BY <1>6 DEF Keeps
<1>8. Keeps(s, t) \/ Keeps(v, t) \/ Keeps(w, t)
  <2>1. t = ConnClose(s, c) \/ t = ConnClose(v, c) \/ t \in Started(w, c)
    BY <1>1 DEF w
  <2> QED BY <1>5, <1>7, <2>1, StartedCounts, ConnCloseCounts
<1> QED BY <1>3, <1>4, <1>6, <1>8, KeepsChain

LEMMA OnReadCounts ==
  ASSUME ClientInv, NEW c \in Conns, ClientOnRead(c)
  PROVE  ClientInv' /\ Reaches
<1> DEFINE conn == client.conn[c]
           after(n) == [conn EXCEPT !.progress = conn.progress + n,
                                    !.buf = Stored(@, conn.progress, SubSeq(net[c].down, 1, n))]
           read(n) == WithConn(client, c, after(n))
<1>1. ClientRecord(client) /\ client.pc = "running" /\ conn.phase \in {"header", "payload"}
  BY DEF ClientInv, ClientOnRead, Callback
<1>2. PICK n : \/ client' \in Started(read(n), c)
               \/ client' \in HeaderRead(read(n), c)
               \/ client' \in EchoRead(read(n), c)
  BY Zenon DEF ClientOnRead, WithConn
<1>3. DOMAIN after(n) = ConnFields /\ after(n).phase \notin {"closed", "connect"}
  BY <1>1 DEF ClientRecord, ConnFields
<1> DEFINE s == read(n)
<1>4. Keeps(client, s) /\ s.conn[c].phase \notin {"closed", "connect"}
  <2> HIDE DEF after
  <2> QED BY <1>1, <1>3, FieldsCount
<1>5. \/ client' \in Started(s, c)
      \/ client' \in HeaderRead(s, c)
      \/ client' \in EchoRead(s, c)
  BY <1>2
<1> HIDE DEF s
<1>6. ClientRecord(s)
  BY <1>4 DEF Keeps
<1>7. Keeps(s, client')
  BY <1>4, <1>5, <1>6, StartedCounts, HeaderReadCounts, EchoReadCounts
<1>8. Keeps(client, client')
  BY <1>4, <1>7, KeepsChain
<1>9. backlog' = backlog
  BY DEF ClientOnRead
<1> QED BY <1>1, <1>8, <1>9, CallbackCounts, Zenon

LEMMA OnConnectCounts ==
  ASSUME ClientInv, NEW c \in Conns, OnConnect(c)
  PROVE  ClientInv' /\ Reaches
<1> DEFINE s == ConnSend(client, c)
<1>1. ClientRecord(client) /\ client.pc = "running" /\ client.conn[c].phase = "connect"
  BY DEF ClientInv, OnConnect, Callback
<1>2. \/ client' \in Started(s, c) /\ backlog' = backlog \cup {c}
      \/ client' = ConnClose(client, c) /\ backlog' = backlog
  BY DEF OnConnect
<1>3. Keeps(client, s) /\ s.conn[c].phase = "write"
  BY <1>1, ConnSendCounts
<1> HIDE DEF s
<1>4. ClientRecord(s)
  BY <1>3 DEF Keeps
<1>5. CASE client' \in Started(s, c) /\ backlog' = backlog \cup {c}
  <2>1. Keeps(s, client')
    BY <1>4, <1>5, StartedCounts
  <2>2. Keeps(client, client') /\ client'.conn[c].phase # "connect"
    BY <1>3, <2>1, KeepsChain DEF Keeps
  <2>3. ClientInv'
    BY <1>1, <2>2 DEF ClientInv, Keeps
  <2>4. \A d \in Conns : Unseen(d)' => Unseen(d) /\ d # c
    BY <1>1, <2>2 DEF Keeps, Unseen
  <2> QED BY <1>1, <1>5, <2>3, <2>4 DEF Reaches, Unseen
<1>6. CASE client' = ConnClose(client, c) /\ backlog' = backlog
  BY <1>1, <1>6, ConnCloseCounts, CallbackCounts
<1> QED BY <1>2, <1>5, <1>6

LEMMA ClientSendsCounts ==
  ASSUME ClientInv, NEW c \in Conns, ClientSends(c)
  PROVE  ClientInv' /\ Reaches
<1>1. ClientRecord(client) /\ client.pc = "running" /\ client.conn[c].phase = "write"
  BY DEF ClientInv, ClientSends, Callback
<1>2. PICK n : client' = [client EXCEPT !.conn[c].sent = n]
  BY Zenon DEF ClientSends
<1> DEFINE conn == [client.conn[c] EXCEPT !.sent = n]
<1>3. DOMAIN conn = ConnFields /\ conn.phase \notin {"closed", "connect"}
  BY <1>1 DEF ClientRecord, ConnFields
<1>4. client' = WithConn(client, c, conn)
  BY <1>1, <1>2 DEF WithConn, ClientRecord, ClientFields
<1> HIDE DEF conn
<1>5. Keeps(client, client')
  BY <1>1, <1>3, <1>4, FieldsCount, Zenon
<1>9. backlog' = backlog
  BY DEF ClientSends
<1> QED BY <1>1, <1>5, <1>9, CallbackCounts, Zenon

LEMMA ClientStartCounts ==
  ASSUME ClientInv, ClientStart
  PROVE  ClientInv' /\ Reaches
<1>1. /\ DOMAIN client' = ClientFields /\ client'.conn = [c \in Conns |-> NewConn]
      /\ client'.active = Cardinality(Conns) /\ client'.pc = "running"
      /\ client.pc = "setup" /\ backlog' = backlog
  BY DEF ClientStart, ClientInv, ClientRecord, ClientFields, netVars
<1>2. ClientRecord(client') /\ OpenOf(client') = Conns
  BY <1>1 DEF ClientRecord, OpenOf, NewConn, ConnFields
<1>3. client'.active # 0
  BY <1>1, ConnsAssumption, FS_EmptySet
<1>4. Reaches
  BY <1>1 DEF Reaches, Unseen
<1> QED BY <1>1, <1>2, <1>3, <1>4 DEF ClientInv, Counts

LEMMA ClientStartFailsCounts ==
  ASSUME ClientInv, ClientStartFails
  PROVE  ClientInv' /\ Reaches
<1>1. /\ client' = [client EXCEPT !.pc = "ended"] /\ client.pc = "setup"
      /\ ClientRecord(client) /\ OpenOf(client) = {}
  BY DEF ClientStartFails, ClientInv
<1>2. ClientRecord(client') /\ client'.pc = "ended" /\ client'.conn = client.conn
  BY <1>1 DEF ClientRecord, ClientFields
<1>3. \A c \in Conns : ~Unseen(c)'
  BY <1>1, <1>2 DEF Unseen, OpenOf
<1>4. \A c \in backlog' : c \in backlog \/ c \in Conns
  BY DEF ClientStartFails
<1>5. Reaches
  BY <1>1, <1>3, <1>4 DEF Reaches, Unseen
<1> QED BY <1>2, <1>5 DEF ClientInv

LEMMA ClientEndCounts ==
  ASSUME ClientInv, ClientEnd
  PROVE  ClientInv' /\ Reaches
<1> DEFINE s == CloseAll(client)
<1>1. Keeps(client, s)
  BY CloseAllCounts DEF ClientInv
<1>2. client' = [s EXCEPT !.pc = "ended"] /\ backlog' = backlog
  BY DEF ClientEnd
<1> HIDE DEF s
<1>3. ClientRecord(client') /\ client'.pc = "ended" /\ client'.conn = s.conn
  BY <1>1, <1>2 DEF Keeps, ClientRecord, ClientFields
<1>4. Reaches
  BY <1>1, <1>2, <1>3 DEF Reaches, Unseen, Keeps
<1> QED BY <1>3, <1>4 DEF ClientInv

LEMMA ClientOthersCount ==
  ASSUME ClientInv, OnStop \/ ClientSignal \/ Deadline
  PROVE  ClientInv' /\ Reaches
<1>1. ClientRecord(client) /\ client.pc = "running" /\ backlog' = backlog
  BY DEF ClientInv, OnStop, ClientSignal, Deadline, netVars
<1>2. Keeps(client, client')
  <2>1. CASE OnStop
    <3> DEFINE s == [client EXCEPT !.stopping = TRUE]
    <3>1. Keeps(client, s)
      BY <1>1 DEF ClientRecord, ClientFields, Counts, OpenOf, Keeps
    <3>2. client' = CloseAll(s)
      BY <2>1 DEF OnStop
    <3> HIDE DEF s
    <3>3. Keeps(s, client')
      BY <3>1, <3>2, CloseAllCounts DEF Keeps
    <3> QED BY <3>1, <3>3, KeepsChain
  <2>2. CASE ClientSignal
    <3>1. client' = [client EXCEPT !.isBreak = TRUE]
      BY <2>2 DEF ClientSignal
    <3>2. /\ DOMAIN client' = ClientFields /\ client'.conn = client.conn /\ client'.pc = client.pc
          /\ client'.active = client.active /\ client'.isBreak
      BY <1>1, <3>1 DEF ClientRecord, ClientFields
    <3> QED BY <1>1, <3>2 DEF ClientRecord, Counts, OpenOf, Keeps
  <2>3. CASE Deadline
    BY <1>1, <2>3, KeepsItself DEF Deadline
  <2> QED BY <2>1, <2>2, <2>3
<1> QED BY <1>1, <1>2, CallbackCounts

LEMMA ClientStepCounts ==
  ASSUME ClientInv, ClientNext
  PROVE  ClientInv' /\ Reaches
<1>1. ASSUME NEW c \in Conns, ClientReadEnds(c) PROVE ClientInv' /\ Reaches
  <2>1. /\ ClientRecord(client) /\ client.pc = "running" /\ backlog' = backlog
        /\ client' = ConnClose(client, c)
    BY <1>1 DEF ClientReadEnds, Callback, ClientInv
  <2> QED BY <2>1, ConnCloseCounts, CallbackCounts
<1> QED BY <1>1, OnConnectCounts, ClientSendsCounts, OnWriteCounts, OnReadCounts,
           ClientStartCounts, ClientStartFailsCounts, ClientEndCounts, ClientOthersCount, Zenon
           DEF ClientNext

LEMMA ClientInvariance == Spec => []ClientInv
<1>1. Init => ClientInv
  BY SMTT(30) DEF Init, ClientInit, ClientInv, ClientRecord, ClientFields, ConnFields,
                  ClosedConn, OpenOf
<1>2. ClientInv /\ [Next]_vars => ClientInv'
  <2> SUFFICES ASSUME ClientInv, [Next]_vars PROVE ClientInv'
    OBVIOUS
  <2>1. CASE ClientNext
    BY <2>1, ClientStepCounts
  <2>2. CASE UNCHANGED client
    BY <2>2 DEF ClientInv
  <2> QED BY <2>1, <2>2, Zenon DEF Next, Break, vars, clientVars
<1> QED BY <1>1, <1>2, PTL DEF Spec

\* active_connections of the client is the number of its open connections while its
\* loop runs, and the loop is told to end with the last of them, for any number of
\* connections, however their callbacks are interleaved (conn_close() of
\* bench/tcp_client.c).
THEOREM ActiveConnectionsAreOpen == Spec => []ActiveIsOpen
<1>1. ClientInv => ActiveIsOpen
  BY DEF ClientInv, Counts, ActiveIsOpen, Open, OpenOf
<1> QED BY <1>1, ClientInvariance, PTL

-----------------------------------------------------------------------------
(* The list of the server.                                                  *)

\* A set of naturals that is not empty has a least element.
LEMMA LeastOf ==
  ASSUME NEW S, S \subseteq Nat, S # {}
  PROVE  \E x \in S : \A y \in S : x <= y
<1> DEFINE R == OpToRel(<, Nat)
<1>1. IsWellFoundedOn(R, Nat)
  BY NatLessThanWellFounded, Zenon
<1>2. \A x, y \in Nat : <<y, x>> \in R <=> y < x
  BY DEF OpToRel
<1> HIDE DEF R
<1>3. PICK x \in S : \A y \in S : ~ (<<y, x>> \in R)
  BY <1>1, WFMin, Zenon
<1>4. \A y \in S : ~(y < x)
  BY <1>2, <1>3, Zenon
<1>5. x \in Nat /\ \A y \in S : y \in Nat
  OBVIOUS
<1>6. \A y \in S : x <= y
  BY <1>4, <1>5
<1> QED BY <1>6

ServerConnFields == {"phase", "buf", "frame", "progress", "sent", "prev", "next"}
ServerFields == {"conn", "head", "accepting", "isBreak", "pc"}

ServerRecord(s) ==
  /\ DOMAIN s = ServerFields
  /\ DOMAIN s.conn = Conns
  /\ \A c \in Conns : DOMAIN s.conn[c] = ServerConnFields

\* From its head, the list is q[1] .. q[n].
Listed(s, n, q) ==
  /\ n \in Nat /\ q \in [1 .. n -> Conns]
  /\ \A i, j \in 1 .. n : q[i] = q[j] => i = j
  /\ \A c \in Conns : s.conn[c].phase # "none" <=> \E i \in 1 .. n : q[i] = c
  /\ s.head = IF n = 0 THEN None ELSE q[1]
  /\ \A i \in 1 .. n : /\ s.conn[q[i]].next = IF i = n THEN None ELSE q[i + 1]
                       /\ s.conn[q[i]].prev = IF i = 1 THEN None ELSE q[i - 1]

Sound(s) == ServerRecord(s) /\ \E n, q : Listed(s, n, q)

\* What a step from s to t keeps of the server: it allocates no connection.
ServerKeeps(s, t) ==
  /\ Sound(t)
  /\ \A c \in Conns : s.conn[c].phase = "none" => t.conn[c].phase = "none"

LEMMA ServerKeepsChain ==
  ASSUME NEW s, NEW t, NEW u, ServerKeeps(s, t), ServerKeeps(t, u)
  PROVE  ServerKeeps(s, u)
BY Zenon DEF ServerKeeps

\* The list does not depend on the other fields.
LEMMA SameList ==
  ASSUME NEW s, NEW t, Sound(s), ServerRecord(t), t.head = s.head,
         \A c \in Conns : /\ t.conn[c].next = s.conn[c].next /\ t.conn[c].prev = s.conn[c].prev
                          /\ t.conn[c].phase = "none" <=> s.conn[c].phase = "none"
  PROVE  ServerKeeps(s, t)
<1>1. PICK n, q : Listed(s, n, q)
  BY DEF Sound
<1>2. \A i \in 1 .. n : q[i] \in Conns
  BY <1>1 DEF Listed
<1>3. Listed(t, n, q)
  BY <1>1, <1>2 DEF Listed
<1> QED BY <1>3 DEF ServerKeeps, Sound

LEMMA AllocSound ==
  ASSUME NEW s, NEW c \in Conns, Sound(s), s.conn[c].phase = "none"
  PROVE  LET t == AllocUserdata(s, c)
         IN /\ Sound(t) /\ t.conn[c].phase = "header"
            /\ \A d \in Conns \ {c} : s.conn[d].phase = "none" => t.conn[d].phase = "none"
<1> DEFINE t == AllocUserdata(s, c)
           new == [NoConn EXCEPT !.phase = "header", !.next = s.head,
                                 !.buf = NewBuffer(HeaderSize + ServerMessageSize)]
           conns == [d \in Conns |-> CASE d = c -> new
                                       [] d = s.head -> [s.conn[d] EXCEPT !.prev = c]
                                       [] OTHER -> s.conn[d]]
<1>1. ServerRecord(s)
  BY DEF Sound
<1>2. PICK n, q : Listed(s, n, q)
  BY DEF Sound
<1>3. DOMAIN t = ServerFields /\ t.head = c /\ t.conn = conns
  BY <1>1 DEF AllocUserdata, ServerRecord, ServerFields
<1>4. /\ DOMAIN new = ServerConnFields /\ new.phase = "header" /\ new.next = s.head
      /\ new.prev = None
  BY DEF NoConn, ServerConnFields
<1> HIDE DEF new, t
<1>5. t.conn[c] = new
  <2>1. s.head # c
    BY <1>2, ServerAssumption DEF Listed
  <2> QED BY <1>3, <2>1
<1>6. \A d \in Conns \ {c} : /\ DOMAIN t.conn[d] = ServerConnFields
                             /\ t.conn[d].phase = s.conn[d].phase /\ t.conn[d].next = s.conn[d].next
                             /\ t.conn[d].prev = IF d = s.head THEN c ELSE s.conn[d].prev
  <2> TAKE d \in Conns \ {c}
  <2>1. t.conn[d] = IF d = s.head THEN [s.conn[d] EXCEPT !.prev = c] ELSE s.conn[d]
    BY <1>3
  <2>2. DOMAIN s.conn[d] = ServerConnFields
    BY <1>1 DEF ServerRecord
  <2> QED BY <2>1, <2>2 DEF ServerConnFields
<1>7. ServerRecord(t)
  BY <1>3, <1>4, <1>5, <1>6 DEF ServerRecord
<1> DEFINE r == [i \in 1 .. n + 1 |-> IF i = 1 THEN c ELSE q[i - 1]]
<1>8. n \in Nat /\ \A i \in 1 .. n : q[i] \in Conns /\ q[i] # c
  BY <1>2 DEF Listed
<1>9. /\ r[1] = c /\ \A i \in 1 .. n : r[i + 1] = q[i]
      /\ \A i \in 1 .. n + 1 : i = 1 \/ i - 1 \in 1 .. n
      /\ \A i \in 1 .. n + 1 : i # 1 => r[i] = q[i - 1]
      /\ r \in [1 .. n + 1 -> Conns]
  BY <1>8
<1> HIDE DEF r
<1>10. Listed(t, n + 1, r)
  <2>1. \A i, j \in 1 .. n + 1 : r[i] = r[j] => i = j
    BY <1>2, <1>8, <1>9 DEF Listed
  <2>2. \A d \in Conns : t.conn[d].phase # "none" <=> \E i \in 1 .. n + 1 : r[i] = d
    <3> TAKE d \in Conns
    <3>1. CASE d = c
      BY <1>4, <1>5, <1>8, <1>9, <3>1
    <3>2. CASE d # c
      <4>1. t.conn[d].phase # "none" <=> \E i \in 1 .. n : q[i] = d
        BY <1>2, <1>6, <3>2 DEF Listed
      <4>2. (\E i \in 1 .. n + 1 : r[i] = d) <=> \E i \in 1 .. n : q[i] = d
        BY <1>8, <1>9, <3>2
      <4> QED BY <4>1, <4>2
    <3> QED BY <3>1, <3>2
  <2>3. t.head = IF n + 1 = 0 THEN None ELSE r[1]
    BY <1>3, <1>8, <1>9
  <2>4. ASSUME NEW i \in 1 .. n + 1
        PROVE  /\ t.conn[r[i]].next = IF i = n + 1 THEN None ELSE r[i + 1]
               /\ t.conn[r[i]].prev = IF i = 1 THEN None ELSE r[i - 1]
    <3>1. CASE i = 1
      <4>1. new.next = IF n = 0 THEN None ELSE q[1]
        BY <1>2, <1>4 DEF Listed
      <4>2. n # 0 => r[2] = q[1]
        BY <1>8, <1>9
      <4> QED BY <1>4, <1>5, <1>8, <1>9, <3>1, <4>1, <4>2
    <3>2. CASE i # 1
      <4> DEFINE j == i - 1
      <4>1. j \in 1 .. n /\ r[i] = q[j] /\ i = j + 1 /\ q[j] \in Conns \ {c}
        BY <1>8, <1>9, <3>2
      <4>2. /\ s.conn[q[j]].next = IF j = n THEN None ELSE q[j + 1]
            /\ s.conn[q[j]].prev = IF j = 1 THEN None ELSE q[j - 1]
            /\ s.head = q[1] /\ (q[j] = q[1] <=> j = 1)
        BY <1>2, <1>8, <4>1 DEF Listed
      <4>3. j # n => r[i + 1] = q[j + 1]
        BY <1>8, <1>9, <4>1
      <4>4. r[i - 1] = IF j = 1 THEN c ELSE q[j - 1]
        BY <1>8, <1>9, <4>1
      <4>5. t.conn[r[i]].next = IF i = n + 1 THEN None ELSE r[i + 1]
        BY <1>6, <1>8, <4>1, <4>2, <4>3, SMTT(30)
      <4>6. t.conn[r[i]].prev = r[i - 1]
        BY <1>6, <4>1, <4>2, <4>4
      <4> QED BY <3>2, <4>5, <4>6
    <3> QED BY <3>1, <3>2
  <2> QED BY <1>8, <1>9, <2>1, <2>2, <2>3, <2>4 DEF Listed
<1>11. Sound(t)
  BY <1>7, <1>10 DEF Sound
<1> QED BY <1>4, <1>5, <1>6, <1>11 DEF t

\* A list of n connections becomes one of n - 1.
LEMMA CloseListed ==
  ASSUME NEW s, NEW c \in Conns, ServerRecord(s), NEW n, NEW q, Listed(s, n, q),
         s.conn[c].phase # "none"
  PROVE  LET t == ServerConnClose(s, c)
         IN /\ ServerRecord(t) /\ \E p : Listed(t, n - 1, p)
            /\ \A d \in Conns : s.conn[d].phase = "none" => t.conn[d].phase = "none"
<1> DEFINE t == ServerConnClose(s, c)
           prev == s.conn[c].prev
           next == s.conn[c].next
           u == ConnUnlink(s, c)
           conns == [d \in Conns |-> CASE d = prev -> [s.conn[d] EXCEPT !.next = next]
                                       [] d = next -> [s.conn[d] EXCEPT !.prev = prev]
                                       [] OTHER -> s.conn[d]]
<1>1. ServerRecord(s)
  OBVIOUS
<1>2. Listed(s, n, q)
  OBVIOUS
<1>3. n \in Nat /\ (\A i \in 1 .. n : q[i] \in Conns) /\ None \notin Conns
  BY <1>2, ServerAssumption DEF Listed
<1>4. PICK k \in 1 .. n : q[k] = c
  BY <1>2 DEF Listed
<1>5. /\ prev = IF k = 1 THEN None ELSE q[k - 1]
      /\ next = IF k = n THEN None ELSE q[k + 1]
  BY <1>2, <1>4, Zenon DEF Listed
<1>6. /\ k # 1 => k - 1 \in 1 .. n
      /\ k # n => k + 1 \in 1 .. n
      /\ \A i, j \in 1 .. n : q[i] = q[j] => i = j
  BY <1>2, <1>3 DEF Listed
<1>7. prev # c /\ next # c /\ (prev = next => prev = None)
  BY <1>3, <1>4, <1>5, <1>6
<1>8. /\ DOMAIN u = ServerFields /\ u.head = (IF prev = None THEN next ELSE s.head)
      /\ u.conn = conns
  BY <1>1 DEF ConnUnlink, ServerRecord, ServerFields
<1>9. /\ DOMAIN t = ServerFields /\ t.head = (IF prev = None THEN next ELSE s.head)
      /\ t.conn = [conns EXCEPT ![c] = NoConn]
  <2>1. t = [u EXCEPT !.conn[c] = NoConn]
    BY DEF ServerConnClose
  <2> HIDE DEF t, u, conns
  <2> QED BY <1>8, <2>1 DEF ServerFields
<1> HIDE DEF t, u, prev, next
<1>10. t.conn[c] = NoConn /\ NoConn.phase = "none" /\ DOMAIN NoConn = ServerConnFields
  BY <1>9 DEF NoConn, ServerConnFields
<1>11. \A d \in Conns \ {c} : /\ DOMAIN t.conn[d] = ServerConnFields
                              /\ t.conn[d].phase = s.conn[d].phase
                              /\ t.conn[d].next = IF d = prev THEN next ELSE s.conn[d].next
                              /\ t.conn[d].prev = IF d = next THEN prev ELSE s.conn[d].prev
  <2> TAKE d \in Conns \ {c}
  <2>1. t.conn[d] = CASE d = prev -> [s.conn[d] EXCEPT !.next = next]
                      [] d = next -> [s.conn[d] EXCEPT !.prev = prev]
                      [] OTHER -> s.conn[d]
    BY <1>9
  <2>2. DOMAIN s.conn[d] = ServerConnFields
    BY <1>1 DEF ServerRecord
  <2>3. d = prev => d # next
    BY <1>3, <1>7
  <2> QED BY <2>1, <2>2, <2>3 DEF ServerConnFields
<1>12. ServerRecord(t)
  BY <1>9, <1>10, <1>11 DEF ServerRecord
<1> DEFINE m == n - 1
           r == [i \in 1 .. m |-> IF i < k THEN q[i] ELSE q[i + 1]]
<1>13. /\ m \in Nat /\ n = m + 1
       /\ \A i \in 1 .. m : i \in 1 .. n /\ i + 1 \in 1 .. n
  BY <1>3, <1>4
<1>14. /\ \A i \in 1 .. m : i < k => r[i] = q[i]
       /\ \A i \in 1 .. m : ~(i < k) => r[i] = q[i + 1]
       /\ r \in [1 .. m -> Conns]
  BY <1>3, <1>13, Zenon
<1> HIDE DEF r, m
<1>15. Listed(t, m, r)
  <2>1. \A i, j \in 1 .. m : r[i] = r[j] => i = j
    BY <1>4, <1>6, <1>13, <1>14
  <2>2. \A i \in 1 .. m : r[i] # c
    BY <1>4, <1>6, <1>13, <1>14
  <2>3. \A d \in Conns : t.conn[d].phase # "none" <=> \E i \in 1 .. m : r[i] = d
    <3> TAKE d \in Conns
    <3>1. CASE d = c
      BY <1>10, <2>2, <3>1
    <3>2. CASE d # c
      <4>1. t.conn[d].phase # "none" <=> \E i \in 1 .. n : q[i] = d
        BY <1>2, <1>11, <3>2, Zenon DEF Listed
      <4>2. ASSUME NEW i \in 1 .. n, q[i] = d PROVE \E j \in 1 .. m : r[j] = d
        <5>1. CASE i < k
          <6>1. i \in 1 .. m
            BY <1>4, <1>13, <5>1
          <6> QED BY <1>14, <4>2, <5>1, <6>1
        <5>2. CASE ~(i < k)
          <6>1. i # k
            BY <1>4, <3>2, <4>2
          <6>2. i - 1 \in 1 .. m /\ ~(i - 1 < k) /\ (i - 1) + 1 = i
            BY <1>4, <1>13, <5>2, <6>1, SMTT(30)
          <6> QED BY <1>14, <4>2, <6>2
        <5> QED BY <5>1, <5>2
      <4>3. ASSUME NEW j \in 1 .. m, r[j] = d PROVE \E i \in 1 .. n : q[i] = d
        BY <1>13, <1>14, <4>3
      <4> QED BY <4>1, <4>2, <4>3, Zenon
    <3> QED BY <3>1, <3>2
  <2>4. t.head = IF m = 0 THEN None ELSE r[1]
    <3>1. CASE k = 1
      <4>1. t.head = IF n = 1 THEN None ELSE q[2]
        BY <1>5, <1>9, <3>1
      <4> QED BY <1>13, <1>14, <3>1, <4>1
    <3>2. CASE k # 1
      <4>1. prev \in Conns /\ s.head = q[1]
        BY <1>2, <1>3, <1>5, <1>6, <1>4, <3>2, SMTT(30) DEF Listed
      <4>2. m # 0 /\ 1 \in 1 .. m /\ 1 < k
        BY <1>4, <1>13, <3>2
      <4> QED BY <1>3, <1>9, <1>14, <4>1, <4>2, Zenon
    <3> QED BY <3>1, <3>2
  <2>5. ASSUME NEW i \in 1 .. m
        PROVE  /\ t.conn[r[i]].next = IF i = m THEN None ELSE r[i + 1]
               /\ t.conn[r[i]].prev = IF i = 1 THEN None ELSE r[i - 1]
    <3> DEFINE j == IF i < k THEN i ELSE i + 1
    <3>1. j \in 1 .. n /\ r[i] = q[j] /\ q[j] \in Conns \ {c} /\ j # k
      BY <1>3, <1>13, <1>14, <1>4, <2>2, Zenon
    <3>2. /\ s.conn[q[j]].next = IF j = n THEN None ELSE q[j + 1]
          /\ s.conn[q[j]].prev = IF j = 1 THEN None ELSE q[j - 1]
      BY <1>2, <3>1, Zenon DEF Listed
    <3>3. (q[j] = prev <=> j = k - 1) /\ (q[j] = next <=> j = k + 1)
      BY <1>3, <1>4, <1>5, <1>6, <3>1, SMTT(30)
    <3>4. t.conn[q[j]].next = IF j = k - 1 THEN next ELSE s.conn[q[j]].next
      BY <1>11, <3>1, <3>3, Zenon
    <3>5. t.conn[q[j]].prev = IF j = k + 1 THEN prev ELSE s.conn[q[j]].prev
      BY <1>11, <3>1, <3>3
    <3>6. i # m => r[i + 1] = IF i + 1 < k THEN q[i + 1] ELSE q[i + 2]
      BY <1>13, <1>14
    <3>7. i # 1 => r[i - 1] = IF i - 1 < k THEN q[i - 1] ELSE q[i]
      BY <1>13, <1>14, SMTT(30)
    <3>8. t.conn[r[i]].next = IF i = m THEN None ELSE r[i + 1]
      BY <1>4, <1>5, <1>13, <3>1, <3>2, <3>4, <3>6, SMTT(30)
    <3>9. t.conn[r[i]].prev = IF i = 1 THEN None ELSE r[i - 1]
      BY <1>4, <1>5, <1>13, <3>1, <3>2, <3>5, <3>7, SMTT(30)
    <3> QED BY <3>8, <3>9
  <2> QED BY <1>13, <1>14, <2>1, <2>3, <2>4, <2>5, Zenon DEF Listed
<1> QED BY <1>10, <1>11, <1>12, <1>15 DEF t, m

LEMMA CloseSound ==
  ASSUME NEW s, NEW c \in Conns, Sound(s), s.conn[c].phase # "none"
  PROVE  ServerKeeps(s, ServerConnClose(s, c))
<1>1. PICK n, q : Listed(s, n, q)
  BY DEF Sound
<1> QED BY <1>1, CloseListed DEF Sound, ServerKeeps

LEMMA ServerStartedSound ==
  ASSUME NEW s, NEW c \in Conns, Sound(s), s.conn[c].phase # "none", NEW t \in ServerStarted(s, c)
  PROVE  ServerKeeps(s, t)
<1>1. t = s \/ t = ServerConnClose(s, c)
  BY DEF ServerStarted
<1>2. ServerKeeps(s, s)
  BY DEF ServerKeeps
<1> QED BY <1>1, <1>2, CloseSound

ServerWithConn(s, c, conn) == [s EXCEPT !.conn[c] = conn]

\* Other fields of a connection in the list change.
LEMMA FieldsSound ==
  ASSUME NEW s, NEW c \in Conns, Sound(s), s.conn[c].phase # "none",
         NEW conn, DOMAIN conn = ServerConnFields, conn.phase # "none",
         conn.next = s.conn[c].next, conn.prev = s.conn[c].prev
  PROVE  LET t == ServerWithConn(s, c, conn)
         IN ServerKeeps(s, t) /\ t.conn[c].phase # "none"
<1> DEFINE t == ServerWithConn(s, c, conn)
<1>1. /\ DOMAIN t = ServerFields /\ DOMAIN t.conn = Conns /\ t.head = s.head
      /\ t.conn[c] = conn /\ \A d \in Conns \ {c} : t.conn[d] = s.conn[d]
  BY DEF ServerWithConn, Sound, ServerRecord, ServerFields
<1> HIDE DEF t
<1>2. ServerRecord(t)
  BY <1>1 DEF ServerRecord, Sound
<1>3. \A d \in Conns : /\ t.conn[d].next = s.conn[d].next /\ t.conn[d].prev = s.conn[d].prev
                       /\ t.conn[d].phase = "none" <=> s.conn[d].phase = "none"
  BY <1>1
<1>4. ServerKeeps(s, t)
  BY <1>1, <1>2, <1>3, SameList, Zenon
<1> QED BY <1>1, <1>4 DEF t

LEMMA ReadHeaderSound ==
  ASSUME NEW s, NEW c \in Conns, Sound(s), s.conn[c].phase # "none"
  PROVE  ServerKeeps(s, ReadHeader(s, c)) /\ ReadHeader(s, c).conn[c].phase # "none"
<1> DEFINE conn == [s.conn[c] EXCEPT !.phase = "header", !.frame = HeaderSize, !.progress = 0,
                                     !.sent = 0]
<1>1. /\ DOMAIN conn = ServerConnFields /\ conn.phase # "none"
      /\ conn.next = s.conn[c].next /\ conn.prev = s.conn[c].prev
  BY DEF Sound, ServerRecord, ServerConnFields
<1>2. ReadHeader(s, c) = ServerWithConn(s, c, conn)
  BY DEF ReadHeader, ServerWithConn, Sound, ServerRecord, ServerFields
<1> HIDE DEF conn
<1> QED BY <1>1, <1>2, FieldsSound

LEMMA ConnWriteSound ==
  ASSUME NEW s, NEW c \in Conns, Sound(s), s.conn[c].phase # "none"
  PROVE  ServerKeeps(s, ConnWrite(s, c)) /\ ConnWrite(s, c).conn[c].phase # "none"
<1> DEFINE conn == [s.conn[c] EXCEPT !.phase = "write", !.progress = 0, !.sent = 0]
<1>1. /\ DOMAIN conn = ServerConnFields /\ conn.phase # "none"
      /\ conn.next = s.conn[c].next /\ conn.prev = s.conn[c].prev
  BY DEF Sound, ServerRecord, ServerConnFields
<1>2. ConnWrite(s, c) = ServerWithConn(s, c, conn)
  BY DEF ConnWrite, ServerWithConn, Sound, ServerRecord, ServerFields
<1> HIDE DEF conn
<1> QED BY <1>1, <1>2, FieldsSound

LEMMA ReadPayloadSound ==
  ASSUME NEW s, NEW c \in Conns, Sound(s), s.conn[c].phase # "none", NEW t \in ReadPayload(s, c)
  PROVE  ServerKeeps(s, t)
<1> DEFINE size == PayloadSize(s.conn[c].buf)
           conn == [s.conn[c] EXCEPT !.phase = "payload", !.progress = HeaderSize,
                                     !.frame = HeaderSize + size]
           u == ServerWithConn(s, c, conn)
           w == ConnWrite(u, c)
<1>1. \/ t = ServerConnClose(s, c)
      \/ t \in ServerStarted(w, c)
      \/ t \in ServerStarted(u, c)
  <2> HIDE DEF size
  <2>1. u = [s EXCEPT !.conn[c] = [@ EXCEPT !.phase = "payload", !.progress = HeaderSize,
                                            !.frame = HeaderSize + size]]
    BY DEF ServerWithConn, Sound, ServerRecord, ServerFields
  <2> HIDE DEF u
  <2> QED BY <2>1 DEF ReadPayload, size
<1>2. /\ DOMAIN conn = ServerConnFields /\ conn.phase # "none"
      /\ conn.next = s.conn[c].next /\ conn.prev = s.conn[c].prev
  BY DEF Sound, ServerRecord, ServerConnFields
<1>3. ServerKeeps(s, u) /\ u.conn[c].phase # "none"
  <2> HIDE DEF conn
  <2> QED BY <1>2, FieldsSound
<1> HIDE DEF u
<1>4. ServerKeeps(u, w) /\ w.conn[c].phase # "none"
  BY <1>3, ConnWriteSound DEF ServerKeeps
<1> HIDE DEF w
<1>5. Sound(u) /\ Sound(w)
  BY <1>3, <1>4 DEF ServerKeeps
<1>6. ServerKeeps(s, t) \/ ServerKeeps(w, t) \/ ServerKeeps(u, t)
  BY <1>1, <1>3, <1>4, <1>5, CloseSound, ServerStartedSound, Zenon
<1> QED BY <1>3, <1>4, <1>6, ServerKeepsChain

\* A connection that has not reached the server is not in the list.
ServerInv ==
  /\ Sound(server)
  /\ \A c \in Conns : Unseen(c) => c \notin backlog /\ server.conn[c].phase = "none"
  /\ \A c \in backlog : c \in Conns /\ server.conn[c].phase = "none"

\* A step of the server that accepts no connection
LEMMA NoAcceptSound ==
  ASSUME ServerInv, ServerKeeps(server, server'), UNCHANGED clientVars, backlog' \subseteq backlog
  PROVE  ServerInv'
<1>1. \A c \in Conns : Unseen(c)' <=> Unseen(c)
  BY DEF clientVars, Unseen
<1> QED BY <1>1 DEF ServerInv, ServerKeeps

LEMMA OnAcceptSound ==
  ASSUME ServerInv, NEW c \in Conns, OnAccept(c), UNCHANGED clientVars
  PROVE  ServerInv'
<1> DEFINE a == AllocUserdata(server, c)
           h == ReadHeader(a, c)
<1>1. Sound(server) /\ c \in backlog /\ server.conn[c].phase = "none" /\ backlog' = backlog \ {c}
  BY DEF ServerInv, OnAccept
<1>2. PICK s \in ServerStarted(h, c) : server' \in {s, AcceptRefused(s)}
  BY DEF OnAccept
<1>3. /\ Sound(a) /\ a.conn[c].phase # "none"
      /\ \A d \in Conns \ {c} : server.conn[d].phase = "none" => a.conn[d].phase = "none"
  BY <1>1, AllocSound
<1> HIDE DEF a
<1>4. ServerKeeps(a, h) /\ h.conn[c].phase # "none"
  BY <1>3, ReadHeaderSound
<1> HIDE DEF h
<1>5. ServerKeeps(h, s)
  BY <1>4, ServerStartedSound, Zenon DEF ServerKeeps
<1>6. ServerKeeps(s, server')
  <2>1. Sound(s)
    BY <1>5 DEF ServerKeeps
  <2>2. server' = s \/ server' = AcceptRefused(s)
    BY <1>2
  <2>3. server'.conn = s.conn /\ server'.head = s.head /\ DOMAIN server' = ServerFields
    BY <2>1, <2>2, Zenon DEF AcceptRefused, Sound, ServerRecord, ServerFields
  <2>4. ServerRecord(server')
    BY <2>1, <2>3 DEF Sound, ServerRecord
  <2> QED BY <2>1, <2>3, <2>4, SameList
<1>7. ServerKeeps(a, server')
  BY <1>4, <1>5, <1>6, ServerKeepsChain, Zenon
<1>8. \A d \in Conns : Unseen(d)' <=> Unseen(d)
  BY DEF clientVars, Unseen
<1>9. \A d \in Conns \ {c} : server.conn[d].phase = "none" => server'.conn[d].phase = "none"
  BY <1>3, <1>7 DEF ServerKeeps
<1>10. \A d \in Conns : Unseen(d) => d # c
  BY <1>1 DEF ServerInv
<1>11. Sound(server')
  BY <1>7 DEF ServerKeeps
<1> QED BY <1>1, <1>8, <1>9, <1>10, <1>11, Zenon DEF ServerInv

LEMMA ServerOnReadSound ==
  ASSUME ServerInv, NEW c \in Conns, ServerOnRead(c), UNCHANGED clientVars
  PROVE  ServerInv'
<1> DEFINE conn == server.conn[c]
           after(n) == [conn EXCEPT !.progress = conn.progress + n,
                                    !.buf = Stored(@, conn.progress, SubSeq(net[c].up, 1, n))]
           read(n) == ServerWithConn(server, c, after(n))
<1>1. Sound(server) /\ conn.phase # "none"
  BY DEF ServerInv, ServerOnRead
<1>2. PICK n : \/ server' \in ServerStarted(read(n), c)
               \/ server' \in ReadPayload(read(n), c)
               \/ server' \in ServerStarted(ConnWrite(read(n), c), c)
  BY Zenon DEF ServerOnRead, ServerWithConn
<1>3. /\ DOMAIN after(n) = ServerConnFields /\ after(n).phase # "none"
      /\ after(n).next = conn.next /\ after(n).prev = conn.prev
  BY <1>1, Zenon DEF Sound, ServerRecord, ServerConnFields
<1> DEFINE s == read(n)
           w == ConnWrite(s, c)
<1>4. ServerKeeps(server, s) /\ s.conn[c].phase # "none"
  <2> HIDE DEF after
  <2> QED BY <1>1, <1>3, FieldsSound
<1>5. \/ server' \in ServerStarted(s, c) \/ server' \in ReadPayload(s, c)
      \/ server' \in ServerStarted(w, c)
  BY <1>2
<1> HIDE DEF s
<1>6. Sound(s)
  BY <1>4 DEF ServerKeeps
<1>7. ServerKeeps(s, w) /\ w.conn[c].phase # "none"
  BY <1>4, <1>6, ConnWriteSound, Zenon
<1> HIDE DEF w
<1>8. ServerKeeps(s, server') \/ ServerKeeps(w, server')
  <2>1. Sound(w)
    BY <1>7 DEF ServerKeeps
  <2> QED BY <1>4, <1>5, <1>6, <1>7, <2>1, ServerStartedSound, ReadPayloadSound, Zenon
<1>9. ServerKeeps(server, server')
  BY <1>4, <1>7, <1>8, ServerKeepsChain, Zenon
<1>10. backlog' = backlog
  BY DEF ServerOnRead
<1> QED BY <1>9, <1>10, NoAcceptSound

LEMMA ServerOnWriteSound ==
  ASSUME ServerInv, NEW c \in Conns, ServerOnWrite(c), UNCHANGED clientVars
  PROVE  ServerInv'
<1> DEFINE conn == server.conn[c]
           progress == conn.progress + conn.sent
           after == [conn EXCEPT !.progress = progress, !.sent = 0]
           s == ServerWithConn(server, c, after)
           h == ReadHeader(server, c)
<1>1. Sound(server) /\ conn.phase # "none"
  BY DEF ServerInv, ServerOnWrite
<1>2. server' \in ServerStarted(s, c) \/ server' \in ServerStarted(h, c)
  <2>1. s = [server EXCEPT !.conn[c].progress = progress, !.conn[c].sent = 0]
    BY <1>1, Zenon DEF ServerWithConn, Sound, ServerRecord, ServerFields, ServerConnFields
  <2> HIDE DEF s
  <2> QED BY <2>1 DEF ServerOnWrite
<1>3. /\ DOMAIN after = ServerConnFields /\ after.phase # "none"
      /\ after.next = conn.next /\ after.prev = conn.prev
  BY <1>1, Zenon DEF Sound, ServerRecord, ServerConnFields
<1>4. ServerKeeps(server, s) /\ s.conn[c].phase # "none"
  <2> HIDE DEF after
  <2> QED BY <1>1, <1>3, FieldsSound
<1>5. ServerKeeps(server, h) /\ h.conn[c].phase # "none"
  BY <1>1, ReadHeaderSound, Zenon
<1> HIDE DEF s, h
<1>6. ServerKeeps(s, server') \/ ServerKeeps(h, server')
  BY <1>2, <1>4, <1>5, ServerStartedSound DEF ServerKeeps
<1>7. ServerKeeps(server, server')
  BY <1>4, <1>5, <1>6, ServerKeepsChain
<1>8. backlog' = backlog
  BY DEF ServerOnWrite
<1> QED BY <1>7, <1>8, NoAcceptSound

-----------------------------------------------------------------------------
(* server_close_connections().                                              *)

\* A step of its loop
CloseHead(s) == IF s.head = None THEN s ELSE ServerConnClose(s, s.head)

\* f[0] .. f[k] are the states of the loop that starts in s.
Closing(f, k, s) ==
  /\ DOMAIN f = 0 .. k /\ f[0] = s
  /\ \A i \in 1 .. k : f[i] = CloseHead(f[i - 1])

LEMMA ClosingExists ==
  ASSUME NEW k \in Nat, NEW s
  PROVE  \E f : Closing(f, k, s)
<1> DEFINE S == {j \in Nat : ~\E f : Closing(f, j, s)}
<1> SUFFICES ASSUME S # {} PROVE FALSE
  OBVIOUS
<1>1. PICK j \in S : \A i \in S : j <= i
  BY LeastOf, Zenon
<1>2. CASE j = 0
  <2>1. Closing([i \in 0 .. 0 |-> s], 0, s)
    BY DEF Closing
  <2> QED BY <1>2, <2>1
<1>3. CASE j # 0
  <2>1. j - 1 \in Nat /\ ~(j <= j - 1)
    BY <1>3
  <2>2. PICK f : Closing(f, j - 1, s)
    BY <1>1, <2>1
  <2> DEFINE g == [i \in 0 .. j |-> IF i = j THEN CloseHead(f[j - 1]) ELSE f[i]]
  <2>3. Closing(g, j, s)
    <3>1. DOMAIN g = 0 .. j /\ g[0] = s
      BY <1>3, <2>2 DEF Closing
    <3>2. \A i \in 1 .. j : g[i] = CloseHead(g[i - 1])
      <4> TAKE i \in 1 .. j
      <4>1. g[i - 1] = f[i - 1]
        OBVIOUS
      <4>2. CASE i = j
        BY <4>1, <4>2, SMTT(30)
      <4>3. CASE i # j
        <5>1. i \in 1 .. j - 1 /\ g[i] = f[i]
          BY <4>3
        <5> QED BY <2>2, <4>1, <5>1 DEF Closing
      <4> QED BY <4>2, <4>3
    <3> HIDE DEF g
    <3> QED BY <3>1, <3>2 DEF Closing
  <2> QED BY <2>3
<1> QED BY <1>2, <1>3

LEMMA ClosingAgrees ==
  ASSUME NEW k \in Nat, NEW m \in Nat, NEW s, NEW f, NEW g, Closing(f, k, s), Closing(g, m, s)
  PROVE  \A i \in Nat : i <= k /\ i <= m => f[i] = g[i]
<1> DEFINE S == {i \in Nat : i <= k /\ i <= m /\ f[i] # g[i]}
<1> SUFFICES ASSUME S # {} PROVE FALSE
  OBVIOUS
<1>1. PICK i \in S : \A j \in S : i <= j
  BY LeastOf, Zenon
<1>2. i # 0
  BY <1>1 DEF Closing
<1>3. i - 1 \in Nat /\ i - 1 <= k /\ i - 1 <= m /\ ~(i <= i - 1)
  BY <1>2
<1>4. f[i - 1] = g[i - 1]
  BY <1>1, <1>3
<1>5. i \in 1 .. k /\ i \in 1 .. m
  BY <1>2
<1> QED BY <1>4, <1>5 DEF Closing

\* The list is no longer than there are connections.
LEMMA ListIsShort ==
  ASSUME NEW s, NEW n, NEW q, Listed(s, n, q)
  PROVE  n <= Cardinality(Conns) /\ Cardinality(Conns) \in Nat
<1>1. n \in Nat /\ q \in Injection(1 .. n, Conns)
  BY DEF Listed, Injection, IsInjective
<1>2. Cardinality(1 .. n) <= Cardinality(Conns)
  BY <1>1, FS_Injection, ConnsAssumption, Zenon
<1>3. Cardinality(1 .. n) = n
  BY <1>1, FS_Interval
<1>4. Cardinality(Conns) \in Nat
  BY FS_CardinalityType, ConnsAssumption, Zenon
<1> QED BY <1>2, <1>3, <1>4

\* After k steps of the loop k connections of the list are closed.
LEMMA ClosingEmpties ==
  ASSUME NEW s, ServerRecord(s), NEW n, NEW q, Listed(s, n, q), NEW f,
         f[0] = s, \A k \in Nat \ {0} : f[k] = CloseHead(f[k - 1])
  PROVE  \A k \in Nat : k <= n => ServerRecord(f[k]) /\ \E p : Listed(f[k], n - k, p)
<1> DEFINE Good(k) == ServerRecord(f[k]) /\ \E p : Listed(f[k], n - k, p)
           S == {k \in Nat : k <= n /\ ~Good(k)}
<1>1. n \in Nat
  BY DEF Listed
<1> SUFFICES ASSUME S # {} PROVE FALSE
  OBVIOUS
<1>2. PICK k \in S : \A i \in S : k <= i
  BY LeastOf, Zenon
<1>3. k # 0
  <2>1. n - 0 = n
    BY <1>1
  <2>2. Good(0)
    BY <2>1
  <2> QED BY <2>2
<1> DEFINE t == f[k - 1]
           m == n - (k - 1)
<1>4. k - 1 \in Nat /\ k - 1 <= n /\ ~(k <= k - 1) /\ m \in Nat \ {0} /\ m - 1 = n - k
  BY <1>1, <1>3
<1>5. Good(k - 1)
  BY <1>2, <1>4
<1>6. PICK p : Listed(t, m, p)
  BY <1>5, Zenon
<1> HIDE DEF t, m
<1>7. t.head = p[1] /\ p[1] \in Conns /\ t.conn[p[1]].phase # "none" /\ t.head # None
  BY <1>4, <1>6, ServerAssumption, SMTT(30) DEF Listed
<1>8. f[k] = ServerConnClose(t, t.head)
  BY <1>3, <1>7 DEF CloseHead, t
<1>9. ServerRecord(t)
  BY <1>5, Zenon DEF t
<1>10. ServerRecord(f[k]) /\ \E r : Listed(f[k], m - 1, r)
  BY <1>6, <1>7, <1>8, <1>9, CloseListed, SMTT(30)
<1>11. Good(k)
  BY <1>4, <1>10
<1> QED BY <1>11

\* A list that is empty stays empty.
LEMMA ClosedStays ==
  ASSUME NEW f, NEW n \in Nat, f[n].head = None, \A k \in Nat \ {0} : f[k] = CloseHead(f[k - 1])
  PROVE  \A k \in Nat : n <= k => f[k] = f[n]
<1> DEFINE S == {k \in Nat : n <= k /\ f[k] # f[n]}
<1> SUFFICES ASSUME S # {} PROVE FALSE
  OBVIOUS
<1>1. PICK k \in S : \A i \in S : k <= i
  BY LeastOf, Zenon
<1>2. k # n
  OBVIOUS
<1>3. k - 1 \in Nat /\ n <= k - 1 /\ ~(k <= k - 1) /\ k # 0
  BY <1>2
<1>4. f[k - 1] = f[n]
  BY <1>1, <1>3
<1> QED BY <1>3, <1>4 DEF CloseHead

LEMMA ServerEndSound ==
  ASSUME ServerInv, ServerEnd, UNCHANGED clientVars
  PROVE  ServerInv' /\ Allocated' = {}
<1> DEFINE part(k) == CHOOSE f : Closing(f, k, server)
           F == [k \in Nat |-> part(k)[k]]
<1>1. \A k \in Nat : Closing(part(k), k, server)
  <2> TAKE k \in Nat
  <2>1. \E f : Closing(f, k, server)
    BY ClosingExists
  <2> QED BY <2>1
<1>2. F[0] = server
  BY <1>1, Zenon DEF Closing
<1>3. \A k \in Nat : k # 0 => F[k] = CloseHead(F[k - 1])
  <2> SUFFICES ASSUME NEW k \in Nat, k # 0 PROVE F[k] = CloseHead(F[k - 1])
    BY Zenon
  <2>1. k - 1 \in Nat /\ k - 1 <= k /\ k - 1 <= k - 1 /\ k \in 1 .. k
    OBVIOUS
  <2>2. Closing(part(k), k, server) /\ Closing(part(k - 1), k - 1, server)
    BY <1>1, <2>1
  <2>3. part(k)[k - 1] = part(k - 1)[k - 1]
    <3> HIDE DEF part
    <3> QED BY <2>1, <2>2, ClosingAgrees
  <2>4. part(k)[k] = CloseHead(part(k)[k - 1])
    <3> HIDE DEF part
    <3> QED BY <2>1, <2>2 DEF Closing
  <2>5. F[k] = part(k)[k] /\ F[k - 1] = part(k - 1)[k - 1]
    BY <2>1
  <2> HIDE DEF F, part
  <2> QED BY <2>3, <2>4, <2>5
<1>4. F = [k \in Nat |-> F[k]]
  OBVIOUS
<1> HIDE DEF F
<1>5. F = [k \in Nat |-> IF k = 0 THEN server
                                  ELSE IF F[k - 1].head = None THEN F[k - 1]
                                       ELSE ServerConnClose(F[k - 1], F[k - 1].head)]
  BY <1>2, <1>3, <1>4, Zenon DEF CloseHead
<1>6. PICK f : /\ f = [k \in Nat |-> IF k = 0 THEN server
                                      ELSE IF f[k - 1].head = None THEN f[k - 1]
                                           ELSE ServerConnClose(f[k - 1], f[k - 1].head)]
               /\ server' = [f[Cardinality(Conns)] EXCEPT !.pc = "ended", !.accepting = FALSE]
  <2> DEFINE closed[k \in Nat] ==
               IF k = 0 THEN server
                        ELSE IF closed[k - 1].head = None THEN closed[k - 1]
                             ELSE ServerConnClose(closed[k - 1], closed[k - 1].head)
  <2>1. server' = [closed[Cardinality(Conns)] EXCEPT !.pc = "ended", !.accepting = FALSE]
    BY DEF ServerEnd
  <2>2. closed = [k \in Nat |-> IF k = 0 THEN server
                                ELSE IF closed[k - 1].head = None THEN closed[k - 1]
                                     ELSE ServerConnClose(closed[k - 1], closed[k - 1].head)]
    BY <1>5, Zenon
  <2> HIDE DEF closed
  <2> QED BY <2>1, <2>2, Zenon
<1>7. f[0] = server /\ \A k \in Nat \ {0} : f[k] = CloseHead(f[k - 1])
  <2>1. f[0] = server
    BY <1>6
  <2>2. ASSUME NEW k \in Nat \ {0} PROVE f[k] = CloseHead(f[k - 1])
    <3>1. f[k] = IF k = 0 THEN server
                          ELSE IF f[k - 1].head = None THEN f[k - 1]
                               ELSE ServerConnClose(f[k - 1], f[k - 1].head)
      BY <1>6, Zenon
    <3> QED BY <3>1 DEF CloseHead
  <2> QED BY <2>1, <2>2
<1>8. PICK n, q : Listed(server, n, q)
  BY DEF ServerInv, Sound
<1>9. n \in Nat /\ n <= Cardinality(Conns) /\ Cardinality(Conns) \in Nat /\ n - n = 0 /\ n <= n
  <2>1. n \in Nat
    BY <1>8 DEF Listed
  <2>2. n <= Cardinality(Conns) /\ Cardinality(Conns) \in Nat
    BY <1>8, ListIsShort, Zenon
  <2> QED BY <2>1, <2>2
<1>10. PICK p : ServerRecord(f[n]) /\ Listed(f[n], 0, p)
  <2>1. ServerRecord(server)
    BY Zenon DEF ServerInv, Sound
  <2>2. ServerRecord(f[n]) /\ \E p : Listed(f[n], n - n, p)
    BY <1>7, <1>8, <1>9, <2>1, ClosingEmpties, Zenon
  <2> QED BY <1>9, <2>2, Zenon
<1>11. f[n].head = None /\ \A c \in Conns : f[n].conn[c].phase = "none"
  BY <1>10, SMTT(30) DEF Listed
<1>12. f[Cardinality(Conns)] = f[n]
  BY <1>7, <1>9, <1>11, ClosedStays, Zenon
<1>13. /\ DOMAIN server' = ServerFields /\ server'.conn = f[n].conn /\ server'.head = f[n].head
  BY <1>6, <1>10, <1>12, Zenon DEF ServerRecord, ServerFields
<1>14. ServerRecord(server') /\ Listed(server', 0, p)
  BY <1>10, <1>13, Zenon DEF ServerRecord, Listed
<1>15. ServerKeeps(server, server')
  BY <1>11, <1>13, <1>14 DEF ServerKeeps, Sound
<1>16. backlog' \subseteq backlog
  BY DEF ServerEnd
<1>17. Allocated' = {}
  BY <1>11, <1>13 DEF Allocated
<1> QED BY <1>15, <1>16, <1>17, NoAcceptSound, Zenon

-----------------------------------------------------------------------------
(* The list is sound.                                                       *)

LEMMA ServerOthersSound ==
  ASSUME ServerInv, UNCHANGED clientVars,
         \/ \E c \in Conns : OnAcceptNoMemory(c) \/ ServerOpEnds(c) \/ ServerSends(c)
         \/ OnAcceptError \/ ServerSignal
  PROVE  ServerInv'
<1>1. Sound(server)
  BY Zenon DEF ServerInv
<1>2. ASSUME NEW t, t.conn = server.conn, t.head = server.head, DOMAIN t = ServerFields
      PROVE  ServerKeeps(server, t)
  <2>1. ServerRecord(t)
    BY <1>1, <1>2 DEF Sound, ServerRecord
  <2> QED BY <1>1, <1>2, <2>1, SameList, Zenon
<1>3. LET t == AcceptRefused(server)
      IN t.conn = server.conn /\ t.head = server.head /\ DOMAIN t = ServerFields
  BY <1>1 DEF AcceptRefused, Sound, ServerRecord, ServerFields
<1>4. ServerKeeps(server, server) /\ ServerKeeps(server, AcceptRefused(server))
  BY <1>1, <1>2, <1>3 DEF Sound, ServerRecord
<1>5. ASSUME NEW c \in Conns, OnAcceptNoMemory(c) PROVE ServerInv'
  <2>1. server' \in {server, AcceptRefused(server)} /\ backlog' \subseteq backlog
    BY <1>5, Zenon DEF OnAcceptNoMemory
  <2> QED BY <1>4, <2>1, NoAcceptSound, Zenon
<1>6. ASSUME NEW c \in Conns, ServerOpEnds(c) PROVE ServerInv'
  <2>1. /\ server' = ServerConnClose(server, c) /\ backlog' = backlog
        /\ server.conn[c].phase # "none"
    BY <1>6, Zenon DEF ServerOpEnds, Allocated
  <2> QED BY <1>1, <2>1, CloseSound, NoAcceptSound, Zenon
<1>7. ASSUME NEW c \in Conns, ServerSends(c) PROVE ServerInv'
  <2>1. server.conn[c].phase # "none" /\ backlog' = backlog
    BY <1>7, Zenon DEF ServerSends
  <2>2. PICK n : server' = [server EXCEPT !.conn[c].sent = n]
    BY <1>7, Zenon DEF ServerSends
  <2> DEFINE conn == [server.conn[c] EXCEPT !.sent = n]
  <2>3. /\ DOMAIN conn = ServerConnFields /\ conn.phase # "none"
        /\ conn.next = server.conn[c].next /\ conn.prev = server.conn[c].prev
    BY <1>1, <2>1 DEF Sound, ServerRecord, ServerConnFields
  <2>4. server' = ServerWithConn(server, c, conn)
    BY <1>1, <2>2, Zenon DEF ServerWithConn, Sound, ServerRecord, ServerFields
  <2> HIDE DEF conn
  <2>5. ServerKeeps(server, server')
    BY <1>1, <2>1, <2>3, <2>4, FieldsSound, Zenon
  <2> QED BY <2>1, <2>5, NoAcceptSound, SMTT(30)
<1>8. CASE OnAcceptError
  BY <1>4, <1>8, NoAcceptSound DEF OnAcceptError, netVars
<1>9. CASE ServerSignal
  <2>1. server' = [server EXCEPT !.isBreak = TRUE] /\ backlog' = backlog
    BY <1>9 DEF ServerSignal, netVars
  <2>2. server'.conn = server.conn /\ server'.head = server.head /\ DOMAIN server' = ServerFields
    BY <1>1, <2>1 DEF Sound, ServerRecord, ServerFields
  <2> QED BY <1>2, <2>1, <2>2, NoAcceptSound, Zenon
<1> QED BY <1>5, <1>6, <1>7, <1>8, <1>9, Zenon

LEMMA ServerInvariance == Spec => []ServerInv
<1>1. Init => ServerInv
  <2> SUFFICES ASSUME Init PROVE ServerInv
    BY Zenon
  <2>1. backlog = {} /\ server.conn = [c \in Conns |-> NoConn] /\ server.head = None
        /\ DOMAIN server = ServerFields
    BY Zenon DEF Init, NetInit, ServerInit, ServerFields
  <2>2. ServerRecord(server) /\ \A c \in Conns : server.conn[c].phase = "none"
    BY <2>1 DEF ServerRecord, ServerConnFields, NoConn
  <2>3. Listed(server, 0, [i \in 1 .. 0 |-> None])
    BY <2>1, <2>2 DEF Listed
  <2> QED BY <2>1, <2>2, <2>3 DEF ServerInv, Sound
<1>2. ClientInv /\ ServerInv /\ [Next]_vars => ServerInv'
  <2> SUFFICES ASSUME ClientInv, ServerInv, [Next]_vars PROVE ServerInv'
    OBVIOUS
  <2>1. CASE ClientNext /\ UNCHANGED server
    <3>1. Reaches
      BY <2>1, ClientStepCounts
    <3> QED BY <2>1, <3>1 DEF ServerInv, Reaches
  <2>2. CASE ServerNext /\ UNCHANGED clientVars
    BY <2>2, OnAcceptSound, ServerOnReadSound, ServerOnWriteSound, ServerOthersSound,
       ServerEndSound, Zenon DEF ServerNext
  <2>3. CASE UNCHANGED <<clientVars, server, backlog>>
    BY <2>3, SMTT(30) DEF ServerInv, Unseen, clientVars
  <2>4. (\E c \in Conns : Break(c)) \/ UNCHANGED vars => UNCHANGED <<clientVars, server, backlog>>
    BY Zenon DEF Break, vars, clientVars, netVars
  <2> QED BY <2>1, <2>2, <2>3, <2>4 DEF Next
<1> QED BY <1>1, <1>2, ClientInvariance, PTL DEF Spec

LEMMA WalkFollowsList ==
  ASSUME NEW n, NEW q, Listed(server, n, q), NEW walk, NEW N \in Nat, n <= N,
         walk = [k \in 0 .. N |-> IF k = 0 THEN server.head
                                   ELSE IF walk[k - 1] = None THEN None
                                        ELSE server.conn[walk[k - 1]].next]
  PROVE  \A k \in Nat : k <= N => walk[k] = IF k < n THEN q[k + 1] ELSE None
<1> DEFINE S == {k \in Nat : k <= N /\ walk[k] # IF k < n THEN q[k + 1] ELSE None}
<1> SUFFICES ASSUME S # {} PROVE FALSE
  BY Zenon
<1>1. PICK k \in S : \A i \in S : k <= i
  BY LeastOf, Zenon
<1>2. n \in Nat /\ None \notin Conns /\ \A i \in 1 .. n : q[i] \in Conns
  BY ServerAssumption, Zenon DEF Listed
<1>3. walk[0] = server.head /\ server.head = IF n = 0 THEN None ELSE q[1]
  BY SMTT(30) DEF Listed
<1>4. k # 0
  <2>1. walk[0] = IF 0 < n THEN q[0 + 1] ELSE None
    BY <1>2, <1>3, SMTT(30)
  <2> QED BY <2>1, Zenon
<1>5. k - 1 \in Nat /\ k - 1 <= N /\ ~(k <= k - 1) /\ k \in 0 .. N /\ (k - 1) + 1 = k
  BY <1>4, SMTT(30)
<1>6. walk[k - 1] = IF k - 1 < n THEN q[(k - 1) + 1] ELSE None
  BY <1>1, <1>5, Zenon
<1>7. walk[k] = IF walk[k - 1] = None THEN None ELSE server.conn[walk[k - 1]].next
  BY <1>4, <1>5, SMTT(30)
<1>8. CASE k - 1 < n
  <2>1. k \in 1 .. n /\ walk[k - 1] = q[k] /\ q[k] # None
    BY <1>2, <1>4, <1>5, <1>6, <1>8, SMTT(30)
  <2>2. server.conn[q[k]].next = IF k = n THEN None ELSE q[k + 1]
    BY <2>1, Zenon DEF Listed
  <2>3. k < n <=> k # n
    BY <1>2, <2>1, SMTT(30)
  <2> QED BY <1>7, <2>1, <2>2, <2>3, Zenon
<1>9. CASE ~(k - 1 < n)
  <2>1. ~(k < n)
    BY <1>2, <1>5, <1>9
  <2> QED BY <1>6, <1>7, <1>9, <2>1, Zenon
<1> QED BY <1>8, <1>9, Zenon

LEMMA SoundIsSound == ServerInv => ListIsSound
<1> SUFFICES ASSUME ServerInv PROVE ListIsSound
  OBVIOUS
<1> DEFINE N == Cardinality(Conns)
           walk[k \in 0 .. N] ==
             IF k = 0 THEN server.head
                      ELSE IF walk[k - 1] = None THEN None ELSE server.conn[walk[k - 1]].next
           listed == {walk[k] : k \in 0 .. N} \ {None}
<1>1. PICK n, q : Listed(server, n, q)
  BY DEF ServerInv, Sound
<1>2. /\ n \in Nat /\ None \notin Conns /\ (\A i \in 1 .. n : q[i] \in Conns)
      /\ server.head = IF n = 0 THEN None ELSE q[1]
  BY <1>1, ServerAssumption DEF Listed
<1>3. n <= N /\ N \in Nat
  BY <1>1, ListIsShort, Zenon
<1> HIDE DEF N, walk
<1> DEFINE w == [k \in 0 .. N |-> IF k < n THEN q[k + 1] ELSE None]
<1>4. \A k \in 0 .. N : w[k] = IF k = 0 THEN server.head
                                 ELSE IF w[k - 1] = None THEN None ELSE server.conn[w[k - 1]].next
  <2> TAKE k \in 0 .. N
  <2>1. w[k] = IF k < n THEN q[k + 1] ELSE None
    OBVIOUS
  <2>2. k # 0 => w[k - 1] = IF k - 1 < n THEN q[k] ELSE None
    BY <1>3
  <2> HIDE DEF w
  <2>3. CASE k = 0
    BY <1>2, <2>1, <2>3, SMTT(30)
  <2>4. CASE k # 0 /\ k - 1 < n
    <3>1. k \in 1 .. n
      BY <1>2, <1>3, <2>4, SMTT(30)
    <3>2. server.conn[q[k]].next = IF k = n THEN None ELSE q[k + 1]
      BY <1>1, <3>1 DEF Listed
    <3>3. q[k] # None /\ (k < n <=> k # n)
      BY <1>2, <3>1, SMTT(30)
    <3> QED BY <2>1, <2>2, <2>4, <3>2, <3>3, Zenon
  <2>5. CASE k # 0 /\ ~(k - 1 < n)
    BY <1>2, <1>3, <2>1, <2>2, <2>5, SMTT(30)
  <2> QED BY <2>3, <2>4, <2>5, Zenon
<1>5. w = [k \in 0 .. N |-> w[k]]
  OBVIOUS
<1> HIDE DEF w
<1>6. w = [k \in 0 .. N |-> IF k = 0 THEN server.head
                             ELSE IF w[k - 1] = None THEN None ELSE server.conn[w[k - 1]].next]
  BY <1>4, <1>5, Zenon
<1>7. walk = [k \in 0 .. N |-> IF k = 0 THEN server.head
                                ELSE IF walk[k - 1] = None THEN None
                                     ELSE server.conn[walk[k - 1]].next]
  BY <1>6, Zenon DEF walk
<1>8. \A k \in Nat : k <= N => walk[k] = IF k < n THEN q[k + 1] ELSE None
  BY <1>1, <1>3, <1>7, WalkFollowsList, Zenon
<1>9. \A c \in Conns : c \in Allocated <=> \E i \in 1 .. n : q[i] = c
  BY <1>1 DEF Listed, Allocated
<1>10. listed = Allocated
  <2>1. ASSUME NEW c \in listed PROVE c \in Allocated
    <3>1. PICK k \in 0 .. N : c = walk[k] /\ c # None
      BY <2>1
    <3>2. k \in Nat /\ k <= N
      BY <1>3
    <3>3. k < n /\ c = q[k + 1]
      BY <1>8, <3>1, <3>2, Zenon
    <3>4. k + 1 \in 1 .. n
      BY <1>2, <3>2, <3>3, SMTT(30)
    <3> QED BY <1>2, <1>9, <3>3, <3>4
  <2>2. ASSUME NEW c \in Allocated PROVE c \in listed
    <3>1. c \in Conns /\ c # None
      BY <1>2 DEF Allocated
    <3>2. PICK i \in 1 .. n : q[i] = c
      BY <1>9, <2>2, <3>1
    <3>3. i - 1 \in Nat /\ i - 1 <= N /\ i - 1 < n /\ (i - 1) + 1 = i /\ i - 1 \in 0 .. N
      BY <1>2, <1>3
    <3>4. walk[i - 1] = c
      BY <1>8, <3>2, <3>3, Zenon
    <3> QED BY <3>1, <3>3, <3>4, Zenon
  <2> QED BY <2>1, <2>2
<1>11. walk[N] = None
  BY <1>2, <1>3, <1>8, SMTT(30)
<1>12. ASSUME NEW c \in Allocated
       PROVE  IF server.conn[c].prev = None THEN server.head = c
                                            ELSE server.conn[server.conn[c].prev].next = c
  <2>1. PICK i \in 1 .. n : q[i] = c
    BY <1>9, <1>12, Zenon DEF Allocated
  <2>2. server.conn[c].prev = IF i = 1 THEN None ELSE q[i - 1]
    BY <1>1, <2>1 DEF Listed
  <2>3. CASE i = 1
    BY <1>2, <2>1, <2>2, <2>3, SMTT(30)
  <2>4. CASE i # 1
    <3>1. i - 1 \in 1 .. n /\ i - 1 # n /\ (i - 1) + 1 = i
      BY <1>2, <2>4
    <3>2. server.conn[q[i - 1]].next = c
      BY <1>1, <2>1, <3>1, Zenon DEF Listed
    <3> QED BY <1>2, <2>2, <2>4, <3>1, <3>2, Zenon
  <2> QED BY <2>3, <2>4
<1> HIDE DEF listed
<1>13. /\ listed = Allocated /\ walk[N] = None
       /\ \A c \in Allocated :
            IF server.conn[c].prev = None THEN server.head = c
                                          ELSE server.conn[server.conn[c].prev].next = c
  BY <1>10, <1>11, <1>12
<1> QED BY <1>13, Zenon DEF ListIsSound, listed, walk, N

\* However connections come and go, the list of the server holds those that are
\* allocated, each once, prev and next agree, and its end is reached within as many
\* steps as there are connections (alloc_userdata() and conn_unlink() of
\* bench/tcp_server.c).
THEOREM ServerListIsSound == Spec => []ListIsSound
BY ServerInvariance, SoundIsSound, PTL

\* server_close_connections() leaves no connection behind when the loop of the server
\* has returned.
THEOREM ServerEndFreesAll == Spec => [][ServerEnd /\ UNCHANGED clientVars => Allocated' = {}]_vars
<1>1. ServerInv => [ServerEnd /\ UNCHANGED clientVars => Allocated' = {}]_vars
  BY ServerEndSound
<1> QED BY <1>1, ServerInvariance, PTL
=============================================================================

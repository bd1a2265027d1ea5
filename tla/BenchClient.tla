----------------------------- MODULE BenchClient -----------------------------
(***************************************************************************)
(* bench/tcp_client.c: connections that each send a frame, read the echo   *)
(* and send the next, until the time is up.                                *)
(*                                                                         *)
(* The library is what SocketOps promises: a connection that is not closed *)
(* has one operation in flight, which is answered by one callback, in full *)
(* or in part; a connection that is closed is not called back.  All of     *)
(* this runs on the thread of the client's loop.                           *)
(***************************************************************************)
EXTENDS BenchNet

VARIABLES
  client,       \* struct tcp_client
  past,         \* the clock has passed client.deadline_us
  stopTimer     \* client.stop_timer is armed

clientVars == <<client, past, stopTimer>>

\* struct tcp_client_conn; sent counts the bytes that the write in flight has
\* handed over.  The fields of a closed connection are not read again.
NewConn == [phase |-> "connect", buf |-> NewBuffer(FrameSize), progress |-> 0, sent |-> 0,
            sequence |-> 0]
ClosedConn == [phase |-> "closed", buf |-> <<>>, progress |-> 0, sent |-> 0, sequence |-> 0]

ClientInit ==
  /\ client = [conn |-> [c \in Conns |-> ClosedConn], active |-> 0, stopping |-> FALSE,
               isBreak |-> FALSE, pc |-> "setup"]
  /\ past = FALSE
  /\ stopTimer = FALSE

Open == {c \in Conns : client.conn[c].phase # "closed"}

-----------------------------------------------------------------------------
\* Mutant: a conn_close() that does not end the loop.
ConnCloseSilent(s, c) ==
  IF s.conn[c].phase = "closed"
    THEN s
    ELSE [s EXCEPT !.conn[c] = ClosedConn, !.active = IF @ > 0 THEN @ - 1 ELSE 0]

\* conn_close(); the last connection ends the loop.
ConnClose(s, c) ==
  IF s.conn[c].phase = "closed"
    THEN s
    ELSE [s EXCEPT !.conn[c] = ClosedConn,
                   !.active = IF @ > 0 THEN @ - 1 ELSE 0,
                   !.isBreak = @ \/ s.active = 1]

\* conn_close() of one connection after the other
CloseAll(s) ==
  LET open == Cardinality({c \in Conns : s.conn[c].phase # "closed"})
  IN [s EXCEPT !.conn = [c \in Conns |-> ClosedConn],
               !.active = IF @ > open THEN @ - open ELSE 0,
               !.isBreak = @ \/ s.active \in 1 .. open]

\* The client once the next operation of c was started, or refused: by the socket,
\* and for lack of memory, which on a connection that may fail looks the same.
Started(s, c) == {s} \cup (IF ClientMayFail(c) THEN {ConnClose(s, c)} ELSE {})

\* The sockets of the connections that this step closes.
Hangup == Open \ {c \in Conns : client'.conn[c].phase # "closed"}

\* The payload of a frame of conn_send()
Payload(sequence) == [i \in 1 .. MessageSize |-> (sequence + HeaderSize + i - 1) % Base]
Frame(sequence) == WriteU32(MessageSize) \o WriteU32(sequence) \o Payload(sequence)

\* conn_send()
ConnSend(s, c) ==
  [s EXCEPT !.conn[c] = [@ EXCEPT !.phase = "write", !.progress = 0, !.sent = 0,
                                  !.buf = Frame(s.conn[c].sequence)]]

-----------------------------------------------------------------------------
(* bench_nanoev_tcp_client_run().                                           *)

\* Every connect is started, and the stop timer; then the loop runs.
ClientStart ==
  /\ client.pc = "setup"
  /\ client' = [client EXCEPT !.pc = "running", !.active = Cardinality(Conns),
                              !.conn = [c \in Conns |-> NewConn]]
  /\ stopTimer' = TRUE
  /\ UNCHANGED <<netVars, past>>

\* A connect cannot be started after those of C were, or a timer after all of
\* them: they are closed, some of them when the server has already been reached.
ClientStartFails ==
  /\ client.pc = "setup"
  /\ \E C \in SUBSET Conns :
       /\ net' = ClientCloses(net, C)
       /\ \E reached \in IF listening THEN SUBSET C ELSE {{}} : backlog' = backlog \cup reached
  /\ client' = [client EXCEPT !.pc = "ended"]
  /\ UNCHANGED <<listening, past, stopTimer>>

\* nanoev_loop_run() returns and everything is closed.
ClientEnd ==
  /\ client.pc = "running"
  /\ client.isBreak
  /\ client' = [CloseAll(client) EXCEPT !.pc = "ended"]
  /\ net' = ClientCloses(net, Hangup)
  /\ stopTimer' = FALSE
  /\ UNCHANGED <<backlog, listening, past>>

\* A callback of a connection that has an operation in flight in a phase
Callback(c, phases) == client.pc = "running" /\ client.conn[c].phase \in phases

\* on_connect(); the server need not have accepted the connection yet.
OnConnect(c) ==
  /\ Callback(c, {"connect"})
  /\ \/ /\ listening
        /\ backlog' = backlog \cup {c}
        /\ client' \in Started(ConnSend(client, c), c)
     \/ /\ client' = ConnClose(client, c)
        /\ UNCHANGED backlog
  /\ net' = ClientCloses(net, Hangup)
  /\ UNCHANGED <<listening, past, stopTimer>>

\* nanoev_tcp_write(), or reactor_cb() after it, has the system take some of the
\* bytes of the write in flight; the callback comes later.
ClientSends(c) ==
  /\ Callback(c, {"write"})
  /\ client.conn[c].sent = 0
  /\ ~net[c].broken
  /\ \E n \in Pieces(c, FrameSize - client.conn[c].progress) :
       LET from == client.conn[c].progress
       IN /\ client' = [client EXCEPT !.conn[c].sent = n]
          /\ net' = IF net[c].serverClosed
                      THEN net
                      ELSE [net EXCEPT ![c].up = @ \o SubSeq(client.conn[c].buf, from + 1, from + n)]
  /\ UNCHANGED <<backlog, listening, past, stopTimer>>

\* on_write()
ClientOnWrite(c) ==
  /\ Callback(c, {"write"})
  /\ LET conn == client.conn[c]
         progress == conn.progress + conn.sent
     IN IF conn.sent > 0
          THEN client' \in Started(
                 [client EXCEPT !.conn[c] =
                    IF progress < FrameSize
                      THEN [conn EXCEPT !.progress = progress, !.sent = 0]
                      ELSE [conn EXCEPT !.phase = "header", !.progress = 0, !.sent = 0]], c)
          ELSE ClientMayFail(c) /\ client' = ConnClose(client, c)
  /\ net' = ClientCloses(net, Hangup)
  /\ UNCHANGED <<backlog, listening, past, stopTimer>>

\* The header is there: conn_read_payload().
HeaderRead(s, c) ==
  IF PayloadSize(s.conn[c].buf) # MessageSize
    THEN {ConnClose(s, c)}
    ELSE Started([s EXCEPT !.conn[c].phase = "payload"], c)

\* The echo is there: the next frame is sent unless the time is up.
EchoRead(s, c) ==
  IF SequenceOf(s.conn[c].buf) # s.conn[c].sequence
    THEN {ConnClose(s, c)}
    ELSE IF s.stopping \/ past
           THEN {ConnClose([s EXCEPT !.stopping = TRUE], c)}
           ELSE Started(ConnSend([s EXCEPT !.conn[c].sequence = (@ + 1) % Place[Width]], c), c)

\* Mutant: a request that is counted with its header, too.
CountedEarly(s, c) ==
  s.conn[c].progress >= HeaderSize /\ SequenceOf(s.conn[c].buf) = s.conn[c].sequence

\* bench_stats_record_request() has been called.
Counted(s, c) ==
  /\ s.conn[c].phase = "payload" /\ s.conn[c].progress = FrameSize
  /\ SequenceOf(s.conn[c].buf) = s.conn[c].sequence

\* on_read() with some bytes
ClientOnRead(c) ==
  /\ Callback(c, {"header", "payload"})
  /\ LET conn == client.conn[c]
         wanted == IF conn.phase = "header" THEN HeaderSize ELSE FrameSize
     IN \E n \in Pieces(c, Min({wanted - conn.progress, Len(net[c].down)})) :
          LET progress == conn.progress + n
              read == [client EXCEPT !.conn[c] =
                        [conn EXCEPT !.progress = progress,
                                     !.buf = Stored(@, conn.progress, SubSeq(net[c].down, 1, n))]]
          IN /\ client' \in CASE progress < wanted -> Started(read, c)
                              [] progress = wanted /\ wanted = HeaderSize -> HeaderRead(read, c)
                              [] OTHER -> EchoRead(read, c)
             /\ c \in Brief /\ Counted(read, c) => past
             /\ net' = ClientCloses(
                          [net EXCEPT ![c].down = SubSeq(@, n + 1, Len(@)),
                                      ![c].ahead = IF Counted(read, c) THEN @ - 1 ELSE @], Hangup)
  /\ UNCHANGED <<backlog, listening, past, stopTimer>>

\* on_read() with an error, or with no bytes at the end of the stream
ClientReadEnds(c) ==
  /\ Callback(c, {"header", "payload"})
  /\ ClientMayFail(c)
  /\ client' = ConnClose(client, c)
  /\ net' = ClientCloses(net, Hangup)
  /\ UNCHANGED <<backlog, listening, past, stopTimer>>

\* The clock passes the deadline; a second later the stop timer is due.
Deadline ==
  /\ client.pc = "running"
  /\ ~past
  /\ past' = TRUE
  /\ UNCHANGED <<netVars, client, stopTimer>>

\* Mutant: an on_stop() that leaves it to the connections to close themselves.
OnStopWaits ==
  /\ client.pc = "running"
  /\ stopTimer /\ past
  /\ stopTimer' = FALSE
  /\ client' = [client EXCEPT !.stopping = TRUE]
  /\ UNCHANGED <<netVars, past>>

\* on_stop()
OnStop ==
  /\ client.pc = "running"
  /\ stopTimer /\ past
  /\ stopTimer' = FALSE
  /\ client' = CloseAll([client EXCEPT !.stopping = TRUE])
  /\ net' = ClientCloses(net, Hangup)
  /\ UNCHANGED <<backlog, listening, past>>

\* SIGINT: sigint_handler() and on_signal_async().  A poll that fails ends the loop
\* in the same way.
ClientSignal ==
  /\ client.pc = "running"
  /\ client' = [client EXCEPT !.isBreak = TRUE]
  /\ UNCHANGED <<netVars, past, stopTimer>>

ClientNext ==
  \/ ClientStart \/ ClientStartFails \/ ClientEnd
  \/ \E c \in Conns :
       \/ OnConnect(c) \/ ClientSends(c) \/ ClientOnWrite(c)
       \/ ClientOnRead(c) \/ ClientReadEnds(c)
  \/ Deadline \/ OnStop \/ ClientSignal
=============================================================================

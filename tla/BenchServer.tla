----------------------------- MODULE BenchServer -----------------------------
(***************************************************************************)
(* bench/tcp_server.c: accepts connections, keeps them in a list and sends *)
(* back every frame it has read.  As in BenchClient, the library is what   *)
(* SocketOps promises, and all of this runs on the thread of the server's  *)
(* loop.                                                                   *)
(***************************************************************************)
EXTENDS BenchNet

CONSTANTS
  ServerMessageSize,    \* config->message_size of the server
  None                  \* NULL

ASSUME ServerAssumption == ServerMessageSize \in Nat \ {0} /\ None \notin Conns

VARIABLE server         \* struct tcp_server

\* struct tcp_server_conn; a connection that is not allocated has phase "none".
NoConn == [phase |-> "none", buf |-> <<>>, frame |-> 0, progress |-> 0, sent |-> 0,
           prev |-> None, next |-> None]

ServerInit ==
  server = [conn |-> [c \in Conns |-> NoConn], head |-> None, accepting |-> TRUE,
            isBreak |-> FALSE, pc |-> "running"]

Allocated == {c \in Conns : server.conn[c].phase # "none"}

\* alloc_userdata(): a new connection at the head of the list
AllocUserdata(s, c) ==
  [s EXCEPT !.head = c,
            !.conn = [d \in Conns |->
                        CASE d = c -> [NoConn EXCEPT !.phase = "header", !.next = s.head,
                                         !.buf = NewBuffer(HeaderSize + ServerMessageSize)]
                          [] d = s.head -> [s.conn[d] EXCEPT !.prev = c]
                          [] OTHER -> s.conn[d]]]

\* Mutant: a conn_unlink() that leaves the prev of the next connection.
ConnUnlinkHalf(s, c) ==
  LET prev == s.conn[c].prev
      next == s.conn[c].next
  IN [s EXCEPT !.head = IF prev = None THEN next ELSE @,
               !.conn = [d \in Conns |->
                           IF d = prev THEN [s.conn[d] EXCEPT !.next = next] ELSE s.conn[d]]]

\* conn_unlink()
ConnUnlink(s, c) ==
  LET prev == s.conn[c].prev
      next == s.conn[c].next
  IN [s EXCEPT !.head = IF prev = None THEN next ELSE @,
               !.conn = [d \in Conns |->
                           CASE d = prev -> [s.conn[d] EXCEPT !.next = next]
                             [] d = next -> [s.conn[d] EXCEPT !.prev = prev]
                             [] OTHER -> s.conn[d]]]

\* conn_close() of the server
ServerConnClose(s, c) == [ConnUnlink(s, c) EXCEPT !.conn[c] = NoConn]

\* The server once the next operation of c was started, or refused.
ServerStarted(s, c) == {s} \cup (IF ServerMayFail(c) THEN {ServerConnClose(s, c)} ELSE {})

ServerHangup == Allocated \ {c \in Conns : server'.conn[c].phase # "none"}

\* conn_read_header()
ReadHeader(s, c) ==
  [s EXCEPT !.conn[c] = [@ EXCEPT !.phase = "header", !.frame = HeaderSize, !.progress = 0,
                                  !.sent = 0]]

\* conn_write()
ConnWrite(s, c) == [s EXCEPT !.conn[c] = [@ EXCEPT !.phase = "write", !.progress = 0, !.sent = 0]]

\* conn_read_payload() of the server
ReadPayload(s, c) ==
  LET size == PayloadSize(s.conn[c].buf)
      payload == [s EXCEPT !.conn[c] = [@ EXCEPT !.phase = "payload", !.progress = HeaderSize,
                                                 !.frame = HeaderSize + size]]
  IN CASE size > ServerMessageSize -> {ServerConnClose(s, c)}
       [] size = 0 -> ServerStarted(ConnWrite(payload, c), c)
       [] OTHER -> ServerStarted(payload, c)

-----------------------------------------------------------------------------
(* Callbacks; some may still come after nanoev_loop_break().                *)

Running == server.pc = "running"

\* An accept that cannot be started ends the loop.
AcceptRefused(s) == [s EXCEPT !.isBreak = TRUE, !.accepting = FALSE]

\* on_accept() with a new connection, up to server_accept_next()
OnAccept(c) ==
  /\ Running /\ server.accepting
  /\ c \in backlog
  /\ \E s \in ServerStarted(ReadHeader(AllocUserdata(server, c), c), c) :
       /\ server' \in {s, AcceptRefused(s)}
       /\ net' = IF s.conn[c].phase = "none" THEN ServerCloses(net, {c}) ELSE net
  /\ backlog' = backlog \ {c}
  /\ UNCHANGED listening

\* on_accept() for a connection that there was no memory for; what
\* alloc_userdata() has allocated it has freed again.
OnAcceptNoMemory(c) ==
  /\ Running /\ server.accepting
  /\ c \in backlog
  /\ server' \in {server, AcceptRefused(server)}
  /\ net' = ServerCloses(net, {c})
  /\ backlog' = backlog \ {c}
  /\ UNCHANGED listening

\* on_accept() with an error from the system: the listener has its error flag
\* set and refuses the next accept.
OnAcceptError ==
  /\ Running /\ server.accepting
  /\ server' = AcceptRefused(server)
  /\ UNCHANGED netVars

\* on_read() with some bytes
ServerOnRead(c) ==
  /\ Running /\ server.conn[c].phase \in {"header", "payload"}
  /\ LET conn == server.conn[c]
     IN \E n \in Pieces(c, Min({conn.frame - conn.progress, Len(net[c].up)})) :
          LET progress == conn.progress + n
              read == [server EXCEPT !.conn[c] =
                        [conn EXCEPT !.progress = progress,
                                     !.buf = Stored(@, conn.progress, SubSeq(net[c].up, 1, n))]]
          IN /\ server' \in CASE progress < conn.frame -> ServerStarted(read, c)
                              [] progress = conn.frame /\ conn.phase = "header" -> ReadPayload(read, c)
                              [] OTHER -> ServerStarted(ConnWrite(read, c), c)
             /\ net' = ServerCloses([net EXCEPT ![c].up = SubSeq(@, n + 1, Len(@))], ServerHangup)
  /\ UNCHANGED <<backlog, listening>>

\* on_read() with an error or at the end of the stream, and on_write() with an
\* error: the connection is closed.
ServerOpEnds(c) ==
  /\ Running /\ c \in Allocated
  /\ server.conn[c].sent = 0
  /\ ServerMayFail(c)
  /\ server' = ServerConnClose(server, c)
  /\ net' = ServerCloses(net, {c})
  /\ UNCHANGED <<backlog, listening>>

\* nanoev_tcp_write(), or reactor_cb() after it, has the system take some of the
\* bytes of the write in flight.
ServerSends(c) ==
  /\ Running /\ server.conn[c].phase = "write"
  /\ server.conn[c].sent = 0
  /\ ~net[c].broken
  /\ \E n \in Pieces(c, server.conn[c].frame - server.conn[c].progress) :
       LET from == server.conn[c].progress
       IN /\ server' = [server EXCEPT !.conn[c].sent = n]
          /\ net' = IF net[c].clientClosed
                      THEN net
                      ELSE [net EXCEPT ![c].down = @ \o SubSeq(server.conn[c].buf, from + 1, from + n)]
  /\ UNCHANGED <<backlog, listening>>

\* on_write()
ServerOnWrite(c) ==
  /\ Running /\ server.conn[c].phase = "write"
  /\ server.conn[c].sent > 0
  /\ LET conn == server.conn[c]
         progress == conn.progress + conn.sent
     IN server' \in ServerStarted(
          IF progress < conn.frame
            THEN [server EXCEPT !.conn[c].progress = progress, !.conn[c].sent = 0]
            ELSE ReadHeader(server, c), c)
        /\ net' = ServerCloses(
                     [net EXCEPT ![c].ahead = IF progress < conn.frame THEN @ ELSE @ + 1], ServerHangup)
  /\ UNCHANGED <<backlog, listening>>

\* SIGINT, or a poll that fails
ServerSignal ==
  /\ Running
  /\ server' = [server EXCEPT !.isBreak = TRUE]
  /\ UNCHANGED netVars

\* nanoev_loop_run() returns: server_close_connections() closes what is in the
\* list, from its head; then the listener is closed.
ServerEnd ==
  /\ Running /\ server.isBreak
  /\ LET closed[n \in Nat] ==
           IF n = 0 THEN server
                    ELSE IF closed[n - 1].head = None THEN closed[n - 1]
                                                      ELSE ServerConnClose(closed[n - 1], closed[n - 1].head)
     IN server' = [closed[Cardinality(Conns)] EXCEPT !.pc = "ended", !.accepting = FALSE]
  /\ net' = ServerCloses(net, ServerHangup \cup backlog)
  /\ backlog' = {}
  /\ listening' = FALSE

ServerNext ==
  \/ \E c \in Conns :
       \/ OnAccept(c) \/ OnAcceptNoMemory(c) \/ ServerOpEnds(c)
       \/ ServerOnRead(c) \/ ServerSends(c) \/ ServerOnWrite(c)
  \/ OnAcceptError \/ ServerSignal \/ ServerEnd
=============================================================================

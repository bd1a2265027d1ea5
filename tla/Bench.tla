------------------------------- MODULE Bench ---------------------------------
(***************************************************************************)
(* The benchmark: a client and a server process (bench/tcp_client.c,       *)
(* bench/tcp_server.c) over TCP connections that deliver bytes in order,   *)
(* in pieces of any size, and that may break.                              *)
(***************************************************************************)
EXTENDS BenchClient, BenchServer

vars == <<netVars, clientVars, server>>

Init == NetInit /\ ClientInit /\ ServerInit

\* The network breaks a connection that both sides still use: what is on its way
\* is lost.  (Where one side has closed, the other may fail without this.)
Break(c) ==
  /\ c \notin Brief
  /\ ~net[c].broken /\ ~net[c].clientClosed /\ ~net[c].serverClosed
  /\ Callback(c, {"write", "header", "payload"})
  /\ net' = [net EXCEPT ![c] = [@ EXCEPT !.broken = TRUE, !.up = <<>>, !.down = <<>>]]
  /\ UNCHANGED <<backlog, listening, clientVars, server>>

Next ==
  \/ ClientNext /\ UNCHANGED server
  \/ ServerNext /\ UNCHANGED clientVars
  \/ \E c \in Conns : Break(c)

Spec == Init /\ [][Next]_vars

\* Time passes, the stop timer fires when it is due, and a loop that was broken
\* returns.  Each of them happens once, so that fairness for one of them is
\* fairness for all.
FairSpec == Spec /\ WF_vars((Deadline \/ OnStop \/ ClientEnd) /\ UNCHANGED server)

-----------------------------------------------------------------------------
(* Properties.                                                              *)

Received(c) ==
  IF client.conn[c].phase \in {"header", "payload"}
    THEN SubSeq(client.conn[c].buf, 1, client.conn[c].progress)
    ELSE <<>>

AtServer(c) ==
  LET conn == server.conn[c]
  IN IF conn.phase = "write"
       THEN SubSeq(conn.buf, conn.progress + conn.sent + 1, conn.frame)
       ELSE SubSeq(conn.buf, 1, conn.progress)

\* However reads and writes are split, what is on its way round a connection is
\* the frame of the current request: the part the client has read back, what is
\* on the way down, what the server holds and what is on the way up, in this
\* order, are the bytes that the client has sent.
FrameIsWhole ==
  \A c \in Conns :
    LET conn == client.conn[c]
        sent == CASE conn.phase = "write" -> conn.progress + conn.sent
                  [] conn.phase \in {"header", "payload"} -> FrameSize
                  [] OTHER -> 0
    IN conn.phase # "closed" /\ ~net[c].broken /\ ~net[c].serverClosed =>
         Received(c) \o net[c].down \o AtServer(c) \o net[c].up
           = SubSeq(Frame(conn.sequence), 1, sent)

\* The two processes count the same requests: on no connection is one of them
\* more than one ahead of the other, whoever closes it when.
CountsAgree == \A c \in Conns : net[c].ahead \in -1 .. 1

\* active_connections is the number of connections that are open, so that the
\* loop ends with the last of them and not before.
ActiveIsOpen ==
  client.pc = "running" => /\ client.active = Cardinality(Open)
                           /\ client.active = 0 => client.isBreak

\* The list of the server holds the connections that are allocated, each once,
\* and prev and next agree, so that server_close_connections() frees them all.
ListIsSound ==
  LET walk[n \in 0 .. Cardinality(Conns)] ==
        IF n = 0 THEN server.head
                 ELSE IF walk[n - 1] = None THEN None ELSE server.conn[walk[n - 1]].next
      listed == {walk[n] : n \in 0 .. Cardinality(Conns)} \ {None}
  IN /\ listed = Allocated
     /\ walk[Cardinality(Conns)] = None
     /\ \A c \in Allocated :
          LET prev == server.conn[c].prev
          IN IF prev = None THEN server.head = c ELSE server.conn[prev].next = c

\* The client ends: whatever the server and the network do, its loop returns.
ClientEnds == client.pc = "running" ~> client.pc = "ended"
=============================================================================

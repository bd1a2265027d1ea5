--------------------------------- MODULE Udp ---------------------------------
(***************************************************************************)
(* nanoev_udp.c on the three builds: the operations of UDP events and      *)
(* udp_proactor_callback().  The loop and the pollers are those of the     *)
(* module Sockets; UDP operations have no timeouts.                        *)
(*                                                                         *)
(* Unlike that of TCP, reactor_cb() of UDP does not look at READING and    *)
(* WRITING: whatever the poller reports becomes a completion.              *)
(***************************************************************************)
EXTENDS Sockets

CONSTANT
  Unsolicited  \* the events to whose sockets a datagram or an error may come
               \* while no read is pending

ASSUME UnsolicitedAssumption == Unsolicited \subseteq Events

Init == InitWith(Proactor)

-----------------------------------------------------------------------------
(* The application.                                                         *)

\* Mutant: a socket that is not registered with the poller.
WithSocketSilent(u) == [u EXCEPT !.open = TRUE]

\* create_udp_socket(), where there is no socket yet
WithSocket(u) ==
  IF u.open THEN u ELSE Registered([u EXCEPT !.open = TRUE], {"read"})

\* Mutant: only the error state is looked at.
ClearError(e, flags) == Usable(e) /\ "error" \notin ev[e].flags

\* None of these flags is set.
Clear(e, flags) == Usable(e) /\ ev[e].flags \cap flags = {}

\* udp_new()
New(e) ==
  /\ ev[e].mem = "none"
  /\ Call(e, [Proactor EXCEPT !.mem = "live"])

\* nanoev_udp_bind()
Bind(e) ==
  /\ Clear(e, {"error"})
  /\ ~ev[e].open
  /\ Call(e, WithSocket(ev[e]))

\* nanoev_udp_connect()
Connect(e) ==
  /\ Clear(e, {"error", "reading", "writing"})
  /\ Call(e, [WithSocket(ev[e]) EXCEPT !.flags = @ \cup {"connected"}])

\* The operation is pending.
Start(u, dir) == [u EXCEPT !.flags = @ \cup {Flag(dir)}, !.cbs = @ \cup {dir}]

\* nanoev_udp_read(): only WSARecvFrom() reads at once.
ReadNow(e) ==
  /\ ~Reactor
  /\ Clear(e, {"error", "reading"})
  /\ ev[e].open
  /\ CallDone(e, Start(ev[e], "read"), "read")
Read(e) ==
  /\ Clear(e, {"error", "reading"})
  /\ ev[e].open
  /\ Call(e, Start(Waiting(ev[e], "read"), "read"))

\* nanoev_udp_write(): the datagram is sent, or the socket is full.
WriteNow(e) ==
  /\ Clear(e, {"error", "writing"})
  /\ CallDone(e, Start(WithSocket(ev[e]), "write"), "write")
Write(e) ==
  /\ Clear(e, {"error", "writing"})
  /\ CanWait(WithSocket(ev[e]), "write")
  /\ Call(e, Start(Waiting(WithSocket(ev[e]), "write"), "write"))

\* A call fails: before the socket is open, before it is registered or later.
CallFails(e) ==
  /\ Clear(e, {"error"})
  /\ \E u \in {ev[e], [ev[e] EXCEPT !.open = TRUE], WithSocket(ev[e])} :
       Call(e, SetError(u))

\* nanoev_event_free(), udp_free()
Free(e) ==
  /\ Usable(e)
  /\ Call(e, Released(ev[e]))

-----------------------------------------------------------------------------
(* What the poller finds, and udp_proactor_callback().                      *)

\* reactor_cb(): a context unless the call would block
ReactorCb ==
  {c \in Context :
    /\ c.dir \in ev[c.event].kernel
    /\ c.dir = "read" => c.event \in Unsolicited \/ "reading" \in ev[c.event].flags}

PollReady ==
  /\ lpc = "poll"
  /\ fake = <<>>
  /\ batch' \in IF Reactor THEN Reports(ReactorCb) ELSE {<<>>}
  /\ lpc' = "dispatch"
  /\ called' = {}
  /\ UNCHANGED <<ev, fake, backend>>

\* The status of the context is noted.
Noted(e) == IF Head(batch).ok THEN ev[e] ELSE SetError(ev[e])

\* The context is done with: e is left as u and its callback is made.  Where the
\* ASSERT on the flag fails the process is aborted; without assertions a null
\* pointer is called.
Done(e, u, dir) ==
  /\ lpc = "dispatch"
  /\ batch # <<>>
  /\ Head(batch).event = e
  /\ Head(batch).dir = dir
  /\ IF Flag(dir) \in ev[e].flags
       THEN /\ ev' = [ev EXCEPT ![e] = [u EXCEPT !.flags = @ \ {Flag(dir)}, !.cbs = @ \ {dir}]]
            /\ batch' = Tail(batch)
            /\ called' = CallTo(e, dir)
            /\ UNCHANGED lpc
       ELSE lpc' = "aborted" /\ called' = {} /\ UNCHANGED <<ev, batch>>
  /\ UNCHANGED <<fake, backend>>

\* A recvfrom() is over.
ReadDone(e) == Done(e, Noted(e), "read")

\* The interest in output ends; where the socket has been closed poller_modify()
\* fails, and the result is not looked at.  (Nothing else makes it fail: a change
\* of what an open, registered socket is polled for needs no memory.)
Settled(u) ==
  LET events == u.reactor_events \ {"write"} IN
  IF Reactor /\ CanRegister(u, events) THEN Registered(u, events) ELSE u

\* A sendto() is over.
WriteDone(e) == Done(e, Settled(Noted(e)), "write")

-----------------------------------------------------------------------------
Application(e) ==
  \/ New(e) \/ Bind(e) \/ Connect(e) \/ ReadNow(e) \/ Read(e) \/ WriteNow(e) \/ Write(e)
  \/ CallFails(e) \/ Free(e)

Next ==
  \/ \E e \in Events :
       \/ Application(e) \/ ReadDone(e) \/ WriteDone(e)
       \/ \E dir \in Directions : KernelDone(e, dir)
  \/ RunStart \/ ProcessEndgame \/ PollQueue \/ PollReady \/ PollFails
  \/ BatchDone \/ LoopFree

Spec == Init /\ [][Next]_vars

-----------------------------------------------------------------------------
(* Properties; that the contexts are those of pending operations, and that   *)
(* SocketOps is implemented, are stated as in Sockets.                       *)

\* Everything but a ctx_read that reactor_cb() returns for a socket to which
\* datagrams come unasked: there the run udp_unsolicited shows what goes wrong.
Expected(c) == Reactor /\ c.dir = "read" => c.event \notin Unsolicited

\* PointersAreLive of Sockets for the contexts that are expected: a callback may
\* free an event whose context comes later in the batch or in the queue, and
\* datagrams that come unasked to one socket do no harm to the events of others.
ExpectedIsLive ==
  /\ \A i \in DOMAIN Contexts : Expected(Contexts[i]) => ev[Contexts[i].event].mem = "live"
  /\ \A e \in Events :
       ev[e].mem # "live" => ev[e].kernel = {} \/ (~Reactor /\ lpc = "gone")

\* ContextIsPending of Sockets for them: a write on the three builds, a read on
\* Windows and a read on a socket without unasked datagrams completes the one
\* operation that is pending, and the ASSERTs of udp_proactor_callback() hold.  No
\* context, expected or not, is on its way twice.
ExpectedIsPending ==
  /\ \A i, j \in DOMAIN Contexts :
       Contexts[i].event = Contexts[j].event /\ Contexts[i].dir = Contexts[j].dir => i = j
  /\ \A i \in DOMAIN Contexts :
       Expected(Contexts[i]) => Flag(Contexts[i].dir) \in ev[Contexts[i].event].flags
  /\ ~Reactor /\ lpc # "gone" => \A e \in Events : \A dir \in ev[e].kernel :
       Flag(dir) \in ev[e].flags /\ ~Coming(e, dir)

\* The poller watches the socket of every pending read, or the read is in flight
\* or completed; so for a write that is pending: nothing waits for ever because of
\* what the library did.
PendingCanComplete ==
  \A e \in Events : Usable(e) => \A dir \in Directions :
    Flag(dir) \in ev[e].flags => dir \in ev[e].kernel \/ Coming(e, dir)
=============================================================================

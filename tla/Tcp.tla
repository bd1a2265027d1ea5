--------------------------------- MODULE Tcp ---------------------------------
(***************************************************************************)
(* nanoev_tcp.c on the three builds: the operations of TCP events, their   *)
(* timeouts and tcp_proactor_callback().  The loop and the pollers are     *)
(* those of the module Sockets.                                            *)
(*                                                                         *)
(* An event whose operation has timed out is in the error state and, as    *)
(* nanoev.h asks, is only freed afterwards; so is one in the error state   *)
(* for another reason.                                                     *)
(***************************************************************************)
EXTENDS Sockets

CONSTANTS
  Timed,      \* may an operation have a timeout: a subset of BOOLEAN
  CtlFails,   \* epoll_ctl() and kevent() may fail for lack of memory
  Created,    \* events that the application creates; the others are for accepts
  TimerFails  \* the builds on which there may be no memory for a timer

ASSUME TimedAssumption ==
  Timed \subseteq BOOLEAN /\ CtlFails \in BOOLEAN /\ TimerFails \subseteq Backends
    /\ Created \subseteq Events

\* The fields of struct nanoev_tcp: those of nanoev_proactor, the operations that
\* its timers are for, and whether it holds an accepted socket.
Unused ==
  [mem |-> "none", open |-> FALSE, flags |-> {}, cbs |-> {}, reactor_events |-> {},
   kernel |-> {}, timeout_read |-> "none", timeout_write |-> "none", socket_accept |-> FALSE]

Init == InitWith(Unused)

-----------------------------------------------------------------------------
(* Steps on the structure.                                                  *)

\* What register_proactor() may leave behind where its result is ignored; there
\* is no such call on Windows.
AfterRegister(t, events) ==
  (IF Reactor /\ CanRegister(t, events) THEN {Registered(t, events)} ELSE {t})
    \cup (IF CtlFails THEN {t} ELSE {})

\* tcp_timeout_add() when the call was given a timeout
StartRead(t, op, timed) ==
  [t EXCEPT !.flags = @ \cup {"reading"}, !.cbs = @ \cup {op},
            !.timeout_read = IF timed THEN op ELSE @]

StartWrite(t, op, timed) ==
  [t EXCEPT !.flags = @ \cup {"writing"}, !.cbs = @ \cup {op},
            !.timeout_write = IF timed THEN op ELSE @]

\* The operation is over: its flag, its callback and its timeout are cleared.
EndRead(t, op) ==
  [t EXCEPT !.flags = @ \ {"reading"}, !.cbs = @ \ {op}, !.timeout_read = "none"]
EndWrite(t, op) ==
  [t EXCEPT !.flags = @ \ {"writing"}, !.cbs = @ \ {op}, !.timeout_write = "none"]

\* The operation has timed out and u is t with the operation over.  On Windows
\* its flag stays until the late completion arrives.
TimedOut(t, u) ==
  CloseSocket(SetError(IF Reactor THEN u ELSE [u EXCEPT !.flags = t.flags]))

-----------------------------------------------------------------------------
(* The application.                                                         *)

\* tcp_new()
New(e) ==
  /\ e \in Created
  /\ ev[e].mem = "none"
  /\ Call(e, [Unused EXCEPT !.mem = "live"])

\* create_tcp_socket() was called: the socket, unless socket() failed.
NoSocket(e) == Usable(e) /\ ~ev[e].open /\ "error" \notin ev[e].flags
Opened(t) == [t EXCEPT !.open = TRUE]

\* The socket of a connect: on Windows it is associated with the port first.
ToConnect(t) == IF Reactor THEN Opened(t) ELSE Registered(Opened(t), {"read"})

\* nanoev_tcp_connect(): it succeeds at once or is in progress.
ConnectNow(e) ==
  /\ NoSocket(e)
  /\ CallDone(e, StartWrite(ToConnect(ev[e]), "connect", FALSE), "write")
Connect(e, timed) ==
  LET t == ToConnect(ev[e]) IN
  /\ NoSocket(e)
  /\ CanWait(t, "write")
  /\ Call(e, StartWrite(Waiting(t, "write"), "connect", timed))

\* nanoev_tcp_listen()
Listen(e) ==
  /\ NoSocket(e)
  /\ CanRegister(Opened(ev[e]), {"read"})
  /\ Call(e, [Registered(Opened(ev[e]), {"read"}) EXCEPT !.flags = @ \cup {"listening"}])

\* Either call fails: before the socket exists, before it is registered, or after
\* that (bind() or listen() fails; no memory for the timer of a connect).
OpenFails(e) ==
  /\ NoSocket(e)
  /\ \E t \in {ev[e], Opened(ev[e]), Registered(Opened(ev[e]), {"read"})}
                \cup (IF backend \in TimerFails THEN {Waiting(ToConnect(ev[e]), "write")}
                                                ELSE {}) :
       Call(e, SetError(t))

\* The common checks of accept, write, read and shutdown
MayUse(e, state, busy) ==
  /\ Usable(e)
  /\ ev[e].open
  /\ ev[e].flags \cap {"error", busy} = {}
  /\ state \in ev[e].flags

\* nanoev_tcp_accept(): a connection is waiting, or not yet.  AcceptEx() takes the
\* socket of the connection along.
AcceptNow(e) ==
  /\ MayUse(e, "listening", "reading")
  /\ CallDone(e, StartRead([ev[e] EXCEPT !.socket_accept = TRUE], "accept", FALSE), "read")
Accept(e, timed) ==
  /\ MayUse(e, "listening", "reading")
  /\ Call(e, StartRead([Waiting(ev[e], "read") EXCEPT !.socket_accept = ~Reactor],
                       "accept", timed))

\* Mutant: a timeout for a write that has succeeded at once.
WriteNowTimed(e) ==
  /\ MayUse(e, "connected", "writing")
  /\ CallDone(e, StartWrite(ev[e], "write", TRUE), "write")

\* nanoev_tcp_write(): the socket takes some bytes, or is full.
WriteNow(e) ==
  /\ MayUse(e, "connected", "writing")
  /\ CallDone(e, StartWrite(ev[e], "write", FALSE), "write")
Write(e, timed) ==
  /\ MayUse(e, "connected", "writing")
  /\ CanWait(ev[e], "write")
  /\ Call(e, StartWrite(Waiting(ev[e], "write"), "write", timed))

\* nanoev_tcp_read(): only WSARecv() reads at once, and the timer is set even so.
ReadNow(e, timed) ==
  /\ ~Reactor
  /\ MayUse(e, "connected", "reading")
  /\ CallDone(e, StartRead(ev[e], "read", timed), "read")
Read(e, timed) ==
  /\ MayUse(e, "connected", "reading")
  /\ Call(e, StartRead(Waiting(ev[e], "read"), "read", timed))

\* An accept, write, read, shutdown, address or option call fails; it may have
\* registered its interest before the timer could not be added.
CallFails(e) ==
  /\ Usable(e)
  /\ ev[e].open
  /\ \E t \in {ev[e]} \cup {Waiting(ev[e], dir) : dir \in
         {d \in Directions : /\ backend \in TimerFails
                             /\ MayUse(e, "connected", Flag(d))}} :
       Call(e, SetError(t))

\* tcp_free(): the timers go first.
Freed(t) == Released([t EXCEPT !.timeout_read = "none", !.timeout_write = "none"])

\* nanoev_event_free()
Free(e) ==
  /\ Usable(e)
  /\ Call(e, Freed(ev[e]))

-----------------------------------------------------------------------------
(* Timeouts, and what the poller finds.                                     *)

\* Mutant: the timeout of an accept is forgotten.
TimeoutReadOnly(e) ==
  LET op == ev[e].timeout_read
      t  == [ev[e] EXCEPT !.timeout_read = "none"]
  IN
  /\ lpc = "timers"
  /\ op # "none"
  /\ IF op = "accept"
       THEN ev' = [ev EXCEPT ![e] = t] /\ called' = {}
       ELSE /\ ev' = [ev EXCEPT ![e] = TimedOut(t, EndRead(t, op))]
            /\ called' = CallTo(e, op)
  /\ UNCHANGED <<fake, batch, lpc, backend>>

\* tcp_timeout_read_callback(); timers_process() has taken the node off the heap.
TimeoutRead(e) ==
  LET op == ev[e].timeout_read
      t  == [ev[e] EXCEPT !.timeout_read = "none"]
  IN
  /\ lpc = "timers"
  /\ op # "none"
  /\ IF "reading" \notin t.flags
       THEN ev' = [ev EXCEPT ![e] = t] /\ called' = {}
       ELSE IF op \notin t.cbs
       THEN ev' = [ev EXCEPT ![e] = SetError(t)] /\ called' = {}
       ELSE /\ ev' = [ev EXCEPT ![e] = TimedOut(t, EndRead(t, op))]
            /\ called' = CallTo(e, op)
  /\ UNCHANGED <<fake, batch, lpc, backend>>

\* tcp_timeout_write_callback()
TimeoutWrite(e) ==
  LET op == ev[e].timeout_write
      t  == [ev[e] EXCEPT !.timeout_write = "none"]
  IN
  /\ lpc = "timers"
  /\ op # "none"
  /\ IF "writing" \notin t.flags
       THEN ev' = [ev EXCEPT ![e] = t] /\ called' = {}
       ELSE IF op \notin t.cbs
       THEN ev' = [ev EXCEPT ![e] = SetError(t)] /\ called' = {}
       ELSE /\ \E u \in AfterRegister(t, t.reactor_events \ {"write"}) :
                 ev' = [ev EXCEPT ![e] = TimedOut(u, EndWrite(u, op))]
            /\ called' = CallTo(e, op)
  /\ UNCHANGED <<fake, batch, lpc, backend>>

\* reactor_cb(): a context when an operation is pending
ReactorCb ==
  {c \in Context : c.dir \in ev[c.event].kernel /\ Flag(c.dir) \in ev[c.event].flags}

\* poller_poll() when there is nothing queued; an accept() in reactor_cb() leaves
\* the new socket in socket_accept.
PollReady ==
  /\ lpc = "poll"
  /\ fake = <<>>
  /\ \E b \in IF Reactor THEN Reports(ReactorCb) ELSE {<<>>} :
       /\ batch' = b
       /\ ev' = [e \in Events |->
            IF "listening" \in ev[e].flags /\ \E i \in DOMAIN b : b[i].event = e
              THEN [ev[e] EXCEPT !.socket_accept =
                      \E i \in DOMAIN b : b[i].event = e /\ b[i].ok]
              ELSE ev[e]]
  /\ lpc' = "dispatch"
  /\ called' = {}
  /\ UNCHANGED <<fake, backend>>

-----------------------------------------------------------------------------
(* tcp_proactor_callback(), for the first context of the batch.             *)

\* Mutant: the interest in output stays registered.
NotedKeeps(t) == IF Head(batch).ok THEN {t} ELSE {SetError(t)}

\* Up to the test of NANOEV_TCP_FLAG_CONNECTED
Noted(t) ==
  LET c == Head(batch)
      settled == IF c.dir = "write" THEN AfterRegister(t, t.reactor_events \ {"write"})
                                    ELSE {t}
  IN IF c.ok THEN settled ELSE {SetError(u) : u \in settled}

\* Where the flag is gone the context is stale and is ignored; where the callback
\* is gone the operation has timed out and this is its late completion.
Answer(e, flag, op) ==
  called' = IF flag \in ev[e].flags /\ op \in ev[e].cbs THEN CallTo(e, op) ELSE {}

\* Mutant: the late completion of a read that has timed out leaves its flag.
ReadDoneLate(e) ==
  /\ Dispatch(e, "read")
  /\ "connected" \in ev[e].flags
  /\ \E t \in Noted(ev[e]) :
       ev' = [ev EXCEPT ![e] = IF "read" \in t.cbs THEN EndRead(t, "read") ELSE t]
  /\ Answer(e, "reading", "read")

ReadDone(e) ==
  /\ Dispatch(e, "read")
  /\ "connected" \in ev[e].flags
  /\ \E t \in Noted(ev[e]) :
       ev' = [ev EXCEPT ![e] = IF "reading" \in t.flags THEN EndRead(t, "read") ELSE t]
  /\ Answer(e, "reading", "read")

WriteDone(e) ==
  /\ Dispatch(e, "write")
  /\ "connected" \in ev[e].flags
  /\ \E t \in Noted(ev[e]) :
       ev' = [ev EXCEPT ![e] = IF "writing" \in t.flags THEN EndWrite(t, "write") ELSE t]
  /\ Answer(e, "writing", "write")

\* tcp_alloc_client()
Client ==
  [Registered([Unused EXCEPT !.mem = "live", !.open = TRUE], {"read"})
     EXCEPT !.flags = {"connected"}]

\* Mutant: the accepted socket of an event that has been freed stays open.
AcceptDoneKeeps(e) ==
  /\ Dispatch(e, "read")
  /\ {"connected", "listening"} \cap ev[e].flags = {"listening"}
  /\ \E t \in Noted(ev[e]) :
       ev' = [ev EXCEPT ![e] = [EndRead(t, "accept")
                 EXCEPT !.socket_accept = @ /\ "deleted" \in t.flags]]
  /\ Answer(e, "reading", "accept")

\* The accepted socket goes to a new event, or is closed: when the event has
\* been freed or the accept has timed out, when it failed and when there is no
\* memory, for the event or in alloc_userdata().
AcceptDone(e) ==
  /\ Dispatch(e, "read")
  /\ {"connected", "listening"} \cap ev[e].flags = {"listening"}
  /\ \E t \in Noted(ev[e]) :
       LET u == [IF "reading" \in t.flags THEN EndRead(t, "accept") ELSE t
                   EXCEPT !.socket_accept = FALSE] IN
       \/ ev' = [ev EXCEPT ![e] = u]
       \/ /\ Head(batch).ok
          /\ {"reading", "deleted"} \cap ev[e].flags = {"reading"}
          /\ "accept" \in ev[e].cbs
          /\ \E c \in Events :
               /\ ev[c].mem = "none"
               /\ ev' = [ev EXCEPT ![e] = u, ![c] = Client]
  /\ Answer(e, "reading", "accept")

\* A connection that is established is polled for input from now on.
ConnectDone(e) ==
  /\ Dispatch(e, "write")
  /\ {"connected", "listening"} \cap ev[e].flags = {}
  /\ \E t \in Noted(ev[e]) :
       LET u == IF "writing" \in t.flags THEN EndWrite(t, "connect") ELSE t IN
       IF /\ Head(batch).ok
          /\ {"writing", "deleted"} \cap t.flags = {"writing"}
          /\ "connect" \in t.cbs
       THEN \E v \in AfterRegister(u, u.reactor_events \cup {"read"}) :
              ev' = [ev EXCEPT ![e] = [v EXCEPT !.flags = @ \cup {"connected"}]]
       ELSE ev' = [ev EXCEPT ![e] = u]
  /\ Answer(e, "writing", "connect")

-----------------------------------------------------------------------------
Application(e) ==
  \/ New(e) \/ ConnectNow(e) \/ Listen(e) \/ OpenFails(e) \/ AcceptNow(e) \/ WriteNow(e)
  \/ CallFails(e) \/ Free(e)
  \/ \E timed \in Timed :
       \/ Connect(e, timed) \/ Accept(e, timed) \/ Write(e, timed)
       \/ ReadNow(e, timed) \/ Read(e, timed)

Completion(e) == ReadDone(e) \/ WriteDone(e) \/ AcceptDone(e) \/ ConnectDone(e)

Poll == PollQueue \/ PollReady \/ PollFails

Next ==
  \/ \E e \in Events :
       \/ Application(e) \/ TimeoutRead(e) \/ TimeoutWrite(e) \/ Completion(e)
       \/ \E dir \in Directions : KernelDone(e, dir)
  \/ RunStart \/ ProcessEndgame \/ Poll \/ BatchDone \/ LoopFree

Spec == Init /\ [][Next]_vars

\* Windows completes what it has cancelled.
Cancelled(e, dir) == ~ev[e].open /\ KernelDone(e, dir)

\* The application keeps running the loop, time passes, and the loop works off
\* what it has polled.
FairSpec ==
  /\ Spec
  /\ WF_vars(RunStart) /\ WF_vars(ProcessEndgame) /\ WF_vars(Poll) /\ WF_vars(BatchDone)
  /\ \A e \in Events :
       /\ WF_vars(Completion(e)) /\ SF_vars(TimeoutRead(e)) /\ SF_vars(TimeoutWrite(e))
       /\ \A dir \in Directions : WF_vars(Cancelled(e, dir))

-----------------------------------------------------------------------------
(* Properties.                                                              *)

\* No pointer to a TCP event outlives it: those of Sockets, and the nodes of its
\* timeouts in the heap of timers.
NothingDangles ==
  /\ PointersAreLive
  /\ \A e \in Events : ev[e].mem # "live" =>
       ev[e].timeout_read = "none" /\ ev[e].timeout_write = "none"

\* The socket that accept() returned, or AcceptEx() was given, waits for one
\* completion, which will pass it on or close it, whatever happens to the
\* listening event meanwhile.
AcceptedSocketHasOwner ==
  lpc # "gone" => \A e \in Events : ev[e].socket_accept =>
    Coming(e, "read") \/ (~Reactor /\ "read" \in ev[e].kernel)

\* ASSERT(!(tcp->reactor_events & _EV_WRITE)) of nanoev_tcp_connect() and
\* nanoev_tcp_write(): in an event that may still be used, the interest in output
\* is registered only while an operation waits for it.
InterestMatchesWrite ==
  \A e \in Events :
    /\ Usable(e) /\ "error" \notin ev[e].flags
    /\ "write" \in ev[e].reactor_events
    => "writing" \in ev[e].flags

\* Something other than a timeout can still complete every operation that is
\* pending on an event without error: a context on its way, the poller watching
\* the socket, or the operation in flight.
PendingCanComplete ==
  \A e \in Events : Usable(e) /\ "error" \notin ev[e].flags => \A dir \in Directions :
    Flag(dir) \in ev[e].flags => dir \in ev[e].kernel \/ Coming(e, dir)

\* An operation that was given a timeout, or succeeded at once, is over some
\* time: its callback is made, unless the event is freed first.
OperationEnds ==
  \A e \in Events : \A ops \in {Inbound, Outbound} :
    ev[e].cbs \cap ops # {} ~> ev[e].cbs \cap ops = {} \/ ~Usable(e)

\* On Windows an event that was freed with operations in flight is released when
\* they are over ("Pending I/O events are released after their outstanding
\* operation has completed", nanoev.h).
FreedIsReleased ==
  \A e \in Events : ~Reactor /\ "deleted" \in ev[e].flags ~> ev[e].mem = "freed"
=============================================================================

------------------------------- MODULE Sockets -------------------------------
(***************************************************************************)
(* What TCP and UDP events have in common: struct nanoev_proactor, the     *)
(* turn of nanoev_loop_run() with the list of events whose release is      *)
(* deferred, and the pollers of the three builds.                          *)
(*                                                                         *)
(* An operation completes through its context (ctx_read, ctx_write).       *)
(*  - "epoll", "kqueue": the context is queued at once as a fake           *)
(*    completion when the system call succeeds directly, or put into the   *)
(*    batch when the poller finds the socket ready.                        *)
(*  - "iocp": the context is the OVERLAPPED of an operation in flight; it  *)
(*    comes back through the completion port, also when the socket has     *)
(*    been closed meanwhile.                                               *)
(* The application runs outside nanoev_loop_run(), in the callback of a    *)
(* timer ("timers") and in the callbacks of a batch ("dispatch").  A       *)
(* callback is the last thing that the function making it does, so what    *)
(* the application does in one is a step of its own that follows it.  The  *)
(* exception is alloc_userdata of nanoev_tcp_accept(), called while a      *)
(* completion is processed: it is taken to allocate and to release its     *)
(* data, and to leave the events alone.                                    *)
(***************************************************************************)
EXTENDS Integers, Sequences, TLC

CONSTANTS
  Events,    \* socket events
  Backends,  \* the builds looked at
  MaxEvents  \* the size of events[] in nanoev_loop_run(); 256 there

ASSUME MaxEventsAssumption == MaxEvents \in Nat \ {0}
ASSUME BackendsAssumption == Backends \subseteq {"epoll", "kqueue", "iocp"}

VARIABLES
  ev,        \* struct nanoev_tcp or nanoev_udp, for each event
  fake,      \* fake completions queued in the poller; on iocp, the completion port
  batch,     \* events[] of nanoev_loop_run(): contexts not yet processed
  lpc,       \* "user", "timers", "poll", "dispatch", "gone" (loop freed) or "aborted"
  called,    \* the callback made by the last step: {} or {<<event, operation>>}
  backend    \* the build; it never changes

vars == <<ev, fake, batch, lpc, called, backend>>

Directions == {"read", "write"}
Inbound == {"read", "accept"}
Outbound == {"write", "connect"}
Operations == Inbound \cup Outbound
Context == [event : Events, dir : Directions, ok : BOOLEAN]

\* The flag that tells that an operation in this direction is pending
Flag(dir) == IF dir = "read" THEN "reading" ELSE "writing"

\* The build has reactor_cb(): everything that is not _WIN32.
Reactor == backend # "iocp"

\* The fields of struct nanoev_proactor: mem tells whether it is allocated, open
\* whether it has a socket, and cbs are the callbacks that are set.  kernel is
\* what the kernel polls the socket for; on iocp, which operations are in flight.
\* The event is on the list of endgame proactors when it has the flag "deleted"
\* and is allocated.
Proactor ==
  [mem |-> "none", open |-> FALSE, flags |-> {}, cbs |-> {}, reactor_events |-> {},
   kernel |-> {}]

\* Nothing tells one event from another.
Symmetry == Permutations(Events)

InitWith(unused) ==
  /\ ev = [e \in Events |-> unused]
  /\ fake = <<>>
  /\ batch = <<>>
  /\ lpc = "user"
  /\ called = {}
  /\ backend \in Backends

-----------------------------------------------------------------------------
(* The pollers: poller_modify().                                            *)

\* close_socket(): a reactor forgets the socket, and reactor_events stays.  An
\* operation in flight is cancelled, which completes it later.
CloseSocket(s) == [s EXCEPT !.open = FALSE, !.kernel = IF Reactor THEN {} ELSE @]

\* EPOLL_CTL_ADD needs a socket that the kernel does not know, EPOLL_CTL_MOD and
\* EPOLL_CTL_DEL one that it knows; EV_DELETE needs the filter.
CanRegister(s, events) ==
  \/ Reactor /\ s.reactor_events = events
  \/ /\ s.open
     /\ backend = "epoll" => (s.reactor_events = {} <=> s.kernel = {})
     /\ backend = "kqueue" => s.reactor_events \ events \subseteq s.kernel

\* epoll replaces the set of a socket, kqueue adds and deletes filters one by
\* one, and iocp associates the socket with the port once and for all.
Registered(s, events) ==
  [s EXCEPT !.reactor_events = events,
            !.kernel = IF s.reactor_events = events \/ backend = "iocp" THEN @
                       ELSE IF backend = "epoll" THEN events
                       ELSE (@ \cup (events \ s.reactor_events)) \ (s.reactor_events \ events)]

\* An operation in this direction cannot be done at once.  On a reactor, sockets
\* are always registered for input.
CanWait(s, dir) ==
  Reactor /\ dir = "write" => CanRegister(s, s.reactor_events \cup {"write"})
Waiting(s, dir) ==
  CASE ~Reactor -> [s EXCEPT !.kernel = @ \cup {dir}]
    [] Reactor /\ dir = "write" -> Registered(s, s.reactor_events \cup {"write"})
    [] OTHER -> s

SetError(s) == [s EXCEPT !.flags = @ \cup {"error"}]

-----------------------------------------------------------------------------
(* The application.                                                         *)

UserCode == lpc \in {"user", "timers", "dispatch"}

\* e has not been freed by the application.
Usable(e) == ev[e].mem = "live" /\ "deleted" \notin ev[e].flags

\* A call of the application that leaves e as s and queues nothing.
Call(e, s) ==
  /\ UserCode
  /\ ev' = [ev EXCEPT ![e] = s]
  /\ called' = {}
  /\ UNCHANGED <<fake, batch, lpc, backend>>

\* Mutant: the completion is not queued.
CallDoneSilent(e, s, dir) ==
  /\ UserCode
  /\ ev' = [ev EXCEPT ![e] = s]
  /\ called' = {}
  /\ UNCHANGED <<fake, batch, lpc, backend>>

\* A call that succeeds at once: submit_fake_io(), or the packet that Windows
\* queues for an overlapped operation in this case too.
CallDone(e, s, dir) ==
  /\ UserCode
  /\ ev' = [ev EXCEPT ![e] = s]
  /\ fake' = Append(fake, [event |-> e, dir |-> dir, ok |-> TRUE])
  /\ called' = {}
  /\ UNCHANGED <<batch, lpc, backend>>

\* Mutant: the flags are not looked at.
ReleasedAtOnce(s) == [CloseSocket(s) EXCEPT !.mem = "freed"]

\* The end of tcp_free() and udp_free()
Released(s) ==
  IF s.flags \cap {"reading", "writing"} # {}
    THEN [CloseSocket(s) EXCEPT !.flags = @ \cup {"deleted"}]
    ELSE [CloseSocket(s) EXCEPT !.mem = "freed"]

\* Mutant: the callback is made even when the event has been freed.
CallToAny(e, op) == {<<e, op>>}

\* A callback is made, unless the event has been freed.
CallTo(e, op) == IF "deleted" \in ev[e].flags THEN {} ELSE {<<e, op>>}

-----------------------------------------------------------------------------
(* nanoev_loop_run().                                                       *)

RunStart ==
  /\ lpc = "user"
  /\ lpc' = "timers"
  /\ called' = {}
  /\ UNCHANGED <<ev, fake, batch, backend>>

\* __process_endgame_proactor(loop, 0)
ProcessEndgame ==
  /\ lpc = "timers"
  /\ ev' = [e \in Events |->
       IF /\ ev[e].mem = "live" /\ "deleted" \in ev[e].flags
          /\ ev[e].flags \cap {"reading", "writing"} = {}
       THEN Released(ev[e]) ELSE ev[e]]
  /\ lpc' = "poll"
  /\ called' = {}
  /\ UNCHANGED <<fake, batch, backend>>

\* poller_poll() of a reactor when there are fake completions: as many as events[]
\* holds are returned, and nothing else is looked at.  The same holds of the
\* packets that GetQueuedCompletionStatusEx() returns;
\* GetQueuedCompletionStatus(), used where that does not exist, returns one.
PollQueue ==
  /\ lpc = "poll"
  /\ fake # <<>>
  /\ \E n \in {IF Len(fake) > MaxEvents THEN MaxEvents ELSE Len(fake)}
              \cup (IF Reactor THEN {} ELSE {1}) :
       /\ batch' = SubSeq(fake, 1, n)
       /\ fake' = SubSeq(fake, n + 1, Len(fake))
  /\ lpc' = "dispatch"
  /\ called' = {}
  /\ UNCHANGED <<ev, backend>>

\* What poller_poll() of a reactor may return, given the contexts that
\* reactor_cb() may return: kqueue reports the two directions of a socket
\* separately; with epoll EPOLLIN hides EPOLLOUT, and EPOLLERR and EPOLLHUP,
\* which are always reported, stand for both.  Nothing is returned for a socket
\* that is not ready, where the call would block, or for which events[] has no room.
Reports(possible) ==
  {s \in UNION {[1 .. n -> possible] : n \in 0 .. MaxEvents} :
     \A i, j \in DOMAIN s : i < j /\ s[i].event = s[j].event =>
       /\ s[i].dir # s[j].dir
       /\ backend = "epoll" => j = i + 1 /\ s[i].dir = "read"}

\* The poller fails: nanoev_loop_run() returns.
PollFails ==
  /\ lpc = "poll"
  /\ fake = <<>>
  /\ lpc' = "user"
  /\ called' = {}
  /\ UNCHANGED <<ev, fake, batch, backend>>

\* Windows completes an operation in flight; one on a closed socket was cancelled.
KernelDone(e, dir) ==
  /\ ~Reactor
  /\ lpc # "gone"
  /\ dir \in ev[e].kernel
  /\ ev' = [ev EXCEPT ![e].kernel = @ \ {dir}]
  /\ \E ok \in IF ev[e].open THEN BOOLEAN ELSE {FALSE} :
       fake' = Append(fake, [event |-> e, dir |-> dir, ok |-> ok])
  /\ called' = {}
  /\ UNCHANGED <<batch, lpc, backend>>

\* The next context of the batch is passed to the event's cb.
Dispatch(e, dir) ==
  /\ lpc = "dispatch"
  /\ batch # <<>>
  /\ Head(batch).event = e
  /\ Head(batch).dir = dir
  /\ batch' = Tail(batch)
  /\ UNCHANGED <<fake, lpc, backend>>

\* The batch is done: the next turn, or nanoev_loop_break() has been called.
BatchDone ==
  /\ lpc = "dispatch"
  /\ batch = <<>>
  /\ lpc' \in {"timers", "user"}
  /\ called' = {}
  /\ UNCHANGED <<ev, fake, batch, backend>>

\* nanoev_loop_free(), after the application has freed every event: the queue of
\* the poller goes, and __process_endgame_proactor(loop, 1) frees the rest.
LoopFree ==
  /\ lpc = "user"
  /\ \A e \in Events : ~Usable(e)
  /\ lpc' = "gone"
  /\ fake' = <<>>
  /\ ev' = [e \in Events |->
       IF ev[e].mem = "live"
         THEN Released([ev[e] EXCEPT !.flags = @ \ {"deleted", "reading", "writing"}])
         ELSE ev[e]]
  /\ called' = {}
  /\ UNCHANGED <<batch, backend>>

-----------------------------------------------------------------------------
(* Properties of both.                                                      *)

Contexts == fake \o batch

\* A context of e in this direction is on its way.
Coming(e, dir) == \E i \in DOMAIN Contexts : Contexts[i].event = e /\ Contexts[i].dir = dir

\* No pointer of the library or of the kernel to an event outlives it, in
\* whatever order the application frees events and operations complete: not the
\* queued completions, the batch being processed (a callback may free an event
\* whose context comes later in it), epoll's data.ptr, kqueue's udata or the
\* OVERLAPPED of an operation in flight.  (nanoev_loop_free() on Windows releases
\* events without waiting for operations in flight.)
PointersAreLive ==
  /\ \A i \in DOMAIN Contexts : ev[Contexts[i].event].mem = "live"
  /\ \A e \in Events :
       ev[e].mem # "live" => ev[e].kernel = {} \/ (~Reactor /\ lpc = "gone")

\* A context stands for the one operation that is pending in its direction, and
\* it is in one place: completions are neither stale nor doubled, and on Windows
\* an OVERLAPPED is not used again before its operation is over.  (On the reactor
\* back ends the tests of READING and WRITING in tcp_proactor_callback() are
\* never false; in udp_proactor_callback() they are ASSERTs.)
ContextIsPending ==
  /\ \A i \in DOMAIN Contexts :
       LET c == Contexts[i] IN
       /\ Flag(c.dir) \in ev[c.event].flags
       /\ \A j \in DOMAIN Contexts :
            Contexts[j].event = c.event /\ Contexts[j].dir = c.dir => i = j
  /\ ~Reactor /\ lpc # "gone" => \A e \in Events : \A dir \in ev[e].kernel :
       Flag(dir) \in ev[e].flags /\ ~Coming(e, dir)

\* The operations keep the promises of SocketOps: pending are those whose
\* callback is stored in the event.
Ops == INSTANCE SocketOps WITH
  pending <- [e \in Events |-> ev[e].cbs],
  freed <- {e \in Events : ev[e].mem = "freed" \/ "deleted" \in ev[e].flags}
ImplementsSocketOps == Ops!Spec
=============================================================================

------------------------------ MODULE TcpProofs ------------------------------
(***************************************************************************)
(* The safety of nanoev_tcp.c for any number of events, on the three       *)
(* builds.  As in the runs tcp and tcp_live there is memory for a timer on *)
(* Windows: without it a call fails whose operation is in flight.          *)
(* Here are the invariant TcpInv, and that calls and callbacks keep it.    *)
(* TcpOpsProofs goes on with the loop and draws the conclusions.          *)
(***************************************************************************)
EXTENDS Tcp, SocketsProofs

Flags == {"reading", "writing", "error", "deleted", "connected", "listening"}
Tcps ==
  [mem : {"none", "live", "freed"}, open : BOOLEAN, flags : SUBSET Flags,
   cbs : SUBSET Operations, reactor_events : SUBSET Directions, kernel : SUBSET Directions,
   timeout_read : {"none", "read", "accept"}, timeout_write : {"none", "write", "connect"},
   socket_accept : BOOLEAN]

Kept(t) == t.mem = "live" /\ "deleted" \notin t.flags
Sane(t) == Kept(t) /\ "error" \notin t.flags

\* A callback is set only while its operation is pending, and belongs to what the
\* socket is; a timer only while its callback is set.
CallbacksSound(t) ==
  /\ t.mem = "none" => t.cbs = {} /\ "deleted" \notin t.flags
  /\ t.mem = "live" =>
       /\ "read" \in t.cbs => "reading" \in t.flags /\ "connected" \in t.flags
       /\ "accept" \in t.cbs => "reading" \in t.flags /\ "listening" \in t.flags
       /\ "write" \in t.cbs => "writing" \in t.flags /\ "connected" \in t.flags
       /\ "connect" \in t.cbs => "writing" \in t.flags /\ "connected" \notin t.flags
  /\ ~("connected" \in t.flags /\ "listening" \in t.flags)
  /\ "listening" \in t.flags => "writing" \notin t.flags
  /\ "reading" \in t.flags => "connected" \in t.flags \/ "listening" \in t.flags
  /\ t.timeout_read # "none" => t.timeout_read \in t.cbs /\ Kept(t)
  /\ t.timeout_write # "none" => t.timeout_write \in t.cbs /\ Kept(t)

\* A socket that was freed or timed out is closed.  The kernel polls an open one
\* for reactor_events.  The socket of an accepted connection is waiting for the
\* completion of the accept.  On a reactor a completion that is queued at once is
\* that of an operation without a timer.
SocketSound(t, queued, faked) ==
  /\ "deleted" \in t.flags => ~t.open
  /\ Sane(t) /\ ~t.open =>
       /\ t.flags \cap {"reading", "writing", "connected", "listening"} = {}
       /\ t.kernel = {} /\ t.reactor_events = {}
  /\ Reactor /\ t.open => t.kernel = t.reactor_events
  /\ ~Reactor => "write" \notin t.reactor_events
  /\ t.socket_accept =>
       /\ "listening" \in t.flags
       /\ lpc # "gone" => "read" \in queued \/ (~Reactor /\ "read" \in t.kernel)
  /\ Reactor /\ "read" \in faked => t.timeout_read = "none"
  /\ Reactor /\ "write" \in faked => t.timeout_write = "none"

\* Where no registration fails, an event without error is polled for input once
\* its socket is connected or listening, for output only while it writes, and
\* whatever is pending on it can be completed.
PollSound(t, queued) ==
  ~CtlFails /\ Sane(t) =>
    /\ Reactor /\ "write" \in t.reactor_events => "writing" \in t.flags
    /\ Reactor /\ ("connected" \in t.flags \/ "listening" \in t.flags) => "read" \in t.kernel
    /\ \A dir \in Directions : Flag(dir) \in t.flags => dir \in t.kernel \/ dir \in queued

\* What holds of the structure t of an event with contexts on their way for the
\* directions queued, of which faked are fake completions.
TcpSound(t, queued, faked) ==
  /\ t \in Tcps
  /\ Accounted(t, queued)
  /\ CallbacksSound(t) /\ SocketSound(t, queued, faked) /\ PollSound(t, queued)

Faked(e) == {dir \in Directions : Has(fake, e, dir)}

\* The inductive invariant.
TcpInv ==
  /\ QueuesSound
  /\ ev \in [Events -> Tcps]
  /\ \A e \in Events : TcpSound(ev[e], Queued(e), Faked(e))

-----------------------------------------------------------------------------
(* The same, spelled out for the two directions.                            *)

AccountedSpelled(t, queued) ==
  /\ "read" \in queued => "reading" \in t.flags
  /\ "write" \in queued => "writing" \in t.flags
  /\ "reading" \in t.flags \/ "writing" \in t.flags => t.mem = "live"
  /\ ~Reactor /\ lpc # "gone" =>
       /\ "read" \in t.kernel => "reading" \in t.flags /\ "read" \notin queued
       /\ "write" \in t.kernel => "writing" \in t.flags /\ "write" \notin queued
  /\ Reactor /\ ~t.open => "read" \notin t.kernel /\ "write" \notin t.kernel
  /\ t.mem # "live" => ~t.open

CallbacksSpelled(t) ==
  /\ t.mem = "none" =>
       /\ "read" \notin t.cbs /\ "accept" \notin t.cbs /\ "write" \notin t.cbs
       /\ "connect" \notin t.cbs /\ "deleted" \notin t.flags
  /\ t.mem = "live" =>
       /\ "read" \in t.cbs => "reading" \in t.flags /\ "connected" \in t.flags
       /\ "accept" \in t.cbs => "reading" \in t.flags /\ "listening" \in t.flags
       /\ "write" \in t.cbs => "writing" \in t.flags /\ "connected" \in t.flags
       /\ "connect" \in t.cbs => "writing" \in t.flags /\ "connected" \notin t.flags
  /\ ~("connected" \in t.flags /\ "listening" \in t.flags)
  /\ "listening" \in t.flags => "writing" \notin t.flags
  /\ "reading" \in t.flags => "connected" \in t.flags \/ "listening" \in t.flags
  /\ t.timeout_read = "read" => "read" \in t.cbs /\ Kept(t)
  /\ t.timeout_read = "accept" => "accept" \in t.cbs /\ Kept(t)
  /\ t.timeout_write = "write" => "write" \in t.cbs /\ Kept(t)
  /\ t.timeout_write = "connect" => "connect" \in t.cbs /\ Kept(t)

SocketSpelled(t, queued, faked) ==
  /\ "deleted" \in t.flags => ~t.open
  /\ Sane(t) /\ ~t.open =>
       /\ "reading" \notin t.flags /\ "writing" \notin t.flags
       /\ "connected" \notin t.flags /\ "listening" \notin t.flags
       /\ "read" \notin t.kernel /\ "write" \notin t.kernel
       /\ "read" \notin t.reactor_events /\ "write" \notin t.reactor_events
  /\ Reactor /\ t.open =>
       /\ "read" \in t.kernel <=> "read" \in t.reactor_events
       /\ "write" \in t.kernel <=> "write" \in t.reactor_events
  /\ ~Reactor => "write" \notin t.reactor_events
  /\ t.socket_accept =>
       /\ "listening" \in t.flags
       /\ lpc # "gone" => "read" \in queued \/ (~Reactor /\ "read" \in t.kernel)
  /\ Reactor /\ "read" \in faked => t.timeout_read = "none"
  /\ Reactor /\ "write" \in faked => t.timeout_write = "none"

PollSpelled(t, queued) ==
  ~CtlFails /\ Sane(t) =>
    /\ Reactor /\ "write" \in t.reactor_events => "writing" \in t.flags
    /\ Reactor /\ ("connected" \in t.flags \/ "listening" \in t.flags) => "read" \in t.kernel
    /\ "reading" \in t.flags => "read" \in t.kernel \/ "read" \in queued
    /\ "writing" \in t.flags => "write" \in t.kernel \/ "write" \in queued

Spelled(t, queued, faked) ==
  /\ AccountedSpelled(t, queued) /\ CallbacksSpelled(t)
  /\ SocketSpelled(t, queued, faked) /\ PollSpelled(t, queued)

LEMMA SpelledOut ==
  ASSUME NEW t, NEW queued \in SUBSET Directions, NEW faked
  PROVE  TcpSound(t, queued, faked) <=> t \in Tcps /\ Spelled(t, queued, faked)
<1>1. ASSUME TcpSound(t, queued, faked) PROVE t \in Tcps /\ Spelled(t, queued, faked)
  <2>1. t \in Tcps /\ Flag("read") = "reading" /\ Flag("write") = "writing"
        /\ {"read", "write"} = Directions
    BY <1>1 DEF TcpSound, Flag, Directions
  <2>2. AccountedSpelled(t, queued)
    BY <1>1, <2>1 DEF TcpSound, Accounted, AccountedSpelled
  <2>3. CallbacksSpelled(t)
    BY <1>1 DEF TcpSound, CallbacksSound, CallbacksSpelled
  <2>4. SocketSpelled(t, queued, faked)
    BY <1>1 DEF TcpSound, SocketSound, SocketSpelled
  <2>5. PollSpelled(t, queued)
    BY <1>1, <2>1 DEF TcpSound, PollSound, PollSpelled
  <2> QED BY <2>1, <2>2, <2>3, <2>4, <2>5 DEF Spelled
<1>2. ASSUME t \in Tcps, Spelled(t, queued, faked) PROVE TcpSound(t, queued, faked)
  <2>1. \A dir \in Directions : dir = "read" \/ dir = "write"
    BY DEF Directions
  <2>2. \A S \in SUBSET Directions : "read" \notin S /\ "write" \notin S => S = {}
    BY <2>1
  <2>3. \A S, T \in SUBSET Directions :
          ("read" \in S <=> "read" \in T) /\ ("write" \in S <=> "write" \in T) => S = T
    BY <2>1
  <2>4. t.kernel \in SUBSET Directions /\ t.reactor_events \in SUBSET Directions
    BY <1>2 DEF Tcps
  <2>5. Flag("read") = "reading" /\ Flag("write") = "writing"
    BY DEF Flag
  <2>6. Accounted(t, queued)
    BY <1>2, <2>1, <2>2, <2>4, <2>5 DEF Spelled, AccountedSpelled, Accounted
  <2>7. CallbacksSound(t)
    BY <1>2 DEF Spelled, CallbacksSpelled, CallbacksSound, Tcps, Operations, Inbound,
           Outbound
  <2>8. SocketSound(t, queued, faked)
    BY <1>2, <2>2, <2>3, <2>4 DEF Spelled, SocketSpelled, SocketSound
  <2>9. PollSound(t, queued)
    BY <1>2, <2>1, <2>5 DEF Spelled, PollSpelled, PollSound
  <2> QED BY <1>2, <2>6, <2>7, <2>8, <2>9 DEF TcpSound
<1> QED BY <1>1, <1>2

-----------------------------------------------------------------------------
(* Steps that change the structure of one event.                            *)

\* Whether a structure is sound depends on the build and on whether the loop is
\* gone.
LEMMA SoundDepends ==
  ASSUME backend' = backend, lpc' = "gone" <=> lpc = "gone"
  PROVE  \A t, queued, faked : TcpSound(t, queued, faked)' <=> TcpSound(t, queued, faked)
BY DEF TcpSound, Accounted, CallbacksSound, SocketSound, PollSound, Reactor

\* The steps where contexts are queued
LEMMA FakedStays ==
  ASSUME fake' = fake
  PROVE  \A e : Faked(e)' = Faked(e)
BY DEF Faked

LEMMA FakedGrows ==
  ASSUME QueuesSound, NEW c \in Context, fake' = Append(fake, c)
  PROVE  \A e \in Events : Faked(e)' = IF e = c.event THEN Faked(e) \cup {c.dir} ELSE Faked(e)
<1>1. fake \in Seq(Context)
  BY DEF QueuesSound
<1>2. \A e, dir : Has(fake', e, dir) <=> Has(fake, e, dir) \/ Is(c, e, dir)
  BY <1>1, AppendHas
<1>3. c.dir \in Directions
  BY DEF Context
<1> QED BY <1>2, <1>3 DEF Faked, Is

\* The step changes the structure of e to t, and the contexts of no other event.
LEMMA OneEvent ==
  ASSUME TcpInv, QueuesSound', backend' = backend, lpc' = "gone" <=> lpc = "gone",
         NEW e \in Events, NEW t, ev' = [ev EXCEPT ![e] = t],
         TcpSound(t, Queued(e)', Faked(e)'),
         \A x \in Events : x # e => Queued(x)' = Queued(x) /\ Faked(x)' = Faked(x)
  PROVE  TcpInv'
<1>1. t \in Tcps
  BY DEF TcpSound
<1>2. ev' \in [Events -> Tcps]
  BY <1>1 DEF TcpInv
<1>3. ASSUME NEW x \in Events PROVE TcpSound(ev[x], Queued(x), Faked(x))'
  <2>1. TcpSound(ev'[x], Queued(x)', Faked(x)')
    BY DEF TcpInv
  <2> QED BY <2>1, SoundDepends
<1> QED BY <1>2, <1>3 DEF TcpInv

\* A call of the application that queues nothing
LEMMA CallKeeps ==
  ASSUME TcpInv, NEW e \in Events, NEW t, Call(e, t), TcpSound(t, Queued(e), Faked(e))
  PROVE  TcpInv'
<1>1. /\ lpc \in {"user", "timers", "dispatch"} /\ ev' = [ev EXCEPT ![e] = t]
      /\ UNCHANGED <<fake, batch, lpc, backend>>
  BY DEF Call, UserCode
<1>2. QueuesSound' /\ \A x \in Events : Queued(x)' = Queued(x) /\ Faked(x)' = Faked(x)
  BY <1>1, QueuesStay, FakedStays DEF TcpInv, QueuesSound
<1> QED BY <1>1, <1>2, OneEvent, Zenon

\* A call of the application that succeeds at once
LEMMA CallDoneKeeps ==
  ASSUME TcpInv, NEW e \in Events, NEW t, NEW dir \in Directions, CallDone(e, t, dir),
         Flag(dir) \notin ev[e].flags,
         TcpSound(t, Queued(e) \cup {dir}, Faked(e) \cup {dir})
  PROVE  TcpInv'
<1> DEFINE c == [event |-> e, dir |-> dir, ok |-> TRUE]
<1>1. /\ lpc \in {"user", "timers", "dispatch"} /\ ev' = [ev EXCEPT ![e] = t]
      /\ fake' = Append(fake, c) /\ UNCHANGED <<batch, lpc, backend>>
  BY DEF CallDone, UserCode
<1>2. c \in Context /\ c.event = e /\ c.dir = dir
  BY DEF Context
<1>3. dir \notin Queued(e)
  BY DEF TcpInv, TcpSound, Accounted
<1> HIDE DEF c
<1>4. /\ QueuesSound'
      /\ \A x \in Events : Queued(x)' = IF x = e THEN Queued(x) \cup {dir} ELSE Queued(x)
  BY <1>1, <1>2, <1>3, QueuesGrow DEF TcpInv
<1>5. \A x \in Events : Faked(x)' = IF x = e THEN Faked(x) \cup {dir} ELSE Faked(x)
  BY <1>1, <1>2, FakedGrows DEF TcpInv
<1> QED BY <1>1, <1>4, <1>5, OneEvent, Zenon

-----------------------------------------------------------------------------
(* Steps on the structure.                                                  *)

LEMMA UnusedIs ==
  /\ Unused \in Tcps /\ Unused.mem = "none" /\ ~Unused.open /\ Unused.flags = {}
  /\ Unused.cbs = {} /\ Unused.reactor_events = {} /\ Unused.kernel = {}
  /\ Unused.timeout_read = "none" /\ Unused.timeout_write = "none" /\ ~Unused.socket_accept
BY DEF Unused, Tcps

\* Registering keeps a socket polled for reactor_events.
LEMMA RegisteredIs ==
  ASSUME NEW t \in Tcps, NEW events \in SUBSET Directions, backend \in Backends
  PROVE  LET w == Registered(t, events) IN
         /\ w \in Tcps /\ w.mem = t.mem /\ w.open = t.open /\ w.flags = t.flags
         /\ w.cbs = t.cbs /\ w.reactor_events = events
         /\ w.timeout_read = t.timeout_read /\ w.timeout_write = t.timeout_write
         /\ w.socket_accept = t.socket_accept
         /\ ~Reactor => w.kernel = t.kernel
         /\ Reactor /\ t.kernel = t.reactor_events => w.kernel = events
<1> DEFINE k == IF t.reactor_events = events \/ backend = "iocp" THEN t.kernel
                ELSE IF backend = "epoll" THEN events
                ELSE (t.kernel \cup (events \ t.reactor_events)) \ (t.reactor_events \ events)
           w == Registered(t, events)
<1>1. w = [t EXCEPT !.reactor_events = events, !.kernel = k]
  BY DEF Registered, Tcps
<1>2. k \in SUBSET Directions
  BY DEF Tcps
<1>3. ~Reactor => k = t.kernel
  BY DEF Reactor
<1>4. Reactor /\ t.kernel = t.reactor_events => k = events
  BY BackendsAssumption DEF Reactor
<1> HIDE DEF k
<1> QED BY <1>1, <1>2, <1>3, <1>4, Zenon DEF Tcps

\* Waiting for an operation
LEMMA WaitingIs ==
  ASSUME NEW t \in Tcps, NEW dir \in Directions, backend \in Backends,
         Reactor => t.kernel = t.reactor_events
  PROVE  LET w == Waiting(t, dir)
             r == IF Reactor /\ dir = "write" THEN {"write"} ELSE {}
             k == IF Reactor /\ dir = "read" THEN {} ELSE {dir}
         IN /\ w \in Tcps /\ w.mem = t.mem /\ w.open = t.open /\ w.flags = t.flags
            /\ w.cbs = t.cbs /\ w.reactor_events = t.reactor_events \cup r
            /\ w.kernel = t.kernel \cup k
            /\ w.timeout_read = t.timeout_read /\ w.timeout_write = t.timeout_write
            /\ w.socket_accept = t.socket_accept
<1>1. CASE ~Reactor
  <2>1. Waiting(t, dir) = [t EXCEPT !.kernel = @ \cup {dir}]
    BY <1>1 DEF Waiting
  <2> QED BY <1>1, <2>1 DEF Tcps
<1>2. CASE Reactor /\ dir = "write"
  <2>1. Waiting(t, dir) = Registered(t, t.reactor_events \cup {"write"})
    BY <1>2 DEF Waiting
  <2>2. t.reactor_events \cup {"write"} \in SUBSET Directions
    BY <1>2 DEF Tcps
  <2> QED BY <1>2, <2>1, <2>2, RegisteredIs
<1>3. CASE Reactor /\ dir # "write"
  <2>1. Waiting(t, dir) = t /\ dir = "read"
    BY <1>3 DEF Waiting, Directions
  <2> QED BY <1>3, <2>1
<1> QED BY <1>1, <1>2, <1>3

LEMMA StartReadIs ==
  ASSUME NEW t \in Tcps, NEW op \in Inbound, NEW timed
  PROVE  LET w == StartRead(t, op, timed) IN
         /\ w \in Tcps /\ w.mem = t.mem /\ w.open = t.open
         /\ w.flags = t.flags \cup {"reading"} /\ w.cbs = t.cbs \cup {op}
         /\ w.reactor_events = t.reactor_events /\ w.kernel = t.kernel
         /\ (timed => w.timeout_read = op) /\ (~timed => w.timeout_read = t.timeout_read)
         /\ w.timeout_write = t.timeout_write /\ w.socket_accept = t.socket_accept
<1> DEFINE i == IF timed THEN op ELSE t.timeout_read
<1>1. /\ i \in {"none", "read", "accept"} /\ t.cbs \cup {op} \in SUBSET Operations
      /\ t.flags \cup {"reading"} \in SUBSET Flags
  BY DEF Tcps, Inbound, Operations, Flags
<1>2. StartRead(t, op, timed) =
        [t EXCEPT !.flags = @ \cup {"reading"}, !.cbs = @ \cup {op}, !.timeout_read = i]
  BY DEF StartRead, Tcps
<1> HIDE DEF i
<1>3. LET w == StartRead(t, op, timed) IN
      /\ w \in Tcps /\ w.mem = t.mem /\ w.open = t.open
      /\ w.flags = t.flags \cup {"reading"} /\ w.cbs = t.cbs \cup {op}
      /\ w.reactor_events = t.reactor_events /\ w.kernel = t.kernel
      /\ w.timeout_read = i
      /\ w.timeout_write = t.timeout_write /\ w.socket_accept = t.socket_accept
  BY <1>1, <1>2, Zenon DEF Tcps
<1> QED BY <1>3 DEF i

LEMMA StartWriteIs ==
  ASSUME NEW t \in Tcps, NEW op \in Outbound, NEW timed
  PROVE  LET w == StartWrite(t, op, timed) IN
         /\ w \in Tcps /\ w.mem = t.mem /\ w.open = t.open
         /\ w.flags = t.flags \cup {"writing"} /\ w.cbs = t.cbs \cup {op}
         /\ w.reactor_events = t.reactor_events /\ w.kernel = t.kernel
         /\ w.timeout_read = t.timeout_read
         /\ (timed => w.timeout_write = op) /\ (~timed => w.timeout_write = t.timeout_write)
         /\ w.socket_accept = t.socket_accept
<1> DEFINE i == IF timed THEN op ELSE t.timeout_write
<1>1. /\ i \in {"none", "write", "connect"} /\ t.cbs \cup {op} \in SUBSET Operations
      /\ t.flags \cup {"writing"} \in SUBSET Flags
  BY DEF Tcps, Outbound, Operations, Flags
<1>2. StartWrite(t, op, timed) =
        [t EXCEPT !.flags = @ \cup {"writing"}, !.cbs = @ \cup {op}, !.timeout_write = i]
  BY DEF StartWrite, Tcps
<1> HIDE DEF i
<1>3. LET w == StartWrite(t, op, timed) IN
      /\ w \in Tcps /\ w.mem = t.mem /\ w.open = t.open
      /\ w.flags = t.flags \cup {"writing"} /\ w.cbs = t.cbs \cup {op}
      /\ w.reactor_events = t.reactor_events /\ w.kernel = t.kernel
      /\ w.timeout_read = t.timeout_read
      /\ w.timeout_write = i /\ w.socket_accept = t.socket_accept
  BY <1>1, <1>2, Zenon DEF Tcps
<1> QED BY <1>3 DEF i

\* The socket of a connect
LEMMA ToConnectIs ==
  ASSUME NEW t \in Tcps, t.kernel = {}, t.reactor_events = {}, backend \in Backends
  PROVE  LET w == ToConnect(t) IN
         /\ w \in Tcps /\ w.mem = t.mem /\ w.open /\ w.flags = t.flags /\ w.cbs = t.cbs
         /\ w.reactor_events = (IF Reactor THEN {} ELSE {"read"}) /\ w.kernel = {}
         /\ w.timeout_read = t.timeout_read /\ w.timeout_write = t.timeout_write
         /\ w.socket_accept = t.socket_accept
<1> DEFINE o == Opened(t)
<1>1. /\ o \in Tcps /\ o.mem = t.mem /\ o.open /\ o.flags = t.flags /\ o.cbs = t.cbs
      /\ o.reactor_events = {} /\ o.kernel = {}
      /\ o.timeout_read = t.timeout_read /\ o.timeout_write = t.timeout_write
      /\ o.socket_accept = t.socket_accept
  BY Zenon DEF Opened, Tcps
<1>2. ToConnect(t) = IF Reactor THEN o ELSE Registered(o, {"read"})
  BY DEF ToConnect
<1>3. {"read"} \in SUBSET Directions
  BY DEF Directions
<1> HIDE DEF o
<1>4. CASE Reactor
  BY <1>1, <1>2, <1>4
<1>5. CASE ~Reactor
  <2>1. ToConnect(t) = Registered(o, {"read"})
    BY <1>2, <1>5
  <2> QED BY <1>1, <1>3, <1>5, <2>1, RegisteredIs
<1> QED BY <1>4, <1>5

\* The socket of a listening event
LEMMA ToRegisterIs ==
  ASSUME NEW t \in Tcps, t.kernel = {}, t.reactor_events = {}, backend \in Backends
  PROVE  LET w == Registered(Opened(t), {"read"}) IN
         /\ w \in Tcps /\ w.mem = t.mem /\ w.open /\ w.flags = t.flags /\ w.cbs = t.cbs
         /\ w.reactor_events = {"read"} /\ w.kernel = (IF Reactor THEN {"read"} ELSE {})
         /\ w.timeout_read = t.timeout_read /\ w.timeout_write = t.timeout_write
         /\ w.socket_accept = t.socket_accept
<1> DEFINE o == Opened(t)
<1>1. /\ o \in Tcps /\ o.mem = t.mem /\ o.open /\ o.flags = t.flags /\ o.cbs = t.cbs
      /\ o.reactor_events = {} /\ o.kernel = {}
      /\ o.timeout_read = t.timeout_read /\ o.timeout_write = t.timeout_write
      /\ o.socket_accept = t.socket_accept
  BY Zenon DEF Opened, Tcps
<1>2. {"read"} \in SUBSET Directions
  BY DEF Directions
<1> HIDE DEF o
<1>3. LET w == Registered(o, {"read"}) IN
      /\ w \in Tcps /\ w.mem = o.mem /\ w.open = o.open /\ w.flags = o.flags
      /\ w.cbs = o.cbs /\ w.reactor_events = {"read"}
      /\ w.timeout_read = o.timeout_read /\ w.timeout_write = o.timeout_write
      /\ w.socket_accept = o.socket_accept
      /\ ~Reactor => w.kernel = o.kernel
      /\ Reactor /\ o.kernel = o.reactor_events => w.kernel = {"read"}
  BY <1>1, <1>2, RegisteredIs, Zenon
<1> QED BY <1>1, <1>3, Zenon DEF o

\* The end of an operation
LEMMA EndReadIs ==
  ASSUME NEW t \in Tcps, NEW op
  PROVE  LET w == EndRead(t, op) IN
         /\ w \in Tcps /\ w.mem = t.mem /\ w.open = t.open
         /\ w.flags = t.flags \ {"reading"} /\ w.cbs = t.cbs \ {op}
         /\ w.reactor_events = t.reactor_events /\ w.kernel = t.kernel
         /\ w.timeout_read = "none" /\ w.timeout_write = t.timeout_write
         /\ w.socket_accept = t.socket_accept
BY Zenon DEF EndRead, Tcps

LEMMA EndWriteIs ==
  ASSUME NEW t \in Tcps, NEW op
  PROVE  LET w == EndWrite(t, op) IN
         /\ w \in Tcps /\ w.mem = t.mem /\ w.open = t.open
         /\ w.flags = t.flags \ {"writing"} /\ w.cbs = t.cbs \ {op}
         /\ w.reactor_events = t.reactor_events /\ w.kernel = t.kernel
         /\ w.timeout_read = t.timeout_read /\ w.timeout_write = "none"
         /\ w.socket_accept = t.socket_accept
BY Zenon DEF EndWrite, Tcps

LEMMA SetErrorIs ==
  ASSUME NEW t \in Tcps
  PROVE  LET w == SetError(t) IN
         /\ w \in Tcps /\ w.mem = t.mem /\ w.open = t.open
         /\ w.flags = t.flags \cup {"error"} /\ w.cbs = t.cbs
         /\ w.reactor_events = t.reactor_events /\ w.kernel = t.kernel
         /\ w.timeout_read = t.timeout_read /\ w.timeout_write = t.timeout_write
         /\ w.socket_accept = t.socket_accept
BY DEF SetError, Tcps, Flags

LEMMA CloseSocketIs ==
  ASSUME NEW t \in Tcps
  PROVE  LET w == CloseSocket(t) IN
         /\ w \in Tcps /\ w.mem = t.mem /\ ~w.open /\ w.flags = t.flags /\ w.cbs = t.cbs
         /\ w.reactor_events = t.reactor_events
         /\ w.kernel = (IF Reactor THEN {} ELSE t.kernel)
         /\ w.timeout_read = t.timeout_read /\ w.timeout_write = t.timeout_write
         /\ w.socket_accept = t.socket_accept
<1> DEFINE k == IF Reactor THEN {} ELSE t.kernel
<1>1. CloseSocket(t) = [t EXCEPT !.open = FALSE, !.kernel = k]
  BY DEF CloseSocket, Tcps
<1>2. k \in SUBSET Directions
  BY DEF Tcps
<1> HIDE DEF k
<1>3. LET w == CloseSocket(t) IN
      /\ w \in Tcps /\ w.mem = t.mem /\ ~w.open /\ w.flags = t.flags /\ w.cbs = t.cbs
      /\ w.reactor_events = t.reactor_events /\ w.kernel = k
      /\ w.timeout_read = t.timeout_read /\ w.timeout_write = t.timeout_write
      /\ w.socket_accept = t.socket_accept
  BY <1>1, <1>2, Zenon DEF Tcps
<1> QED BY <1>3 DEF k

-----------------------------------------------------------------------------
(* The application.                                                         *)

\* What is known of the structure of an event
LEMMA TcpIs ==
  ASSUME TcpInv, NEW e \in Events
  PROVE  /\ ev[e] \in Tcps /\ Spelled(ev[e], Queued(e), Faked(e)) /\ backend \in Backends
         /\ Queued(e) \in SUBSET Directions /\ Faked(e) \subseteq Queued(e)
         /\ Reactor /\ ev[e].open => ev[e].kernel = ev[e].reactor_events
         /\ Sane(ev[e]) /\ ~ev[e].open => ev[e].kernel = {} /\ ev[e].reactor_events = {}
<1>1. /\ TcpSound(ev[e], Queued(e), Faked(e)) /\ Queued(e) \in SUBSET Directions
      /\ Faked(e) \subseteq Queued(e) /\ backend \in Backends
  BY DEF TcpInv, Queued, Faked, QueuesSound
<1>2. ev[e] \in Tcps /\ Spelled(ev[e], Queued(e), Faked(e))
  BY <1>1, SpelledOut
<1>3. /\ Reactor /\ ev[e].open => ev[e].kernel = ev[e].reactor_events
      /\ Sane(ev[e]) /\ ~ev[e].open => ev[e].kernel = {} /\ ev[e].reactor_events = {}
  BY <1>1 DEF TcpSound, SocketSound
<1> QED BY <1>1, <1>2, <1>3

LEMMA CallSpelled ==
  ASSUME TcpInv, NEW e \in Events, NEW t \in Tcps, Call(e, t),
         Spelled(t, Queued(e), Faked(e))
  PROVE  TcpInv'
<1>1. TcpSound(t, Queued(e), Faked(e))
  BY TcpIs, SpelledOut
<1> QED BY <1>1, CallKeeps

LEMMA CallDoneSpelled ==
  ASSUME TcpInv, NEW e \in Events, NEW t \in Tcps, NEW dir \in Directions, CallDone(e, t, dir),
         Flag(dir) \notin ev[e].flags,
         Spelled(t, Queued(e) \cup {dir}, Faked(e) \cup {dir})
  PROVE  TcpInv'
<1>1. Queued(e) \cup {dir} \in SUBSET Directions
  BY TcpIs
<1>2. TcpSound(t, Queued(e) \cup {dir}, Faked(e) \cup {dir})
  BY <1>1, SpelledOut
<1> QED BY <1>2, CallDoneKeeps

\* tcp_new()
LEMMA NewInv ==
  ASSUME TcpInv, NEW e \in Events, New(e)
  PROVE  TcpInv'
<1> DEFINE w == [Unused EXCEPT !.mem = "live"]
<1>1. /\ w \in Tcps /\ w.mem = "live" /\ ~w.open /\ w.flags = {} /\ w.cbs = {}
      /\ w.reactor_events = {} /\ w.kernel = {} /\ w.timeout_read = "none"
      /\ w.timeout_write = "none" /\ ~w.socket_accept
  BY UnusedIs DEF Tcps
<1>2. "read" \notin Queued(e) /\ "write" \notin Queued(e) /\ Faked(e) \subseteq Queued(e)
  BY TcpIs DEF New, Spelled, AccountedSpelled
<1>3. Call(e, w)
  BY DEF New
<1> HIDE DEF w
<1>4. Spelled(w, Queued(e), Faked(e))
  BY <1>1, <1>2
     DEF Spelled, AccountedSpelled, CallbacksSpelled, SocketSpelled, PollSpelled, Kept, Sane
<1> QED BY <1>1, <1>3, <1>4, CallSpelled

\* o is t but for its socket and for the socket that was accepted.
SocketOf(o, t) ==
  /\ o \in Tcps /\ o.mem = t.mem /\ o.flags = t.flags /\ o.cbs = t.cbs
  /\ o.timeout_read = t.timeout_read /\ o.timeout_write = t.timeout_write

MayWrite(t, op) ==
  /\ Sane(t) /\ "writing" \notin t.flags /\ "listening" \notin t.flags
  /\ \/ op = "connect" /\ "connected" \notin t.flags
     \/ op = "write" /\ "connected" \in t.flags
MayRead(t, op) ==
  /\ Sane(t) /\ t.open /\ "reading" \notin t.flags
  /\ \/ op = "accept" /\ "listening" \in t.flags
     \/ op = "read" /\ "connected" \in t.flags

\* An outbound operation is started on the socket o of t: it is in flight or the
\* socket is polled for output, or it has been queued at once and has no timer.
LEMMA StartWriteSound ==
  ASSUME NEW t \in Tcps, NEW q, NEW f, Spelled(t, q, f), f \subseteq q,
         NEW op, MayWrite(t, op), NEW o, SocketOf(o, t), o.open,
         o.socket_accept = t.socket_accept, "read" \in o.kernel <=> "read" \in t.kernel,
         Reactor => o.kernel = o.reactor_events, ~Reactor => "write" \notin o.reactor_events,
         NEW timed \in BOOLEAN, NEW q2, NEW f2,
         \/ q2 = q /\ f2 = f /\ "write" \in o.kernel
         \/ /\ q2 = q \cup {"write"} /\ f2 = f \cup {"write"} /\ ~timed
            /\ ~Reactor /\ lpc # "gone" => "write" \notin o.kernel
  PROVE  LET w == StartWrite(o, op, timed) IN w \in Tcps /\ Spelled(w, q2, f2)
<1> DEFINE w == StartWrite(o, op, timed)
<1>1. /\ w \in Tcps /\ w.mem = o.mem /\ w.open = o.open
      /\ w.flags = o.flags \cup {"writing"} /\ w.cbs = o.cbs \cup {op}
      /\ w.reactor_events = o.reactor_events /\ w.kernel = o.kernel
      /\ w.timeout_read = o.timeout_read
      /\ (timed => w.timeout_write = op) /\ (~timed => w.timeout_write = o.timeout_write)
      /\ w.socket_accept = o.socket_accept
  <2>1. op \in Outbound /\ o \in Tcps
    BY DEF Outbound, MayWrite, SocketOf
  <2> QED BY <2>1, StartWriteIs, Zenon
<1>2. /\ Spelled(t, q, f) /\ t.mem = "live" /\ "deleted" \notin t.flags
      /\ "error" \notin t.flags
  BY DEF MayWrite, Sane, Kept
<1>3. /\ "write" \notin q /\ "write" \notin t.cbs /\ "connect" \notin t.cbs
      /\ t.timeout_write = "none" /\ "write" \notin f
  BY <1>2 DEF MayWrite, Spelled, AccountedSpelled, CallbacksSpelled, Tcps
<1> HIDE DEF w
<1>4. AccountedSpelled(w, q2)
  BY <1>1, <1>2, <1>3 DEF Spelled, AccountedSpelled, SocketOf, MayWrite
<1>5. CallbacksSpelled(w)
  <2>1. CallbacksSpelled(t)
    BY <1>2 DEF Spelled
  <2> QED BY <1>1, <1>2, <1>3, <2>1 DEF CallbacksSpelled, Kept, SocketOf, MayWrite
<1>6. SocketSpelled(w, q2, f2)
  BY <1>1, <1>2, <1>3 DEF Spelled, SocketSpelled, Sane, Kept, SocketOf, MayWrite
<1>7. PollSpelled(w, q2)
  BY <1>1, <1>2, <1>3, Zenon DEF Spelled, PollSpelled, Sane, Kept, SocketOf, MayWrite
<1> QED BY <1>1, <1>4, <1>5, <1>6, <1>7 DEF Spelled, w

\* An inbound operation is started: it is in flight or the socket is polled for
\* input, or it has been queued at once.
LEMMA StartReadSound ==
  ASSUME NEW t \in Tcps, NEW q, NEW f, Spelled(t, q, f), f \subseteq q,
         NEW op, MayRead(t, op), NEW o, SocketOf(o, t), o.open,
         o.reactor_events = t.reactor_events,
         NEW timed \in BOOLEAN, NEW q2, NEW f2,
         \/ /\ q2 = q /\ f2 = f /\ o.kernel = t.kernel \cup (IF Reactor THEN {} ELSE {"read"})
            /\ o.socket_accept => op = "accept" /\ ~Reactor
         \/ /\ q2 = q \cup {"read"} /\ f2 = f \cup {"read"} /\ (Reactor => ~timed)
            /\ o.kernel = t.kernel
            /\ o.socket_accept => op = "accept"
  PROVE  LET w == StartRead(o, op, timed) IN w \in Tcps /\ Spelled(w, q2, f2)
<1> DEFINE w == StartRead(o, op, timed)
<1>1. /\ w \in Tcps /\ w.mem = o.mem /\ w.open = o.open
      /\ w.flags = o.flags \cup {"reading"} /\ w.cbs = o.cbs \cup {op}
      /\ w.reactor_events = o.reactor_events /\ w.kernel = o.kernel
      /\ (timed => w.timeout_read = op) /\ (~timed => w.timeout_read = o.timeout_read)
      /\ w.timeout_write = o.timeout_write /\ w.socket_accept = o.socket_accept
  <2>1. op \in Inbound /\ o \in Tcps
    BY DEF Inbound, MayRead, SocketOf
  <2>2. \A b :
          LET v == StartRead(o, op, b) IN
          /\ v \in Tcps /\ v.mem = o.mem /\ v.open = o.open
          /\ v.flags = o.flags \cup {"reading"} /\ v.cbs = o.cbs \cup {op}
          /\ v.reactor_events = o.reactor_events /\ v.kernel = o.kernel
          /\ (b => v.timeout_read = op) /\ (~b => v.timeout_read = o.timeout_read)
          /\ v.timeout_write = o.timeout_write /\ v.socket_accept = o.socket_accept
    BY <2>1, StartReadIs, Zenon
  <2> QED BY <2>2, Zenon
<1>2. /\ Spelled(t, q, f) /\ t.mem = "live" /\ "deleted" \notin t.flags
      /\ "error" \notin t.flags
  BY DEF MayRead, Sane, Kept
<1>3. /\ "read" \notin q /\ "read" \notin t.cbs /\ "accept" \notin t.cbs
      /\ t.timeout_read = "none" /\ "read" \notin f
      /\ ~Reactor /\ lpc # "gone" => "read" \notin t.kernel
  BY <1>2 DEF MayRead, Spelled, AccountedSpelled, CallbacksSpelled, Tcps
<1> HIDE DEF w
<1>4. AccountedSpelled(w, q2)
  BY <1>1, <1>2, <1>3 DEF Spelled, AccountedSpelled, SocketOf, MayRead
<1>5. CallbacksSpelled(w)
  <2>1. CallbacksSpelled(t)
    BY <1>2 DEF Spelled
  <2> QED BY <1>1, <1>2, <1>3, <2>1, Zenon DEF CallbacksSpelled, Kept, SocketOf, MayRead
<1>6. SocketSpelled(w, q2, f2)
  BY <1>1, <1>2, <1>3 DEF Spelled, SocketSpelled, Sane, Kept, SocketOf, MayRead
<1>7. PollSpelled(w, q2)
  BY <1>1, <1>2, <1>3, Zenon DEF Spelled, PollSpelled, Sane, Kept, SocketOf, MayRead
<1> QED BY <1>1, <1>4, <1>5, <1>6, <1>7 DEF Spelled, w

\* A call fails, having opened or registered the socket before.
LEMMA FailSound ==
  ASSUME NEW t \in Tcps, NEW q, NEW f, Spelled(t, q, f), Kept(t),
         NEW o, SocketOf(o, t), o.socket_accept = t.socket_accept,
         Reactor /\ o.open => o.kernel = o.reactor_events,
         Reactor /\ ~o.open => o.kernel = {},
         ~Reactor => o.kernel = t.kernel /\ "write" \notin o.reactor_events
  PROVE  LET w == SetError(o) IN w \in Tcps /\ Spelled(w, q, f)
<1> DEFINE w == SetError(o)
<1>1. /\ w \in Tcps /\ w.mem = o.mem /\ w.open = o.open
      /\ w.flags = o.flags \cup {"error"} /\ w.cbs = o.cbs
      /\ w.reactor_events = o.reactor_events /\ w.kernel = o.kernel
      /\ w.timeout_read = o.timeout_read /\ w.timeout_write = o.timeout_write
      /\ w.socket_accept = o.socket_accept
  BY SetErrorIs DEF SocketOf
<1>2. Spelled(t, q, f) /\ t.mem = "live" /\ "deleted" \notin t.flags
  BY DEF Kept
<1> HIDE DEF w
<1>3. AccountedSpelled(w, q)
  BY <1>1, <1>2 DEF Spelled, AccountedSpelled, SocketOf
<1>4. CallbacksSpelled(w)
  <2>1. CallbacksSpelled(t)
    BY <1>2 DEF Spelled
  <2> QED BY <1>1, <1>2, <2>1, Zenon DEF CallbacksSpelled, Kept, SocketOf
<1>5. SocketSpelled(w, q, f)
  BY <1>1, <1>2 DEF Spelled, SocketSpelled, Sane, Kept, SocketOf
<1>6. PollSpelled(w, q)
  BY <1>1 DEF PollSpelled, Sane
<1> QED BY <1>1, <1>3, <1>4, <1>5, <1>6 DEF Spelled, w

\* NoSocket() and MayUse(): the call may be made.
LEMMA NoSocketIs ==
  ASSUME TcpInv, NEW e \in Events, NoSocket(e)
  PROVE  LET o == ToConnect(ev[e]) IN
         /\ Sane(ev[e]) /\ ~ev[e].open /\ MayWrite(ev[e], "connect")
         /\ ev[e].kernel = {} /\ ev[e].reactor_events = {}
         /\ SocketOf(o, ev[e]) /\ o.open /\ o.socket_accept = ev[e].socket_accept
         /\ o.reactor_events = (IF Reactor THEN {} ELSE {"read"}) /\ o.kernel = {}
<1>1. Sane(ev[e]) /\ ~ev[e].open
  BY DEF NoSocket, Usable, Sane, Kept
<1>2. /\ ev[e] \in Tcps /\ ev[e].kernel = {} /\ ev[e].reactor_events = {}
      /\ backend \in Backends
  BY <1>1, TcpIs, Zenon
<1>3. MayWrite(ev[e], "connect")
  BY <1>1, TcpIs DEF MayWrite, Spelled, SocketSpelled
<1>4. LET o == ToConnect(ev[e]) IN
      /\ SocketOf(o, ev[e]) /\ o.open /\ o.socket_accept = ev[e].socket_accept
      /\ o.reactor_events = (IF Reactor THEN {} ELSE {"read"}) /\ o.kernel = {}
  BY <1>2, ToConnectIs DEF SocketOf
<1> QED BY <1>1, <1>2, <1>3, <1>4

LEMMA MayUseIs ==
  ASSUME TcpInv, NEW e \in Events, NEW state, NEW busy, MayUse(e, state, busy)
  PROVE  Sane(ev[e]) /\ ev[e].open /\ busy \notin ev[e].flags /\ state \in ev[e].flags
BY DEF MayUse, Usable, Sane, Kept

\* nanoev_tcp_connect() that is over at once or in progress
LEMMA ConnectNowInv ==
  ASSUME TcpInv, NEW e \in Events, ConnectNow(e)
  PROVE  TcpInv'
<1> DEFINE t == ev[e]
           o == ToConnect(t)
           w == StartWrite(o, "connect", FALSE)
<1>1. NoSocket(e) /\ CallDone(e, w, "write")
  BY Zenon DEF ConnectNow
<1>2. /\ t \in Tcps /\ Spelled(t, Queued(e), Faked(e)) /\ Faked(e) \subseteq Queued(e)
  BY TcpIs
<1>3. /\ t.kernel = {} /\ MayWrite(t, "connect") /\ SocketOf(o, t) /\ o.open
      /\ o.socket_accept = t.socket_accept /\ o.kernel = {}
      /\ o.reactor_events = (IF Reactor THEN {} ELSE {"read"})
  BY <1>1, NoSocketIs
<1> HIDE DEF t, o
<1>4. /\ "read" \in o.kernel <=> "read" \in t.kernel
      /\ Reactor => o.kernel = o.reactor_events
      /\ ~Reactor => "write" \notin o.reactor_events
      /\ "write" \notin o.kernel /\ FALSE \in BOOLEAN /\ "writing" \notin t.flags
  BY <1>3 DEF MayWrite
<1>5. w \in Tcps /\ Spelled(w, Queued(e) \cup {"write"}, Faked(e) \cup {"write"})
  BY <1>2, <1>3, <1>4, StartWriteSound, Zenon
<1>6. Flag("write") \notin ev[e].flags /\ "write" \in Directions
  BY <1>4 DEF Flag, Directions, t
<1> HIDE DEF w
<1> QED BY <1>1, <1>5, <1>6, CallDoneSpelled

LEMMA ConnectInv ==
  ASSUME TcpInv, NEW e \in Events, NEW timed \in BOOLEAN, Connect(e, timed)
  PROVE  TcpInv'
<1> DEFINE t == ev[e]
           p == ToConnect(t)
           o == Waiting(p, "write")
           w == StartWrite(o, "connect", timed)
<1>1. NoSocket(e) /\ Call(e, w)
  BY DEF Connect
<1>2. /\ t \in Tcps /\ Spelled(t, Queued(e), Faked(e)) /\ Faked(e) \subseteq Queued(e)
      /\ backend \in Backends
  BY TcpIs
<1>3. /\ t.kernel = {} /\ MayWrite(t, "connect") /\ SocketOf(p, t) /\ p.open
      /\ p.socket_accept = t.socket_accept /\ p.kernel = {}
      /\ p.reactor_events = (IF Reactor THEN {} ELSE {"read"})
  BY <1>1, NoSocketIs
<1> HIDE DEF t, p
<1>4. p \in Tcps /\ "write" \in Directions /\ (Reactor => p.kernel = p.reactor_events)
  BY <1>3 DEF SocketOf, Directions
<1>5. /\ o \in Tcps /\ o.mem = p.mem /\ o.open = p.open /\ o.flags = p.flags
      /\ o.cbs = p.cbs /\ o.kernel = {"write"}
      /\ o.reactor_events = (IF Reactor THEN {"write"} ELSE {"read"})
      /\ o.timeout_read = p.timeout_read /\ o.timeout_write = p.timeout_write
      /\ o.socket_accept = p.socket_accept
  <2>1. /\ o \in Tcps /\ o.mem = p.mem /\ o.open = p.open /\ o.flags = p.flags
        /\ o.cbs = p.cbs /\ o.kernel = p.kernel \cup {"write"}
        /\ o.reactor_events = p.reactor_events \cup (IF Reactor THEN {"write"} ELSE {})
        /\ o.timeout_read = p.timeout_read /\ o.timeout_write = p.timeout_write
        /\ o.socket_accept = p.socket_accept
    BY <1>2, <1>4, WaitingIs
  <2> QED BY <1>3, <2>1, Zenon
<1> HIDE DEF o
<1>6. /\ SocketOf(o, t) /\ o.open /\ o.socket_accept = t.socket_accept
      /\ "read" \in o.kernel <=> "read" \in t.kernel
      /\ Reactor => o.kernel = o.reactor_events
      /\ ~Reactor => "write" \notin o.reactor_events
      /\ "write" \in o.kernel
  BY <1>3, <1>5 DEF SocketOf
<1>7. w \in Tcps /\ Spelled(w, Queued(e), Faked(e))
  BY <1>2, <1>3, <1>6, StartWriteSound, Zenon
<1> HIDE DEF w
<1> QED BY <1>1, <1>7, CallSpelled

\* nanoev_tcp_write()
LEMMA WriteNowInv ==
  ASSUME TcpInv, NEW e \in Events, WriteNow(e)
  PROVE  TcpInv'
<1> DEFINE t == ev[e]
           w == StartWrite(t, "write", FALSE)
<1>1. MayUse(e, "connected", "writing") /\ CallDone(e, w, "write")
  BY Zenon DEF WriteNow
<1>2. /\ t \in Tcps /\ Spelled(t, Queued(e), Faked(e)) /\ Faked(e) \subseteq Queued(e)
  BY TcpIs
<1>3. Sane(t) /\ t.open /\ "writing" \notin t.flags /\ "connected" \in t.flags
  BY <1>1, MayUseIs
<1>4. Reactor => t.kernel = t.reactor_events
  BY <1>3, TcpIs
<1>5. "write" \in Directions /\ Flag("write") \notin ev[e].flags
  BY <1>3, Zenon DEF Directions, Flag
<1> HIDE DEF t
<1>6. /\ "listening" \notin t.flags /\ (~Reactor => "write" \notin t.reactor_events)
      /\ ~Reactor /\ lpc # "gone" => "write" \notin t.kernel
  BY <1>2, <1>3 DEF Spelled, AccountedSpelled, CallbacksSpelled, SocketSpelled
<1>7. MayWrite(t, "write") /\ SocketOf(t, t)
  BY <1>2, <1>3, <1>6 DEF MayWrite, SocketOf
<1>8. w \in Tcps /\ Spelled(w, Queued(e) \cup {"write"}, Faked(e) \cup {"write"})
  BY <1>2, <1>3, <1>4, <1>6, <1>7, StartWriteSound, Zenon
<1> HIDE DEF w
<1> QED BY <1>1, <1>5, <1>8, CallDoneSpelled

LEMMA WriteInv ==
  ASSUME TcpInv, NEW e \in Events, NEW timed \in BOOLEAN, Write(e, timed)
  PROVE  TcpInv'
<1> DEFINE t == ev[e]
           o == Waiting(t, "write")
           w == StartWrite(o, "write", timed)
<1>1. MayUse(e, "connected", "writing") /\ Call(e, w)
  BY DEF Write
<1>2. /\ t \in Tcps /\ Spelled(t, Queued(e), Faked(e)) /\ Faked(e) \subseteq Queued(e)
      /\ backend \in Backends
  BY TcpIs
<1>3. Sane(t) /\ t.open /\ "writing" \notin t.flags /\ "connected" \in t.flags
  BY <1>1, MayUseIs
<1>4. (Reactor => t.kernel = t.reactor_events) /\ "write" \in Directions
  BY <1>3, TcpIs, Zenon DEF Directions
<1> HIDE DEF t
<1>5. "listening" \notin t.flags /\ (~Reactor => "write" \notin t.reactor_events)
  BY <1>2, <1>3, Zenon DEF Spelled, CallbacksSpelled, SocketSpelled
<1>6. /\ o \in Tcps /\ o.mem = t.mem /\ o.open = t.open /\ o.flags = t.flags
      /\ o.cbs = t.cbs /\ o.kernel = t.kernel \cup {"write"}
      /\ o.reactor_events = t.reactor_events \cup (IF Reactor THEN {"write"} ELSE {})
      /\ o.timeout_read = t.timeout_read /\ o.timeout_write = t.timeout_write
      /\ o.socket_accept = t.socket_accept
  BY <1>2, <1>4, WaitingIs
<1> HIDE DEF o
<1>7. /\ SocketOf(o, t) /\ o.open /\ MayWrite(t, "write")
      /\ o.socket_accept = t.socket_accept
      /\ "read" \in o.kernel <=> "read" \in t.kernel
      /\ Reactor => o.kernel = o.reactor_events
      /\ ~Reactor => "write" \notin o.reactor_events
      /\ "write" \in o.kernel
  BY <1>3, <1>4, <1>5, <1>6, Zenon DEF SocketOf, MayWrite
<1>8. w \in Tcps /\ Spelled(w, Queued(e), Faked(e))
  BY <1>2, <1>7, StartWriteSound, Zenon
<1> HIDE DEF w
<1> QED BY <1>1, <1>8, CallSpelled

\* nanoev_tcp_accept() and nanoev_tcp_read() when they are over at once; o is the
\* event with the socket that was accepted.
LEMMA ReadAtOnceInv ==
  ASSUME TcpInv, NEW e \in Events, NEW timed \in BOOLEAN, NEW op, MayRead(ev[e], op),
         NEW o, SocketOf(o, ev[e]), o.open, o.reactor_events = ev[e].reactor_events,
         o.kernel = ev[e].kernel, o.socket_accept => op = "accept", Reactor => ~timed,
         CallDone(e, StartRead(o, op, timed), "read")
  PROVE  TcpInv'
<1> DEFINE t == ev[e]
           w == StartRead(o, op, timed)
<1>1. /\ t \in Tcps /\ Spelled(t, Queued(e), Faked(e)) /\ Faked(e) \subseteq Queued(e)
  BY TcpIs
<1>2. "read" \in Directions /\ Flag("read") \notin ev[e].flags
  BY Zenon DEF Directions, Flag, MayRead
<1>3. w \in Tcps /\ Spelled(w, Queued(e) \cup {"read"}, Faked(e) \cup {"read"})
  BY <1>1, StartReadSound, Zenon
<1> HIDE DEF w
<1> QED BY <1>2, <1>3, CallDoneSpelled, Zenon DEF w

LEMMA AcceptNowInv ==
  ASSUME TcpInv, NEW e \in Events, AcceptNow(e)
  PROVE  TcpInv'
<1> DEFINE o == [ev[e] EXCEPT !.socket_accept = TRUE]
<1>1. MayUse(e, "listening", "reading") /\ CallDone(e, StartRead(o, "accept", FALSE), "read")
  BY Zenon DEF AcceptNow
<1>2. ev[e] \in Tcps
  BY TcpIs
<1>3. MayRead(ev[e], "accept")
  BY <1>1, MayUseIs DEF MayRead
<1>4. /\ SocketOf(o, ev[e]) /\ o.open = ev[e].open /\ o.kernel = ev[e].kernel
      /\ o.reactor_events = ev[e].reactor_events
  BY <1>2, Zenon DEF SocketOf, Tcps
<1>5. o.open
  BY <1>3, <1>4 DEF MayRead
<1> HIDE DEF o
<1> QED BY <1>1, <1>3, <1>4, <1>5, ReadAtOnceInv, Zenon

LEMMA ReadNowInv ==
  ASSUME TcpInv, NEW e \in Events, NEW timed \in BOOLEAN, ReadNow(e, timed)
  PROVE  TcpInv'
<1>1. /\ ~Reactor /\ MayUse(e, "connected", "reading")
      /\ CallDone(e, StartRead(ev[e], "read", timed), "read")
  BY DEF ReadNow
<1>2. ev[e] \in Tcps /\ CallbacksSpelled(ev[e]) /\ SocketSpelled(ev[e], Queued(e), Faked(e))
  BY TcpIs DEF Spelled
<1>3. MayRead(ev[e], "read")
  BY <1>1, MayUseIs, Zenon DEF MayRead
<1>4. SocketOf(ev[e], ev[e]) /\ ev[e].open /\ ~ev[e].socket_accept
  BY <1>2, <1>3, Zenon DEF SocketOf, MayRead, CallbacksSpelled, SocketSpelled
<1> QED BY <1>1, <1>3, <1>4, ReadAtOnceInv

\* The same when they are not over at once.
LEMMA ReadLaterInv ==
  ASSUME TcpInv, NEW e \in Events, NEW timed \in BOOLEAN, NEW op, MayRead(ev[e], op),
         NEW o, SocketOf(o, ev[e]), o.open, o.reactor_events = ev[e].reactor_events,
         o.kernel = ev[e].kernel \cup (IF Reactor THEN {} ELSE {"read"}),
         o.socket_accept => op = "accept" /\ ~Reactor,
         Call(e, StartRead(o, op, timed))
  PROVE  TcpInv'
<1> DEFINE t == ev[e]
           w == StartRead(o, op, timed)
<1>1. /\ t \in Tcps /\ Spelled(t, Queued(e), Faked(e)) /\ Faked(e) \subseteq Queued(e)
  BY TcpIs, Zenon
<1>2. w \in Tcps /\ Spelled(w, Queued(e), Faked(e))
  BY <1>1, StartReadSound
<1> HIDE DEF w
<1> QED BY <1>2, CallSpelled, Zenon DEF w

\* Waiting for input
LEMMA WaitReadIs ==
  ASSUME TcpInv, NEW e \in Events, ev[e].open
  PROVE  LET o == Waiting(ev[e], "read") IN
         /\ SocketOf(o, ev[e]) /\ o.open /\ o.reactor_events = ev[e].reactor_events
         /\ o.kernel = ev[e].kernel \cup (IF Reactor THEN {} ELSE {"read"})
         /\ o.socket_accept = ev[e].socket_accept
<1>1. /\ ev[e] \in Tcps /\ backend \in Backends /\ "read" \in Directions
      /\ Reactor => ev[e].kernel = ev[e].reactor_events
  BY TcpIs DEF Directions
<1>2. LET o == Waiting(ev[e], "read") IN
      /\ o \in Tcps /\ o.mem = ev[e].mem /\ o.open = ev[e].open /\ o.flags = ev[e].flags
      /\ o.cbs = ev[e].cbs
      /\ o.reactor_events =
           ev[e].reactor_events \cup (IF Reactor /\ "read" = "write" THEN {"write"} ELSE {})
      /\ o.kernel = ev[e].kernel \cup (IF Reactor /\ "read" = "read" THEN {} ELSE {"read"})
      /\ o.timeout_read = ev[e].timeout_read /\ o.timeout_write = ev[e].timeout_write
      /\ o.socket_accept = ev[e].socket_accept
  BY <1>1, WaitingIs, ZenonT(30)
<1> QED BY <1>2, Zenon DEF SocketOf

LEMMA AcceptInv ==
  ASSUME TcpInv, NEW e \in Events, NEW timed \in BOOLEAN, Accept(e, timed)
  PROVE  TcpInv'
<1> DEFINE p == Waiting(ev[e], "read")
           o == [p EXCEPT !.socket_accept = ~Reactor]
<1>1. MayUse(e, "listening", "reading") /\ Call(e, StartRead(o, "accept", timed))
  BY DEF Accept
<1>2. MayRead(ev[e], "accept")
  BY <1>1, MayUseIs DEF MayRead
<1>3. /\ SocketOf(p, ev[e]) /\ p.open /\ p.reactor_events = ev[e].reactor_events
      /\ p.kernel = ev[e].kernel \cup (IF Reactor THEN {} ELSE {"read"})
  BY <1>2, WaitReadIs DEF MayRead
<1> HIDE DEF p
<1>4. /\ o \in Tcps /\ o.mem = p.mem /\ o.flags = p.flags /\ o.cbs = p.cbs
      /\ o.timeout_read = p.timeout_read /\ o.timeout_write = p.timeout_write
      /\ o.open = p.open /\ o.reactor_events = p.reactor_events /\ o.kernel = p.kernel
      /\ o.socket_accept = ~Reactor
  BY <1>3, Zenon DEF SocketOf, Tcps, Reactor
<1> HIDE DEF o
<1>5. /\ SocketOf(o, ev[e]) /\ o.open /\ o.reactor_events = ev[e].reactor_events
      /\ o.kernel = ev[e].kernel \cup (IF Reactor THEN {} ELSE {"read"})
      /\ o.socket_accept => ~Reactor
  BY <1>3, <1>4, Zenon DEF SocketOf
<1> QED BY <1>1, <1>2, <1>5, ReadLaterInv

LEMMA ReadInv ==
  ASSUME TcpInv, NEW e \in Events, NEW timed \in BOOLEAN, Read(e, timed)
  PROVE  TcpInv'
<1> DEFINE o == Waiting(ev[e], "read")
<1>1. MayUse(e, "connected", "reading") /\ Call(e, StartRead(o, "read", timed))
  BY DEF Read
<1>2. MayRead(ev[e], "read")
  BY <1>1, MayUseIs, Zenon DEF MayRead
<1>3. ~ev[e].socket_accept
  <2>1. CallbacksSpelled(ev[e]) /\ SocketSpelled(ev[e], Queued(e), Faked(e))
    BY TcpIs DEF Spelled
  <2> QED BY <1>2, <2>1, Zenon DEF MayRead, CallbacksSpelled, SocketSpelled
<1>4. /\ SocketOf(o, ev[e]) /\ o.open /\ o.reactor_events = ev[e].reactor_events
      /\ o.kernel = ev[e].kernel \cup (IF Reactor THEN {} ELSE {"read"})
      /\ ~o.socket_accept
  BY <1>2, <1>3, WaitReadIs, Zenon DEF MayRead
<1> HIDE DEF o
<1> QED BY <1>1, <1>2, <1>4, ReadLaterInv

\* nanoev_tcp_listen()
LEMMA ListenInv ==
  ASSUME TcpInv, NEW e \in Events, Listen(e)
  PROVE  TcpInv'
<1> DEFINE t == ev[e]
           o == Opened(t)
           r == Registered(o, {"read"})
           w == [r EXCEPT !.flags = @ \cup {"listening"}]
<1>1. NoSocket(e) /\ Call(e, w)
  BY DEF Listen
<1>2. /\ t \in Tcps /\ Spelled(t, Queued(e), Faked(e)) /\ Faked(e) \subseteq Queued(e)
      /\ backend \in Backends
  BY TcpIs
<1>3. Sane(t) /\ ~t.open /\ t.kernel = {} /\ t.reactor_events = {}
  BY <1>1, NoSocketIs, Zenon
<1> HIDE DEF t
<1>4. SocketOf(r, t) /\ r.open /\ r.reactor_events = {"read"}
      /\ r.kernel = (IF Reactor THEN {"read"} ELSE {}) /\ r.socket_accept = t.socket_accept
  BY <1>2, <1>3, ToRegisterIs DEF SocketOf
<1> HIDE DEF o, r
<1>5. r.flags \cup {"listening"} \in SUBSET Flags /\ r \in Tcps
  BY <1>4 DEF SocketOf, Tcps, Flags
<1>6. /\ w \in Tcps /\ w.mem = r.mem /\ w.flags = r.flags \cup {"listening"} /\ w.cbs = r.cbs
      /\ w.timeout_read = r.timeout_read /\ w.timeout_write = r.timeout_write
      /\ w.open = r.open /\ w.reactor_events = r.reactor_events /\ w.kernel = r.kernel
      /\ w.socket_accept = r.socket_accept
  BY <1>5 DEF Tcps
<1> HIDE DEF w
<1>7. Spelled(w, Queued(e), Faked(e))
  <2>1. /\ "reading" \notin t.flags /\ "writing" \notin t.flags /\ ~t.socket_accept
        /\ "connected" \notin t.flags /\ "listening" \notin t.flags
        /\ t.mem = "live" /\ "deleted" \notin t.flags
    BY <1>2, <1>3, Zenon DEF Spelled, SocketSpelled, Sane, Kept
  <2>2. AccountedSpelled(w, Queued(e))
    BY <1>2, <1>4, <1>6, <2>1, Zenon DEF Spelled, AccountedSpelled, SocketOf
  <2>3. CallbacksSpelled(w)
    BY <1>2, <1>4, <1>6, <2>1, Zenon DEF Spelled, CallbacksSpelled, SocketOf, Kept
  <2>4. SocketSpelled(w, Queued(e), Faked(e))
    BY <1>2, <1>4, <1>6, <2>1, SMTT(30) DEF Spelled, SocketSpelled, SocketOf
  <2>5. PollSpelled(w, Queued(e))
    BY <1>2, <1>4, <1>6, <2>1, SMTT(30) DEF Spelled, PollSpelled, SocketOf
  <2> QED BY <2>2, <2>3, <2>4, <2>5, Zenon DEF Spelled
<1> QED BY <1>1, <1>6, <1>7, CallSpelled

\* A call fails and leaves the event as o, which is then in the error state.
LEMMA FailInv ==
  ASSUME TcpInv, NEW e \in Events, Kept(ev[e]),
         NEW o, SocketOf(o, ev[e]), o.socket_accept = ev[e].socket_accept,
         Reactor /\ o.open => o.kernel = o.reactor_events,
         Reactor /\ ~o.open => o.kernel = {},
         ~Reactor => o.kernel = ev[e].kernel /\ "write" \notin o.reactor_events,
         Call(e, SetError(o))
  PROVE  TcpInv'
<1> DEFINE w == SetError(o)
<1>1. ev[e] \in Tcps /\ Spelled(ev[e], Queued(e), Faked(e))
  BY TcpIs, Zenon
<1>2. w \in Tcps /\ Spelled(w, Queued(e), Faked(e))
  BY <1>1, FailSound
<1> HIDE DEF w
<1> QED BY <1>2, CallSpelled, Zenon DEF w

LEMMA OpenFailsInv ==
  ASSUME TcpInv, "iocp" \notin TimerFails, NEW e \in Events, OpenFails(e)
  PROVE  TcpInv'
<1> DEFINE t == ev[e]
           p == ToConnect(t)
<1>1. PICK o \in {t, Opened(t), Registered(Opened(t), {"read"})}
                   \cup (IF backend \in TimerFails THEN {Waiting(p, "write")} ELSE {}) :
        Call(e, SetError(o))
  BY Zenon DEF OpenFails
<1>2. /\ Kept(t) /\ ~t.open /\ t.kernel = {} /\ t.reactor_events = {}
      /\ SocketOf(p, t) /\ p.open /\ p.socket_accept = t.socket_accept
      /\ p.reactor_events = (IF Reactor THEN {} ELSE {"read"}) /\ p.kernel = {}
  BY NoSocketIs DEF OpenFails, Sane
<1>3. t \in Tcps /\ backend \in Backends
  BY TcpIs, Zenon
<1> HIDE DEF t, p
<1>4. CASE o = t
  <2>1. SocketOf(o, t)
    BY <1>3, <1>4 DEF SocketOf
  <2> QED BY <1>1, <1>2, <1>4, <2>1, FailInv, Zenon DEF t
<1>5. CASE o = Opened(t)
  <2>1. /\ SocketOf(o, t) /\ o.open /\ o.socket_accept = t.socket_accept
        /\ o.kernel = {} /\ o.reactor_events = {}
    BY <1>2, <1>3, <1>5, Zenon DEF SocketOf, Opened, Tcps
  <2> QED BY <1>1, <1>2, <2>1, FailInv, Zenon DEF t
<1>6. CASE o = Registered(Opened(t), {"read"})
  <2>1. /\ SocketOf(o, t) /\ o.open /\ o.reactor_events = {"read"}
        /\ o.kernel = (IF Reactor THEN {"read"} ELSE {}) /\ o.socket_accept = t.socket_accept
    BY <1>2, <1>3, <1>6, ToRegisterIs DEF SocketOf
  <2> QED BY <1>1, <1>2, <2>1, FailInv, Zenon DEF t
<1>7. CASE backend \in TimerFails /\ o = Waiting(p, "write")
  <2>1. Reactor /\ p \in Tcps /\ p.kernel = p.reactor_events /\ "write" \in Directions
    BY <1>2, <1>7 DEF Reactor, SocketOf, Directions
  <2>2. /\ o \in Tcps /\ o.mem = p.mem /\ o.open = p.open /\ o.flags = p.flags
        /\ o.cbs = p.cbs /\ o.reactor_events = p.reactor_events \cup {"write"}
        /\ o.kernel = p.kernel \cup {"write"}
        /\ o.timeout_read = p.timeout_read /\ o.timeout_write = p.timeout_write
        /\ o.socket_accept = p.socket_accept
    BY <1>3, <1>7, <2>1, WaitingIs, Zenon
  <2>3. /\ SocketOf(o, t) /\ o.open /\ o.kernel = o.reactor_events
        /\ o.socket_accept = t.socket_accept
    BY <1>2, <2>1, <2>2 DEF SocketOf
  <2> QED BY <1>1, <1>2, <2>1, <2>3, FailInv, Zenon DEF t
<1> QED BY <1>1, <1>4, <1>5, <1>6, <1>7, Zenon

LEMMA CallFailsInv ==
  ASSUME TcpInv, "iocp" \notin TimerFails, NEW e \in Events, CallFails(e)
  PROVE  TcpInv'
<1> DEFINE t == ev[e]
<1>1. PICK o : /\ \/ o = t
                  \/ \E dir \in Directions : backend \in TimerFails /\ o = Waiting(t, dir)
               /\ Call(e, SetError(o))
  BY DEF CallFails
<1>2. Kept(t) /\ t.open
  BY DEF CallFails, Usable, Kept
<1>3. /\ t \in Tcps /\ backend \in Backends /\ (Reactor => t.kernel = t.reactor_events)
      /\ SocketSpelled(t, Queued(e), Faked(e))
  BY <1>2, TcpIs DEF Spelled
<1> HIDE DEF t
<1>4. ~Reactor => "write" \notin t.reactor_events
  BY <1>3, Zenon DEF SocketSpelled
<1>5. CASE o = t
  <2>1. SocketOf(o, t)
    BY <1>3, <1>5, Zenon DEF SocketOf
  <2> QED BY <1>1, <1>2, <1>3, <1>4, <1>5, <2>1, FailInv, Zenon DEF t
<1>6. ASSUME NEW dir \in Directions, backend \in TimerFails, o = Waiting(t, dir)
      PROVE  TcpInv'
  <2>1. Reactor
    BY <1>6, Zenon DEF Reactor
  <2> DEFINE r == IF Reactor /\ dir = "write" THEN {"write"} ELSE {}
             k == IF Reactor /\ dir = "read" THEN {} ELSE {dir}
  <2>2. /\ o \in Tcps /\ o.mem = t.mem /\ o.open = t.open /\ o.flags = t.flags
        /\ o.cbs = t.cbs /\ o.reactor_events = t.reactor_events \cup r
        /\ o.kernel = t.kernel \cup k
        /\ o.timeout_read = t.timeout_read /\ o.timeout_write = t.timeout_write
        /\ o.socket_accept = t.socket_accept
    BY <1>3, <1>6, WaitingIs
  <2>3. r = k
    BY <2>1, Zenon DEF Directions
  <2> HIDE DEF r, k
  <2>4. /\ SocketOf(o, t) /\ o.open /\ o.kernel = o.reactor_events
        /\ o.socket_accept = t.socket_accept
    BY <1>2, <1>3, <2>1, <2>2, <2>3, Zenon DEF SocketOf
  <2> QED BY <1>1, <1>2, <2>1, <2>4, FailInv DEF t
<1> QED BY <1>1, <1>5, <1>6

\* The end of tcp_free()
LEMMA ReleasedIs ==
  ASSUME NEW t \in Tcps
  PROVE  LET w == Released(t)
             busy == "reading" \in t.flags \/ "writing" \in t.flags
         IN
         /\ w \in Tcps /\ ~w.open /\ w.cbs = t.cbs /\ w.reactor_events = t.reactor_events
         /\ w.kernel = (IF Reactor THEN {} ELSE t.kernel)
         /\ busy => w.mem = t.mem /\ w.flags = t.flags \cup {"deleted"}
         /\ ~busy => w.mem = "freed" /\ w.flags = t.flags
         /\ w.timeout_read = t.timeout_read /\ w.timeout_write = t.timeout_write
         /\ w.socket_accept = t.socket_accept
<1> DEFINE c == CloseSocket(t)
<1>1. /\ c \in Tcps /\ c.mem = t.mem /\ ~c.open /\ c.flags = t.flags /\ c.cbs = t.cbs
      /\ c.reactor_events = t.reactor_events
      /\ c.kernel = (IF Reactor THEN {} ELSE t.kernel)
      /\ c.timeout_read = t.timeout_read /\ c.timeout_write = t.timeout_write
      /\ c.socket_accept = t.socket_accept
  BY CloseSocketIs
<1>2. Released(t) = IF t.flags \cap {"reading", "writing"} # {}
                      THEN [c EXCEPT !.flags = @ \cup {"deleted"}]
                      ELSE [c EXCEPT !.mem = "freed"]
  BY DEF Released
<1> HIDE DEF c
<1>3. CASE "reading" \in t.flags \/ "writing" \in t.flags
  <2>1. Released(t) = [c EXCEPT !.flags = @ \cup {"deleted"}]
    BY <1>2, <1>3
  <2>2. c.flags \cup {"deleted"} \in SUBSET Flags
    BY <1>1 DEF Tcps, Flags
  <2> QED BY <1>1, <1>3, <2>1, <2>2 DEF Tcps
<1>4. CASE ~("reading" \in t.flags \/ "writing" \in t.flags)
  <2>1. Released(t) = [c EXCEPT !.mem = "freed"]
    BY <1>2, <1>4, Zenon
  <2> QED BY <1>1, <1>4, <2>1 DEF Tcps
<1> QED BY <1>3, <1>4, Zenon

LEMMA ReleasedSound ==
  ASSUME NEW t \in Tcps, NEW q, NEW f, Spelled(t, q, f), t.mem = "live", lpc # "gone",
         t.timeout_read = "none", t.timeout_write = "none", f \subseteq q
  PROVE  LET w == Released(t) IN w \in Tcps /\ Spelled(w, q, f)
<1> DEFINE w == Released(t)
           busy == "reading" \in t.flags \/ "writing" \in t.flags
<1>1. /\ w \in Tcps /\ ~w.open /\ w.cbs = t.cbs /\ w.reactor_events = t.reactor_events
      /\ w.kernel = (IF Reactor THEN {} ELSE t.kernel)
      /\ busy => w.mem = t.mem /\ w.flags = t.flags \cup {"deleted"}
      /\ ~busy => w.mem = "freed" /\ w.flags = t.flags
      /\ w.timeout_read = t.timeout_read /\ w.timeout_write = t.timeout_write
      /\ w.socket_accept = t.socket_accept
  BY ReleasedIs
<1> HIDE DEF w
<1>2. /\ AccountedSpelled(t, q) /\ CallbacksSpelled(t) /\ SocketSpelled(t, q, f)
  BY Zenon DEF Spelled
<1>3. ~busy => ~t.socket_accept
  BY <1>2, Zenon DEF AccountedSpelled, SocketSpelled
<1>4. AccountedSpelled(w, q)
  BY <1>1, <1>2, Zenon DEF AccountedSpelled
<1>5. CallbacksSpelled(w)
  BY <1>1, <1>2, Zenon DEF CallbacksSpelled
<1>6. SocketSpelled(w, q, f)
  BY <1>1, <1>2, <1>3 DEF SocketSpelled, Sane, Kept
<1>7. PollSpelled(w, q)
  BY <1>1 DEF PollSpelled, Sane, Kept
<1> QED BY <1>1, <1>4, <1>5, <1>6, <1>7, Zenon DEF Spelled, w

\* nanoev_event_free()
LEMMA FreeInv ==
  ASSUME TcpInv, NEW e \in Events, Free(e)
  PROVE  TcpInv'
<1> DEFINE t == ev[e]
           u == [t EXCEPT !.timeout_read = "none", !.timeout_write = "none"]
           w == Released(u)
<1>1. t.mem = "live" /\ Call(e, w) /\ lpc # "gone"
  BY DEF Free, Freed, Usable, Call, UserCode
<1>2. t \in Tcps /\ Spelled(t, Queued(e), Faked(e)) /\ Faked(e) \subseteq Queued(e)
  BY TcpIs
<1> HIDE DEF t
<1>3. /\ u \in Tcps /\ u.mem = t.mem /\ u.open = t.open /\ u.flags = t.flags
      /\ u.cbs = t.cbs /\ u.reactor_events = t.reactor_events /\ u.kernel = t.kernel
      /\ u.timeout_read = "none" /\ u.timeout_write = "none"
      /\ u.socket_accept = t.socket_accept
  BY <1>2, Zenon DEF Tcps
<1> HIDE DEF u
<1>4. Spelled(u, Queued(e), Faked(e))
  BY <1>2, <1>3
     DEF Spelled, AccountedSpelled, CallbacksSpelled, SocketSpelled, PollSpelled, Kept, Sane
<1>5. w \in Tcps /\ Spelled(w, Queued(e), Faked(e))
  BY <1>1, <1>2, <1>3, <1>4, ReleasedSound, Zenon
<1> HIDE DEF w
<1> QED BY <1>1, <1>5, CallSpelled

-----------------------------------------------------------------------------
(* Timeouts.                                                                *)

\* The poller is asked for other events and the result is ignored: what the kernel
\* polls for and reactor_events go on agreeing.
LEMMA AfterRegisterIs ==
  ASSUME NEW t \in Tcps, NEW events \in SUBSET Directions, backend \in Backends,
         Reactor /\ t.open => t.kernel = t.reactor_events,
         Reactor /\ ~t.open => t.kernel = {},
         NEW u \in AfterRegister(t, events)
  PROVE  /\ SocketOf(u, t) /\ u.open = t.open /\ u.socket_accept = t.socket_accept
         /\ ~Reactor => u = t
         /\ u.reactor_events = t.reactor_events \/ u.reactor_events = events
         /\ Reactor /\ t.open => u.kernel = u.reactor_events
         /\ Reactor /\ ~t.open => u.kernel = {}
         /\ Reactor /\ t.open /\ ~CtlFails => u.reactor_events = events
<1>1. u = t \/ (Reactor /\ CanRegister(t, events) /\ u = Registered(t, events))
  BY DEF AfterRegister
<1>2. Reactor /\ t.open => CanRegister(t, events)
  BY DEF CanRegister
<1>3. Reactor /\ t.open /\ ~CtlFails => u = Registered(t, events)
  BY <1>2, Zenon DEF AfterRegister
<1>4. LET w == Registered(t, events) IN
      /\ w \in Tcps /\ w.mem = t.mem /\ w.open = t.open /\ w.flags = t.flags
      /\ w.cbs = t.cbs /\ w.reactor_events = events
      /\ w.timeout_read = t.timeout_read /\ w.timeout_write = t.timeout_write
      /\ w.socket_accept = t.socket_accept
      /\ ~Reactor => w.kernel = t.kernel
      /\ Reactor /\ t.kernel = t.reactor_events => w.kernel = events
  BY RegisteredIs
<1>5. CASE u = t
  <2>1. SocketOf(u, t)
    BY <1>5, Zenon DEF SocketOf
  <2>2. Reactor /\ t.open /\ ~CtlFails => u.reactor_events = events
    BY <1>3, <1>4, Zenon
  <2> QED BY <1>5, <2>1, <2>2
<1>6. CASE Reactor /\ CanRegister(t, events) /\ u = Registered(t, events)
  <2>1. /\ SocketOf(u, t) /\ u.open = t.open /\ u.socket_accept = t.socket_accept
        /\ u.reactor_events = events
        /\ t.kernel = t.reactor_events => u.kernel = events
    BY <1>4, <1>6 DEF SocketOf
  <2>2. ASSUME ~t.open PROVE u.kernel = {}
    <3>1. t.reactor_events = events
      BY <1>6, <2>2, Zenon DEF CanRegister
    <3> QED BY <1>6, <2>2, <3>1, Zenon DEF Registered, Tcps
  <2> QED BY <1>6, <2>1, <2>2, Zenon
<1> QED BY <1>1, <1>5, <1>6, Zenon

\* An operation times out: u is t with the operation over.
LEMMA TimedOutIs ==
  ASSUME NEW t \in Tcps, NEW u \in Tcps
  PROVE  LET w == TimedOut(t, u) IN
         /\ w \in Tcps /\ w.mem = u.mem /\ ~w.open /\ w.cbs = u.cbs
         /\ Reactor => w.flags = u.flags \cup {"error"} /\ w.kernel = {}
         /\ ~Reactor => w.flags = t.flags \cup {"error"} /\ w.kernel = u.kernel
         /\ w.reactor_events = u.reactor_events
         /\ w.timeout_read = u.timeout_read /\ w.timeout_write = u.timeout_write
         /\ w.socket_accept = u.socket_accept
<1> DEFINE f == IF Reactor THEN u.flags ELSE t.flags
           v == [u EXCEPT !.flags = f]
           x == SetError(v)
           w == CloseSocket(x)
<1>1. f \in SUBSET Flags
  BY DEF Tcps
<1>2. TimedOut(t, u) = w
  <2>1. (IF Reactor THEN u ELSE [u EXCEPT !.flags = t.flags]) = v
    BY DEF Tcps
  <2> QED BY <2>1 DEF TimedOut
<1> HIDE DEF f
<1>3. /\ v \in Tcps /\ v.mem = u.mem /\ v.flags = f /\ v.cbs = u.cbs /\ v.kernel = u.kernel
      /\ v.reactor_events = u.reactor_events
      /\ v.timeout_read = u.timeout_read /\ v.timeout_write = u.timeout_write
      /\ v.socket_accept = u.socket_accept
  BY <1>1 DEF Tcps
<1> HIDE DEF v
<1>4. /\ x \in Tcps /\ x.mem = v.mem /\ x.flags = v.flags \cup {"error"} /\ x.cbs = v.cbs
      /\ x.kernel = v.kernel /\ x.reactor_events = v.reactor_events
      /\ x.timeout_read = v.timeout_read /\ x.timeout_write = v.timeout_write
      /\ x.socket_accept = v.socket_accept
  BY <1>3, SetErrorIs
<1> HIDE DEF x
<1>5. /\ w \in Tcps /\ w.mem = x.mem /\ ~w.open /\ w.flags = x.flags /\ w.cbs = x.cbs
      /\ w.kernel = (IF Reactor THEN {} ELSE x.kernel)
      /\ w.reactor_events = x.reactor_events
      /\ w.timeout_read = x.timeout_read /\ w.timeout_write = x.timeout_write
      /\ w.socket_accept = x.socket_accept
  BY <1>4, CloseSocketIs
<1> HIDE DEF w
<1> QED BY <1>2, <1>3, <1>4, <1>5, Zenon DEF f

\* A timer goes off between two batches; it queues nothing.
LEMMA TimerKeeps ==
  ASSUME TcpInv, lpc = "timers", NEW e \in Events, NEW w \in Tcps,
         Spelled(w, Queued(e), Faked(e)), ev' = [ev EXCEPT ![e] = w],
         UNCHANGED <<fake, batch, lpc, backend>>
  PROVE  TcpInv'
<1>1. QueuesSound' /\ \A x \in Events : Queued(x)' = Queued(x) /\ Faked(x)' = Faked(x)
  BY QueuesStay, FakedStays, Zenon DEF TcpInv, QueuesSound
<1>2. TcpSound(w, Queued(e), Faked(e))
  BY TcpIs, SpelledOut
<1> QED BY <1>1, <1>2, OneEvent, Zenon

LEMMA TimerFinds ==
  ASSUME TcpInv, lpc = "timers", NEW e \in Events
  PROVE  Queued(e) = Faked(e)
<1>1. batch = <<>>
  BY DEF TcpInv, QueuesSound
<1>2. \A dir : ~Has(batch, e, dir)
  BY <1>1 DEF Has
<1> QED BY <1>2 DEF Queued, Faked

\* What tcp_timeout_read_callback() does: the operation is pending whenever its
\* timer goes off.
LEMMA TimeoutReadIs ==
  ASSUME TcpInv, NEW e \in Events, TimeoutRead(e)
  PROVE  LET op == ev[e].timeout_read
             t  == [ev[e] EXCEPT !.timeout_read = "none"]
         IN /\ lpc = "timers" /\ UNCHANGED <<fake, batch, lpc, backend>>
            /\ op = "read" \/ op = "accept"
            /\ op \in ev[e].cbs /\ Kept(ev[e]) /\ "reading" \in ev[e].flags
            /\ ev' = [ev EXCEPT ![e] = TimedOut(t, EndRead(t, op))]
            /\ called' = CallTo(e, op)
<1> DEFINE op == ev[e].timeout_read
           t  == [ev[e] EXCEPT !.timeout_read = "none"]
<1>1. ev[e] \in Tcps /\ CallbacksSpelled(ev[e])
  BY TcpIs DEF Spelled
<1>2. op # "none"
  BY DEF TimeoutRead
<1>3. op = "read" \/ op = "accept"
  BY <1>1, <1>2, Zenon DEF Tcps
<1>4. op \in ev[e].cbs /\ Kept(ev[e])
  BY <1>1, <1>3, Zenon DEF CallbacksSpelled
<1>5. "reading" \in ev[e].flags
  BY <1>1, <1>3, <1>4 DEF CallbacksSpelled, Kept
<1>6. t.flags = ev[e].flags /\ t.cbs = ev[e].cbs
  BY <1>1 DEF Tcps
<1>7. /\ lpc = "timers" /\ UNCHANGED <<fake, batch, lpc, backend>>
      /\ "reading" \in t.flags /\ op \in t.cbs
      => /\ ev' = [ev EXCEPT ![e] = TimedOut(t, EndRead(t, op))]
         /\ called' = CallTo(e, op)
  BY DEF TimeoutRead
<1> QED BY <1>3, <1>4, <1>5, <1>6, <1>7, Zenon DEF TimeoutRead

LEMMA TimeoutReadInv ==
  ASSUME TcpInv, NEW e \in Events, TimeoutRead(e)
  PROVE  TcpInv'
<1> DEFINE o  == ev[e]
           op == o.timeout_read
           t  == [o EXCEPT !.timeout_read = "none"]
           u  == EndRead(t, op)
           w  == TimedOut(t, u)
<1>1. /\ lpc = "timers" /\ UNCHANGED <<fake, batch, lpc, backend>>
      /\ op = "read" \/ op = "accept"
      /\ op \in o.cbs /\ Kept(o) /\ "reading" \in o.flags
      /\ ev' = [ev EXCEPT ![e] = w]
  BY TimeoutReadIs
<1>2. o \in Tcps /\ Spelled(o, Queued(e), Faked(e)) /\ Queued(e) = Faked(e)
  BY <1>1, TcpIs, TimerFinds
<1> HIDE DEF o
<1>3. /\ t \in Tcps /\ t.mem = o.mem /\ t.flags = o.flags /\ t.cbs = o.cbs
      /\ t.kernel = o.kernel /\ t.reactor_events = o.reactor_events
      /\ t.timeout_read = "none" /\ t.timeout_write = o.timeout_write
      /\ t.socket_accept = o.socket_accept
  BY <1>2, Zenon DEF Tcps
<1> HIDE DEF t
<1>4. /\ u \in Tcps /\ u.mem = t.mem /\ u.flags = t.flags \ {"reading"}
      /\ u.cbs = t.cbs \ {op} /\ u.reactor_events = t.reactor_events /\ u.kernel = t.kernel
      /\ u.timeout_read = "none" /\ u.timeout_write = t.timeout_write
      /\ u.socket_accept = t.socket_accept
  BY <1>3, EndReadIs, SMTT(30)
<1> HIDE DEF u, op
<1>5. /\ w \in Tcps /\ w.mem = u.mem /\ ~w.open /\ w.cbs = u.cbs
      /\ Reactor => w.flags = u.flags \cup {"error"} /\ w.kernel = {}
      /\ ~Reactor => w.flags = t.flags \cup {"error"} /\ w.kernel = u.kernel
      /\ w.reactor_events = u.reactor_events
      /\ w.timeout_read = u.timeout_read /\ w.timeout_write = u.timeout_write
      /\ w.socket_accept = u.socket_accept
  BY <1>3, <1>4, TimedOutIs, Zenon
<1> HIDE DEF w
<1>6. /\ Reactor => "read" \notin Queued(e)
      /\ o.mem = "live" /\ "deleted" \notin o.flags
  <2>1. SocketSpelled(o, Queued(e), Faked(e)) /\ op # "none"
    BY <1>1, <1>2, Zenon DEF Spelled
  <2> QED BY <1>1, <1>2, <2>1, Zenon DEF SocketSpelled, Kept, op
<1>7. AccountedSpelled(w, Queued(e))
  <2>1. AccountedSpelled(o, Queued(e))
    BY <1>2, Zenon DEF Spelled
  <2> QED BY <1>1, <1>3, <1>4, <1>5, <1>6, <2>1, Zenon DEF AccountedSpelled
<1>8. CallbacksSpelled(w)
  <2>1. CallbacksSpelled(o)
    BY <1>2, Zenon DEF Spelled
  <2> QED BY <1>1, <1>3, <1>4, <1>5, <1>6, <2>1, SMTT(30) DEF CallbacksSpelled, Kept
<1>9. SocketSpelled(w, Queued(e), Faked(e))
  <2>1. SocketSpelled(o, Queued(e), Faked(e))
    BY <1>2 DEF Spelled
  <2> QED BY <1>1, <1>3, <1>4, <1>5, <1>6, <2>1, SMTT(30) DEF SocketSpelled, Sane
<1>10. PollSpelled(w, Queued(e))
  BY <1>5 DEF PollSpelled, Sane
<1>11. Spelled(w, Queued(e), Faked(e))
  BY <1>7, <1>8, <1>9, <1>10 DEF Spelled
<1> QED BY <1>1, <1>5, <1>11, TimerKeeps, Zenon

\* tcp_timeout_write_callback()
LEMMA TimeoutWriteIs ==
  ASSUME TcpInv, NEW e \in Events, TimeoutWrite(e)
  PROVE  LET op == ev[e].timeout_write
             t  == [ev[e] EXCEPT !.timeout_write = "none"]
         IN /\ lpc = "timers" /\ UNCHANGED <<fake, batch, lpc, backend>>
            /\ op = "write" \/ op = "connect"
            /\ op \in ev[e].cbs /\ Kept(ev[e]) /\ "writing" \in ev[e].flags
            /\ \E v \in AfterRegister(t, t.reactor_events \ {"write"}) :
                 ev' = [ev EXCEPT ![e] = TimedOut(v, EndWrite(v, op))]
            /\ called' = CallTo(e, op)
<1> DEFINE op == ev[e].timeout_write
           t  == [ev[e] EXCEPT !.timeout_write = "none"]
<1>1. ev[e] \in Tcps /\ CallbacksSpelled(ev[e])
  BY TcpIs DEF Spelled
<1>2. op # "none"
  BY DEF TimeoutWrite
<1>3. op = "write" \/ op = "connect"
  BY <1>1, <1>2, Zenon DEF Tcps
<1>4. op \in ev[e].cbs /\ Kept(ev[e])
  BY <1>1, <1>3, Zenon DEF CallbacksSpelled
<1>5. "writing" \in ev[e].flags
  BY <1>1, <1>3, <1>4 DEF CallbacksSpelled, Kept
<1>6. t.flags = ev[e].flags /\ t.cbs = ev[e].cbs
  BY <1>1 DEF Tcps
<1>7. "writing" \in t.flags /\ op \in t.cbs
      => /\ \E v \in AfterRegister(t, t.reactor_events \ {"write"}) :
              ev' = [ev EXCEPT ![e] = TimedOut(v, EndWrite(v, op))]
         /\ called' = CallTo(e, op)
  BY Zenon DEF TimeoutWrite
<1> QED BY <1>3, <1>4, <1>5, <1>6, <1>7 DEF TimeoutWrite

LEMMA TimeoutWriteInv ==
  ASSUME TcpInv, NEW e \in Events, TimeoutWrite(e)
  PROVE  TcpInv'
<1> DEFINE o  == ev[e]
           op == o.timeout_write
           t  == [o EXCEPT !.timeout_write = "none"]
           r  == t.reactor_events \ {"write"}
<1>1. /\ lpc = "timers" /\ UNCHANGED <<fake, batch, lpc, backend>>
      /\ op = "write" \/ op = "connect"
      /\ op \in o.cbs /\ Kept(o) /\ "writing" \in o.flags
      /\ \E v \in AfterRegister(t, r) : ev' = [ev EXCEPT ![e] = TimedOut(v, EndWrite(v, op))]
  BY TimeoutWriteIs, Zenon
<1>2. /\ o \in Tcps /\ Spelled(o, Queued(e), Faked(e)) /\ Queued(e) = Faked(e)
      /\ backend \in Backends
      /\ Reactor /\ o.open => o.kernel = o.reactor_events
  BY <1>1, TcpIs, TimerFinds, Zenon
<1>3. Reactor /\ ~o.open => o.kernel = {}
  BY DEF TcpInv, TcpSound, Accounted
<1> HIDE DEF o
<1>4. /\ t \in Tcps /\ t.mem = o.mem /\ t.flags = o.flags /\ t.cbs = o.cbs
      /\ t.kernel = o.kernel /\ t.reactor_events = o.reactor_events /\ t.open = o.open
      /\ t.timeout_read = o.timeout_read /\ t.timeout_write = "none"
      /\ t.socket_accept = o.socket_accept
  BY <1>2 DEF Tcps
<1>5. r \in SUBSET Directions
  BY <1>4 DEF Tcps
<1> HIDE DEF t, r
<1>6. PICK v \in AfterRegister(t, r) : ev' = [ev EXCEPT ![e] = TimedOut(v, EndWrite(v, op))]
  BY <1>1, Zenon
<1>7. /\ SocketOf(v, t) /\ v.socket_accept = t.socket_accept /\ (~Reactor => v = t)
  BY <1>2, <1>3, <1>4, <1>5, AfterRegisterIs, Zenon
<1> DEFINE u == EndWrite(v, op)
           w == TimedOut(v, u)
<1>8. /\ v \in Tcps /\ v.mem = o.mem /\ v.flags = o.flags /\ v.cbs = o.cbs
      /\ v.timeout_read = o.timeout_read /\ v.timeout_write = "none"
      /\ v.socket_accept = o.socket_accept
      /\ ~Reactor => v.kernel = o.kernel /\ v.reactor_events = o.reactor_events
  BY <1>4, <1>7, Zenon DEF SocketOf
<1>9. /\ u \in Tcps /\ u.mem = v.mem /\ u.flags = v.flags \ {"writing"}
      /\ u.cbs = v.cbs \ {op} /\ u.reactor_events = v.reactor_events /\ u.kernel = v.kernel
      /\ u.timeout_read = v.timeout_read /\ u.timeout_write = "none"
      /\ u.socket_accept = v.socket_accept
  BY <1>8, EndWriteIs, SMTT(30)
<1> HIDE DEF u, op
<1>10. /\ w \in Tcps /\ w.mem = u.mem /\ ~w.open /\ w.cbs = u.cbs
       /\ Reactor => w.flags = u.flags \cup {"error"} /\ w.kernel = {}
       /\ ~Reactor => w.flags = v.flags \cup {"error"} /\ w.kernel = u.kernel
       /\ w.reactor_events = u.reactor_events
       /\ w.timeout_read = u.timeout_read /\ w.timeout_write = u.timeout_write
       /\ w.socket_accept = u.socket_accept
  BY <1>8, <1>9, TimedOutIs
<1>11. ev' = [ev EXCEPT ![e] = w]
  BY <1>6, Zenon DEF u
<1> HIDE DEF w
<1>12. /\ Reactor => "write" \notin Queued(e)
       /\ o.mem = "live" /\ "deleted" \notin o.flags
  <2>1. SocketSpelled(o, Queued(e), Faked(e)) /\ op # "none"
    BY <1>1, <1>2, Zenon DEF Spelled
  <2> QED BY <1>1, <1>2, <2>1, Zenon DEF SocketSpelled, Kept, op
<1>13. AccountedSpelled(w, Queued(e))
  <2>1. AccountedSpelled(o, Queued(e))
    BY <1>2, Zenon DEF Spelled
  <2> QED BY <1>1, <1>8, <1>9, <1>10, <1>12, <2>1, SMTT(30) DEF AccountedSpelled
<1>14. CallbacksSpelled(w)
  <2>1. CallbacksSpelled(o)
    BY <1>2, Zenon DEF Spelled
  <2> QED BY <1>1, <1>8, <1>9, <1>10, <1>12, <2>1, SMTT(30) DEF CallbacksSpelled, Kept
<1>15. SocketSpelled(w, Queued(e), Faked(e))
  <2>1. SocketSpelled(o, Queued(e), Faked(e))
    BY <1>2, Zenon DEF Spelled
  <2> QED BY <1>1, <1>8, <1>9, <1>10, <1>12, <2>1, SMTT(30) DEF SocketSpelled, Sane
<1>16. PollSpelled(w, Queued(e))
  BY <1>10 DEF PollSpelled, Sane
<1>17. Spelled(w, Queued(e), Faked(e))
  BY <1>13, <1>14, <1>15, <1>16, Zenon DEF Spelled
<1> QED BY <1>1, <1>10, <1>11, <1>17, TimerKeeps, Zenon

-----------------------------------------------------------------------------
(* tcp_proactor_callback().                                                 *)

\* The context at the head of the batch is that of a pending operation: it is
\* never stale, on no build.
LEMMA DispatchIs ==
  ASSUME TcpInv, NEW e \in Events, NEW dir \in Directions, Dispatch(e, dir)
  PROVE  /\ dir \in Queued(e) /\ dir \notin Faked(e)
         /\ Flag(dir) \in ev[e].flags /\ ev[e].mem = "live"
         /\ lpc = "dispatch" /\ UNCHANGED <<fake, lpc, backend>> /\ QueuesSound'
         /\ \A x \in Events : Queued(x)' = IF x = e THEN Queued(x) \ {dir} ELSE Queued(x)
         /\ \A x \in Events : Faked(x)' = Faked(x)
         /\ Head(batch).event = e /\ Head(batch).dir = dir
<1>1. /\ batch # <<>> /\ Head(batch).event = e /\ Head(batch).dir = dir /\ lpc = "dispatch"
      /\ batch' = Tail(batch) /\ UNCHANGED <<fake, lpc, backend>>
  BY Zenon DEF Dispatch
<1>2. Has(batch, e, dir)
  BY <1>1, TailHas DEF TcpInv, QueuesSound
<1>3. dir \in Queued(e)
  BY <1>2 DEF Queued
<1>4. dir \notin Faked(e)
  BY <1>2, Zenon DEF Faked, TcpInv, QueuesSound, Apart
<1>5. Flag(dir) \in ev[e].flags
  BY <1>3, Zenon DEF TcpInv, TcpSound, Accounted
<1>6. ev[e].mem = "live"
  BY <1>5, SMTT(30) DEF TcpInv, TcpSound, Accounted, Flag
<1>7. /\ QueuesSound'
      /\ \A x \in Events : Queued(x)' = IF x = e THEN Queued(x) \ {dir} ELSE Queued(x)
  BY <1>1, QueuesShrink DEF TcpInv
<1>8. \A x \in Events : Faked(x)' = Faked(x)
  BY <1>1, FakedStays, Zenon
<1> QED BY <1>1, <1>3, <1>4, <1>5, <1>6, <1>7, <1>8, Zenon

\* u is t after the part of the callback that is common to all operations.
NotedOf(u, t, dir) ==
  /\ u \in Tcps /\ u.mem = t.mem /\ u.open = t.open /\ u.cbs = t.cbs
  /\ u.timeout_read = t.timeout_read /\ u.timeout_write = t.timeout_write
  /\ u.socket_accept = t.socket_accept
  /\ u.flags = t.flags \/ u.flags = t.flags \cup {"error"}
  /\ ~Reactor => u.kernel = t.kernel /\ u.reactor_events = t.reactor_events
  /\ Reactor /\ t.open => u.kernel = u.reactor_events
  /\ Reactor /\ ~t.open => u.kernel = {}
  /\ "read" \in u.kernel <=> "read" \in t.kernel
  /\ "write" \in u.kernel => "write" \in t.kernel
  /\ dir = "write" /\ Reactor /\ t.open /\ ~CtlFails => "write" \notin u.reactor_events
  /\ dir = "read" => u.kernel = t.kernel /\ u.reactor_events = t.reactor_events

LEMMA NotedIs ==
  ASSUME TcpInv, NEW e \in Events, NEW dir \in Directions, Dispatch(e, dir),
         NEW u \in Noted(ev[e])
  PROVE  /\ NotedOf(u, ev[e], dir)
         /\ Head(batch).ok => u.flags = ev[e].flags
         /\ ~Head(batch).ok => "error" \in u.flags
<1> DEFINE t == ev[e]
           r == t.reactor_events \ {"write"}
           S == IF dir = "write" THEN AfterRegister(t, r) ELSE {t}
<1>1. u \in IF Head(batch).ok THEN S ELSE {SetError(v) : v \in S}
  BY DispatchIs, Zenon DEF Noted
<1>2. /\ t \in Tcps /\ backend \in Backends
      /\ Reactor /\ t.open => t.kernel = t.reactor_events
  BY TcpIs, Zenon
<1>3. Reactor /\ ~t.open => t.kernel = {}
  BY DEF TcpInv, TcpSound, Accounted
<1> HIDE DEF t
<1>4. r \in SUBSET Directions
  BY <1>2 DEF Tcps
<1>5. ASSUME NEW v \in S PROVE NotedOf(v, t, dir) /\ v.flags = t.flags
  <2>1. CASE dir = "write"
    <3>1. v \in AfterRegister(t, r)
      BY <1>5, <2>1, Zenon
    <3> HIDE DEF r
    <3>2. /\ SocketOf(v, t) /\ v.open = t.open /\ v.socket_accept = t.socket_accept
          /\ ~Reactor => v = t
          /\ v.reactor_events = t.reactor_events \/ v.reactor_events = r
          /\ Reactor /\ t.open => v.kernel = v.reactor_events
          /\ Reactor /\ ~t.open => v.kernel = {}
          /\ Reactor /\ t.open /\ ~CtlFails => v.reactor_events = r
      BY <1>2, <1>3, <1>4, <3>1, AfterRegisterIs, SMTT(30)
    <3> QED BY <1>2, <1>3, <2>1, <3>2, Zenon DEF NotedOf, SocketOf, r
  <2>2. CASE dir # "write"
    BY <1>2, <1>3, <1>5, <2>2, Zenon DEF NotedOf
  <2> QED BY <2>1, <2>2, Zenon
<1> HIDE DEF S
<1>6. CASE Head(batch).ok
  BY <1>1, <1>5, <1>6, Zenon DEF t
<1>7. CASE ~Head(batch).ok
  <2>1. PICK v \in S : u = SetError(v)
    BY <1>1, <1>7, Zenon
  <2>2. NotedOf(v, t, dir) /\ v.flags = t.flags /\ v \in Tcps
    BY <1>5, <2>1, Zenon DEF NotedOf
  <2>3. /\ u \in Tcps /\ u.mem = v.mem /\ u.open = v.open
        /\ u.flags = v.flags \cup {"error"} /\ u.cbs = v.cbs
        /\ u.reactor_events = v.reactor_events /\ u.kernel = v.kernel
        /\ u.timeout_read = v.timeout_read /\ u.timeout_write = v.timeout_write
        /\ u.socket_accept = v.socket_accept
    BY <2>1, <2>2, SetErrorIs, Zenon
  <2>4. "error" \in u.flags /\ NotedOf(u, t, dir)
    BY <2>2, <2>3, Zenon DEF NotedOf
  <2> QED BY <1>7, <2>4 DEF t
<1> QED BY <1>6, <1>7, Zenon

\* An inbound operation is over, u being the structure after the common part: the
\* socket that was accepted has gone.
LEMMA ReadOverSound ==
  ASSUME NEW t \in Tcps, NEW q, NEW f, Spelled(t, q, f), "read" \in q, "read" \notin f,
         lpc # "gone", NEW u, NotedOf(u, t, "read"), NEW op,
         \/ op = "read" /\ "connected" \in t.flags
         \/ op = "accept" /\ "listening" \in t.flags,
         NEW w \in Tcps, w.mem = u.mem, w.open = u.open, w.flags = u.flags \ {"reading"},
         w.cbs = u.cbs \ {op}, w.reactor_events = u.reactor_events, w.kernel = u.kernel,
         w.timeout_read = "none", w.timeout_write = u.timeout_write, ~w.socket_accept
  PROVE  Spelled(w, q \ {"read"}, f)
<1>1. /\ u.mem = t.mem /\ u.open = t.open /\ u.cbs = t.cbs
      /\ u.timeout_write = t.timeout_write
      /\ u.flags = t.flags \/ u.flags = t.flags \cup {"error"}
      /\ u.kernel = t.kernel /\ u.reactor_events = t.reactor_events
  BY Zenon DEF NotedOf
<1>2. /\ AccountedSpelled(t, q) /\ CallbacksSpelled(t) /\ SocketSpelled(t, q, f)
      /\ PollSpelled(t, q)
  BY Zenon DEF Spelled
<1>3. AccountedSpelled(w, q \ {"read"})
  BY <1>1, <1>2, Zenon DEF AccountedSpelled
<1>4. CallbacksSpelled(w)
  BY <1>1, <1>2, Zenon DEF CallbacksSpelled, Kept
<1>5. SocketSpelled(w, q \ {"read"}, f)
  BY <1>1, <1>2, Zenon DEF SocketSpelled, Sane, Kept
<1>6. PollSpelled(w, q \ {"read"})
  BY <1>1, <1>2, Zenon DEF PollSpelled, Sane, Kept
<1> QED BY <1>3, <1>4, <1>5, <1>6, Zenon DEF Spelled

\* An outbound operation is over.
LEMMA WriteOverSound ==
  ASSUME NEW t \in Tcps, NEW q, NEW f, Spelled(t, q, f), "write" \in q, "write" \notin f,
         lpc # "gone", NEW u, NotedOf(u, t, "write"), NEW op,
         \/ op = "write" /\ "connected" \in t.flags
         \/ op = "connect" /\ "connected" \notin t.flags,
         NEW w \in Tcps, w.mem = u.mem, w.open = u.open, w.flags = u.flags \ {"writing"},
         w.cbs = u.cbs \ {op}, w.reactor_events = u.reactor_events, w.kernel = u.kernel,
         w.timeout_read = u.timeout_read, w.timeout_write = "none",
         w.socket_accept = u.socket_accept
  PROVE  Spelled(w, q \ {"write"}, f)
<1>1. /\ u.mem = t.mem /\ u.open = t.open /\ u.cbs = t.cbs
      /\ u.timeout_read = t.timeout_read /\ u.socket_accept = t.socket_accept
      /\ u.flags = t.flags \/ u.flags = t.flags \cup {"error"}
      /\ ~Reactor => u.kernel = t.kernel /\ u.reactor_events = t.reactor_events
      /\ Reactor /\ t.open => u.kernel = u.reactor_events
      /\ Reactor /\ ~t.open => u.kernel = {}
      /\ "read" \in u.kernel <=> "read" \in t.kernel
      /\ "write" \in u.kernel => "write" \in t.kernel
      /\ Reactor /\ t.open /\ ~CtlFails => "write" \notin u.reactor_events
  BY Zenon DEF NotedOf
<1>2. /\ AccountedSpelled(t, q) /\ CallbacksSpelled(t) /\ SocketSpelled(t, q, f)
      /\ PollSpelled(t, q)
  BY Zenon DEF Spelled
<1>3. "writing" \in t.flags /\ t.mem = "live" /\ (Sane(t) => t.open)
  BY <1>2, Zenon DEF AccountedSpelled, SocketSpelled
<1>4. AccountedSpelled(w, q \ {"write"})
  BY <1>1, <1>2, Zenon DEF AccountedSpelled
<1>5. CallbacksSpelled(w)
  BY <1>1, <1>2, Zenon DEF CallbacksSpelled, Kept
<1>6. SocketSpelled(w, q \ {"write"}, f)
  BY <1>1, <1>2, <1>3, SMTT(30) DEF SocketSpelled, Sane, Kept
<1>7. PollSpelled(w, q \ {"write"})
  BY <1>1, <1>2, <1>3 DEF PollSpelled, Sane, Kept
<1> QED BY <1>4, <1>5, <1>6, <1>7, Zenon DEF Spelled

\* The structure of e becomes w, and its context is done with.
LEMMA DoneKeeps ==
  ASSUME TcpInv, NEW e \in Events, NEW dir \in Directions, Dispatch(e, dir),
         NEW w \in Tcps, Spelled(w, Queued(e) \ {dir}, Faked(e)), ev' = [ev EXCEPT ![e] = w]
  PROVE  TcpInv'
<1>1. /\ UNCHANGED <<lpc, backend>> /\ QueuesSound'
      /\ \A x \in Events : Queued(x)' = IF x = e THEN Queued(x) \ {dir} ELSE Queued(x)
      /\ \A x \in Events : Faked(x)' = Faked(x)
  BY DispatchIs, Zenon
<1>2. Queued(e) \ {dir} \in SUBSET Directions
  BY TcpIs
<1>3. TcpSound(w, Queued(e) \ {dir}, Faked(e))
  BY <1>2, SpelledOut
<1> QED BY <1>1, <1>3, OneEvent, Zenon

\* What the callback does when a read or a write is over.
LEMMA ReadDoneIs ==
  ASSUME TcpInv, NEW e \in Events, ReadDone(e)
  PROVE  /\ Dispatch(e, "read") /\ "reading" \in ev[e].flags
         /\ \E w \in Tcps :
              /\ w.mem = ev[e].mem /\ w.cbs = ev[e].cbs \ {"read"}
              /\ "deleted" \in w.flags <=> "deleted" \in ev[e].flags
              /\ Spelled(w, Queued(e) \ {"read"}, Faked(e))
              /\ ev' = [ev EXCEPT ![e] = w]
<1> DEFINE t == ev[e]
<1>1. Dispatch(e, "read") /\ "connected" \in t.flags /\ "read" \in Directions
  BY DEF ReadDone, Directions
<1>2. PICK u \in Noted(t) :
        ev' = [ev EXCEPT ![e] = IF "reading" \in u.flags THEN EndRead(u, "read") ELSE u]
  BY Zenon DEF ReadDone
<1>3. NotedOf(u, t, "read")
  BY <1>1, <1>2, NotedIs, Zenon
<1>4. /\ "read" \in Queued(e) /\ "read" \notin Faked(e) /\ lpc # "gone"
      /\ "reading" \in t.flags
  BY <1>1, DispatchIs, Zenon DEF Flag
<1>5. t \in Tcps /\ Spelled(t, Queued(e), Faked(e))
  BY TcpIs, Zenon
<1> HIDE DEF t
<1> DEFINE w == EndRead(u, "read")
<1>6. /\ u \in Tcps /\ "reading" \in u.flags /\ u.socket_accept = t.socket_accept
  BY <1>3, <1>4 DEF NotedOf
<1>7. ev' = [ev EXCEPT ![e] = w]
  BY <1>2, <1>6, Zenon
<1>8. /\ w \in Tcps /\ w.mem = u.mem /\ w.open = u.open /\ w.flags = u.flags \ {"reading"}
      /\ w.cbs = u.cbs \ {"read"} /\ w.reactor_events = u.reactor_events
      /\ w.kernel = u.kernel /\ w.timeout_read = "none"
      /\ w.timeout_write = u.timeout_write /\ w.socket_accept = u.socket_accept
  BY <1>6, EndReadIs, SMTT(30)
<1> HIDE DEF w
<1>9. ~w.socket_accept
  BY <1>1, <1>5, <1>6, <1>8, Zenon DEF Spelled, SocketSpelled, CallbacksSpelled
<1>10. Spelled(w, Queued(e) \ {"read"}, Faked(e))
  BY <1>1, <1>3, <1>4, <1>5, <1>8, <1>9, ReadOverSound, SMTT(30)
<1>11. /\ w.mem = t.mem /\ w.cbs = t.cbs \ {"read"}
       /\ "deleted" \in w.flags <=> "deleted" \in t.flags
  BY <1>3, <1>8 DEF NotedOf
<1> QED BY <1>1, <1>4, <1>7, <1>8, <1>10, <1>11, Zenon DEF t

LEMMA ReadDoneInv ==
  ASSUME TcpInv, NEW e \in Events, ReadDone(e)
  PROVE  TcpInv'
<1>1. Dispatch(e, "read") /\ "read" \in Directions
  BY ReadDoneIs, Zenon DEF Directions
<1>2. PICK w \in Tcps :
        Spelled(w, Queued(e) \ {"read"}, Faked(e)) /\ ev' = [ev EXCEPT ![e] = w]
  BY ReadDoneIs
<1> QED BY <1>1, <1>2, DoneKeeps, Zenon

LEMMA WriteDoneIs ==
  ASSUME TcpInv, NEW e \in Events, WriteDone(e)
  PROVE  /\ Dispatch(e, "write") /\ "writing" \in ev[e].flags
         /\ \E w \in Tcps :
              /\ w.mem = ev[e].mem /\ w.cbs = ev[e].cbs \ {"write"}
              /\ "deleted" \in w.flags <=> "deleted" \in ev[e].flags
              /\ Spelled(w, Queued(e) \ {"write"}, Faked(e))
              /\ ev' = [ev EXCEPT ![e] = w]
<1> DEFINE t == ev[e]
<1>1. Dispatch(e, "write") /\ "connected" \in t.flags /\ "write" \in Directions
  BY DEF WriteDone, Directions
<1>2. PICK u \in Noted(t) :
        ev' = [ev EXCEPT ![e] = IF "writing" \in u.flags THEN EndWrite(u, "write") ELSE u]
  BY ZenonT(30) DEF WriteDone
<1>3. NotedOf(u, t, "write")
  BY <1>1, <1>2, NotedIs, Zenon
<1>4. /\ "write" \in Queued(e) /\ "write" \notin Faked(e) /\ lpc # "gone"
      /\ "writing" \in t.flags
  BY <1>1, DispatchIs, Zenon DEF Flag
<1>5. t \in Tcps /\ Spelled(t, Queued(e), Faked(e))
  BY TcpIs
<1> HIDE DEF t
<1> DEFINE w == EndWrite(u, "write")
<1>6. u \in Tcps /\ "writing" \in u.flags
  BY <1>3, <1>4, Zenon DEF NotedOf
<1>7. ev' = [ev EXCEPT ![e] = w]
  BY <1>2, <1>6, Zenon
<1>8. /\ w \in Tcps /\ w.mem = u.mem /\ w.open = u.open /\ w.flags = u.flags \ {"writing"}
      /\ w.cbs = u.cbs \ {"write"} /\ w.reactor_events = u.reactor_events
      /\ w.kernel = u.kernel /\ w.timeout_read = u.timeout_read
      /\ w.timeout_write = "none" /\ w.socket_accept = u.socket_accept
  BY <1>6, EndWriteIs, Zenon
<1> HIDE DEF w
<1>9. Spelled(w, Queued(e) \ {"write"}, Faked(e))
  BY <1>1, <1>3, <1>4, <1>5, <1>8, WriteOverSound, SMTT(30)
<1>10. /\ w.mem = t.mem /\ w.cbs = t.cbs \ {"write"}
       /\ "deleted" \in w.flags <=> "deleted" \in t.flags
  BY <1>3, <1>8 DEF NotedOf
<1> QED BY <1>1, <1>4, <1>7, <1>8, <1>9, <1>10, ZenonT(30) DEF t

LEMMA WriteDoneInv ==
  ASSUME TcpInv, NEW e \in Events, WriteDone(e)
  PROVE  TcpInv'
<1>1. Dispatch(e, "write") /\ "write" \in Directions
  BY WriteDoneIs, Zenon DEF Directions
<1>2. PICK w \in Tcps :
        Spelled(w, Queued(e) \ {"write"}, Faked(e)) /\ ev' = [ev EXCEPT ![e] = w]
  BY WriteDoneIs, Zenon
<1> QED BY <1>1, <1>2, DoneKeeps, Zenon

\* tcp_alloc_client(): the event of an accepted connection
LEMMA ClientIs ==
  ASSUME backend \in Backends
  PROVE  LET w == Client IN
         /\ w \in Tcps /\ w.mem = "live" /\ w.open /\ w.flags = {"connected"} /\ w.cbs = {}
         /\ w.reactor_events = {"read"} /\ w.kernel = (IF Reactor THEN {"read"} ELSE {})
         /\ w.timeout_read = "none" /\ w.timeout_write = "none" /\ ~w.socket_accept
<1> DEFINE o == [Unused EXCEPT !.mem = "live", !.open = TRUE]
           r == Registered(o, {"read"})
<1>1. /\ o \in Tcps /\ o.mem = "live" /\ o.open /\ o.cbs = {} /\ o.reactor_events = {}
      /\ o.kernel = {} /\ o.timeout_read = "none" /\ o.timeout_write = "none"
      /\ ~o.socket_accept
  BY UnusedIs, ZenonT(30) DEF Tcps
<1>2. {"read"} \in SUBSET Directions
  BY DEF Directions
<1> HIDE DEF o
<1>3. /\ r \in Tcps /\ r.mem = o.mem /\ r.open = o.open
      /\ r.cbs = o.cbs /\ r.reactor_events = {"read"}
      /\ r.timeout_read = o.timeout_read /\ r.timeout_write = o.timeout_write
      /\ r.socket_accept = o.socket_accept
      /\ ~Reactor => r.kernel = o.kernel
      /\ Reactor /\ o.kernel = o.reactor_events => r.kernel = {"read"}
  BY <1>1, <1>2, RegisteredIs, ZenonT(30)
<1>4. Client = [r EXCEPT !.flags = {"connected"}] /\ {"connected"} \in SUBSET Flags
  BY SMTT(30) DEF Client, o, Flags
<1> HIDE DEF r
<1> QED BY <1>1, <1>3, <1>4, Zenon DEF Tcps

LEMMA ClientSound ==
  ASSUME TcpInv, NEW c \in Events, ev[c].mem = "none"
  PROVE  Client \in Tcps /\ Queued(c) = {} /\ TcpSound(Client, Queued(c), Faked(c))
<1> DEFINE w == Client
<1>1. /\ w \in Tcps /\ w.mem = "live" /\ w.open /\ w.flags = {"connected"} /\ w.cbs = {}
      /\ w.reactor_events = {"read"} /\ w.kernel = (IF Reactor THEN {"read"} ELSE {})
      /\ w.timeout_read = "none" /\ w.timeout_write = "none" /\ ~w.socket_accept
  BY TcpIs, ClientIs, Zenon
<1>2. AccountedSpelled(ev[c], Queued(c)) /\ Queued(c) \in SUBSET Directions
      /\ Faked(c) \subseteq Queued(c)
  BY TcpIs, Zenon DEF Spelled
<1>3. "read" \notin Queued(c) /\ "write" \notin Queued(c)
  BY <1>2 DEF AccountedSpelled
<1>4. Queued(c) = {} /\ Faked(c) = {}
  BY <1>2, <1>3, Zenon DEF Directions
<1> HIDE DEF w
<1>5. Spelled(w, {}, {})
  BY <1>1, Zenon
     DEF Spelled, AccountedSpelled, CallbacksSpelled, SocketSpelled, PollSpelled, Kept, Sane
<1>6. TcpSound(w, Queued(c), Faked(c))
  BY <1>1, <1>2, <1>4, <1>5, SpelledOut, Zenon
<1> QED BY <1>1, <1>4, <1>6 DEF w

\* The context of e is done with, and c is a new event with the accepted socket.
LEMMA ClientKeeps ==
  ASSUME TcpInv, NEW e \in Events, NEW dir \in Directions, Dispatch(e, dir),
         NEW w \in Tcps, Spelled(w, Queued(e) \ {dir}, Faked(e)),
         NEW c \in Events, ev[c].mem = "none", ev' = [ev EXCEPT ![e] = w, ![c] = Client]
  PROVE  TcpInv'
<1>1. /\ UNCHANGED <<lpc, backend>> /\ QueuesSound' /\ ev[e].mem = "live"
      /\ \A x \in Events : Queued(x)' = IF x = e THEN Queued(x) \ {dir} ELSE Queued(x)
      /\ \A x \in Events : Faked(x)' = Faked(x)
  BY DispatchIs, Zenon
<1>2. Queued(e) \ {dir} \in SUBSET Directions /\ c # e
  BY <1>1, TcpIs, Zenon
<1>3. TcpSound(w, Queued(e) \ {dir}, Faked(e))
  BY <1>2, SpelledOut, Zenon
<1>4. Client \in Tcps /\ TcpSound(Client, Queued(c), Faked(c))
  BY ClientSound
<1>5. ev \in [Events -> Tcps]
  BY DEF TcpInv
<1>6. /\ ev' \in [Events -> Tcps] /\ ev'[e] = w /\ ev'[c] = Client
      /\ \A x \in Events : x # e /\ x # c => ev'[x] = ev[x]
  BY <1>2, <1>4, <1>5, Zenon
<1>7. ASSUME NEW x \in Events PROVE TcpSound(ev[x], Queued(x), Faked(x))'
  <2>1. TcpSound(ev[x], Queued(x), Faked(x))
    BY DEF TcpInv
  <2>2. TcpSound(ev'[x], Queued(x)', Faked(x)')
    <3>1. CASE x = e
      BY <1>1, <1>3, <1>6, <3>1, Zenon
    <3>2. CASE x = c
      BY <1>1, <1>2, <1>4, <1>6, <3>2, Zenon
    <3>3. CASE x # e /\ x # c
      BY <1>1, <1>6, <2>1, <3>3, Zenon
    <3> QED BY <3>1, <3>2, <3>3, Zenon
  <2> QED BY <1>1, <2>2, SoundDepends, Zenon
<1> QED BY <1>1, <1>6, <1>7, Zenon DEF TcpInv

\* What the callback does when an accept is over.
LEMMA AcceptDoneIs ==
  ASSUME TcpInv, NEW e \in Events, AcceptDone(e)
  PROVE  /\ Dispatch(e, "read") /\ "reading" \in ev[e].flags
         /\ \E w \in Tcps :
              /\ w.mem = ev[e].mem /\ w.cbs = ev[e].cbs \ {"accept"}
              /\ "deleted" \in w.flags <=> "deleted" \in ev[e].flags
              /\ Spelled(w, Queued(e) \ {"read"}, Faked(e))
              /\ \/ ev' = [ev EXCEPT ![e] = w]
                 \/ \E c \in Events : /\ ev[c].mem = "none"
                                      /\ ev' = [ev EXCEPT ![e] = w, ![c] = Client]
<1> DEFINE t == ev[e]
<1>1. Dispatch(e, "read") /\ "listening" \in t.flags /\ "read" \in Directions
  BY DEF AcceptDone, Directions
<1>2. PICK u \in Noted(t) :
        LET w == [IF "reading" \in u.flags THEN EndRead(u, "accept") ELSE u
                    EXCEPT !.socket_accept = FALSE] IN
        \/ ev' = [ev EXCEPT ![e] = w]
        \/ \E c \in Events : ev[c].mem = "none" /\ ev' = [ev EXCEPT ![e] = w, ![c] = Client]
  BY DEF AcceptDone
<1>3. NotedOf(u, t, "read")
  BY <1>1, <1>2, NotedIs, Zenon
<1>4. /\ "read" \in Queued(e) /\ "read" \notin Faked(e) /\ lpc # "gone"
      /\ "reading" \in t.flags
  BY <1>1, DispatchIs, Zenon DEF Flag
<1>5. t \in Tcps /\ Spelled(t, Queued(e), Faked(e))
  BY TcpIs
<1> HIDE DEF t
<1> DEFINE v == EndRead(u, "accept")
           w == [v EXCEPT !.socket_accept = FALSE]
<1>6. /\ u \in Tcps /\ "reading" \in u.flags /\ u.mem = t.mem /\ u.cbs = t.cbs
      /\ "deleted" \in u.flags <=> "deleted" \in t.flags
  BY <1>3, <1>4 DEF NotedOf
<1>7. \/ ev' = [ev EXCEPT ![e] = w]
      \/ \E c \in Events : ev[c].mem = "none" /\ ev' = [ev EXCEPT ![e] = w, ![c] = Client]
  BY <1>2, <1>6, Zenon
<1>8. /\ v \in Tcps /\ v.mem = u.mem /\ v.open = u.open /\ v.flags = u.flags \ {"reading"}
      /\ v.cbs = u.cbs \ {"accept"} /\ v.reactor_events = u.reactor_events
      /\ v.kernel = u.kernel /\ v.timeout_read = "none"
      /\ v.timeout_write = u.timeout_write
  BY <1>6, EndReadIs
<1> HIDE DEF v
<1>9. /\ w \in Tcps /\ w.mem = v.mem /\ w.open = v.open /\ w.flags = v.flags
      /\ w.cbs = v.cbs /\ w.reactor_events = v.reactor_events /\ w.kernel = v.kernel
      /\ w.timeout_read = v.timeout_read /\ w.timeout_write = v.timeout_write
      /\ ~w.socket_accept
  BY <1>8, Zenon DEF Tcps
<1> HIDE DEF w
<1>10. Spelled(w, Queued(e) \ {"read"}, Faked(e))
  BY <1>1, <1>3, <1>4, <1>5, <1>8, <1>9, ReadOverSound, SMTT(30)
<1>11. /\ w.mem = t.mem /\ w.cbs = t.cbs \ {"accept"}
       /\ "deleted" \in w.flags <=> "deleted" \in t.flags
  BY <1>6, <1>8, <1>9, Zenon
<1> QED BY <1>1, <1>4, <1>7, <1>9, <1>10, <1>11, Zenon DEF t

LEMMA AcceptDoneInv ==
  ASSUME TcpInv, NEW e \in Events, AcceptDone(e)
  PROVE  TcpInv'
<1>1. Dispatch(e, "read") /\ "read" \in Directions
  BY AcceptDoneIs, Zenon DEF Directions
<1>2. PICK w \in Tcps :
        /\ Spelled(w, Queued(e) \ {"read"}, Faked(e))
        /\ \/ ev' = [ev EXCEPT ![e] = w]
           \/ \E c \in Events : ev[c].mem = "none" /\ ev' = [ev EXCEPT ![e] = w, ![c] = Client]
  BY AcceptDoneIs, Zenon
<1>3. CASE ev' = [ev EXCEPT ![e] = w]
  BY <1>1, <1>2, <1>3, DoneKeeps, Zenon
<1>4. ASSUME NEW c \in Events, ev[c].mem = "none", ev' = [ev EXCEPT ![e] = w, ![c] = Client]
      PROVE  TcpInv'
  BY <1>1, <1>2, <1>4, ClientKeeps, Zenon
<1> QED BY <1>2, <1>3, <1>4

\* A connection is established.
LEMMA ConnectedSound ==
  ASSUME NEW t \in Tcps, NEW q, NEW f, Spelled(t, q, f), t.mem = "live",
         {"connected", "listening", "writing", "deleted"} \cap t.flags = {}, t.cbs = {},
         Sane(t) => t.open,
         NEW u, SocketOf(u, t), u.open = t.open, u.socket_accept = t.socket_accept,
         ~Reactor => u = t,
         Reactor /\ t.open => u.kernel = u.reactor_events,
         Reactor /\ ~t.open => u.kernel = {},
         Reactor /\ t.open /\ ~CtlFails =>
           /\ "read" \in u.kernel
           /\ "write" \in u.kernel => "write" \in t.reactor_events,
         NEW w \in Tcps, w.mem = u.mem, w.open = u.open, w.flags = u.flags \cup {"connected"},
         w.cbs = u.cbs, w.reactor_events = u.reactor_events, w.kernel = u.kernel,
         w.timeout_read = u.timeout_read, w.timeout_write = u.timeout_write,
         w.socket_accept = u.socket_accept
  PROVE  Spelled(w, q, f)
<1>1. /\ u.mem = t.mem /\ u.flags = t.flags /\ u.cbs = t.cbs
      /\ u.timeout_read = t.timeout_read /\ u.timeout_write = t.timeout_write
  BY Zenon DEF SocketOf
<1>2. /\ AccountedSpelled(t, q) /\ CallbacksSpelled(t) /\ SocketSpelled(t, q, f)
      /\ PollSpelled(t, q)
  BY Zenon DEF Spelled
<1>3. /\ "connected" \notin t.flags /\ "listening" \notin t.flags
      /\ "writing" \notin t.flags /\ "deleted" \notin t.flags
  BY Zenon
<1>4. AccountedSpelled(w, q)
  BY <1>1, <1>2, <1>3, Zenon DEF AccountedSpelled
<1>5. CallbacksSpelled(w)
  BY <1>1, <1>2, <1>3, Zenon DEF CallbacksSpelled, Kept
<1>6. SocketSpelled(w, q, f)
  BY <1>1, <1>2, <1>3, Zenon DEF SocketSpelled, Sane, Kept
<1>7. PollSpelled(w, q)
  BY <1>1, <1>2, <1>3, Zenon DEF PollSpelled, Sane, Kept
<1> QED BY <1>4, <1>5, <1>6, <1>7, Zenon DEF Spelled

LEMMA ConnectDoneIs ==
  ASSUME TcpInv, NEW e \in Events, ConnectDone(e)
  PROVE  /\ Dispatch(e, "write") /\ "writing" \in ev[e].flags
         /\ \E w \in Tcps :
              /\ w.mem = ev[e].mem /\ w.cbs = ev[e].cbs \ {"connect"}
              /\ "deleted" \in w.flags <=> "deleted" \in ev[e].flags
              /\ Spelled(w, Queued(e) \ {"write"}, Faked(e))
              /\ ev' = [ev EXCEPT ![e] = w]
<1> DEFINE t == ev[e]
           q == Queued(e) \ {"write"}
           f == Faked(e)
<1>1. /\ Dispatch(e, "write") /\ "connected" \notin t.flags /\ "listening" \notin t.flags
      /\ "write" \in Directions
  BY DEF ConnectDone, Directions
<1>2. PICK u \in Noted(t) :
        LET v == IF "writing" \in u.flags THEN EndWrite(u, "connect") ELSE u IN
        \/ ev' = [ev EXCEPT ![e] = v]
        \/ /\ {"writing", "deleted"} \cap u.flags = {"writing"}
           /\ "connect" \in u.cbs
           /\ \E x \in AfterRegister(v, v.reactor_events \cup {"read"}) :
                ev' = [ev EXCEPT ![e] = [x EXCEPT !.flags = @ \cup {"connected"}]]
  BY ZenonT(30) DEF ConnectDone
<1>3. NotedOf(u, t, "write")
  BY <1>1, <1>2, NotedIs, Zenon
<1>4. /\ "write" \in Queued(e) /\ "write" \notin Faked(e) /\ lpc # "gone"
      /\ "writing" \in t.flags /\ t.mem = "live"
  BY <1>1, DispatchIs, Zenon DEF Flag
<1>5. t \in Tcps /\ Spelled(t, Queued(e), Faked(e)) /\ backend \in Backends
  BY TcpIs, Zenon
<1>6. CallbacksSpelled(t) /\ SocketSpelled(t, Queued(e), Faked(e))
  BY <1>5, Zenon DEF Spelled
<1> HIDE DEF t
<1> DEFINE v == EndWrite(u, "connect")
<1>7. /\ u \in Tcps /\ "writing" \in u.flags /\ u.mem = t.mem /\ u.cbs = t.cbs
      /\ u.open = t.open
      /\ u.flags = t.flags \/ u.flags = t.flags \cup {"error"}
      /\ Reactor /\ t.open => u.kernel = u.reactor_events
      /\ Reactor /\ ~t.open => u.kernel = {}
      /\ Reactor /\ t.open /\ ~CtlFails => "write" \notin u.reactor_events
  BY <1>3, <1>4, Zenon DEF NotedOf
<1>8. /\ v \in Tcps /\ v.mem = u.mem /\ v.open = u.open /\ v.flags = u.flags \ {"writing"}
      /\ v.cbs = u.cbs \ {"connect"} /\ v.reactor_events = u.reactor_events
      /\ v.kernel = u.kernel /\ v.timeout_read = u.timeout_read
      /\ v.timeout_write = "none" /\ v.socket_accept = u.socket_accept
  BY <1>7, EndWriteIs, SMTT(30)
<1>9. \/ ev' = [ev EXCEPT ![e] = v]
      \/ /\ "deleted" \notin u.flags
         /\ \E x \in AfterRegister(v, v.reactor_events \cup {"read"}) :
              ev' = [ev EXCEPT ![e] = [x EXCEPT !.flags = @ \cup {"connected"}]]
  <2>1. (IF "writing" \in u.flags THEN EndWrite(u, "connect") ELSE u) = v
    BY <1>7, Zenon
  <2>2. {"writing", "deleted"} \cap u.flags = {"writing"} => "deleted" \notin u.flags
    OBVIOUS
  <2> HIDE DEF v
  <2> QED BY <1>2, <2>1, <2>2, ZenonT(30)
<1> HIDE DEF v
<1>10. Spelled(v, q, f)
  BY <1>1, <1>3, <1>4, <1>5, <1>8, WriteOverSound, ZenonT(30)
<1>11. /\ v.mem = t.mem /\ v.cbs = t.cbs \ {"connect"}
       /\ "deleted" \in v.flags <=> "deleted" \in t.flags
  BY <1>7, <1>8, Zenon
<1>12. CASE ev' = [ev EXCEPT ![e] = v]
  BY <1>1, <1>4, <1>8, <1>10, <1>11, <1>12, ZenonT(30) DEF t
<1>13. ASSUME "deleted" \notin u.flags, NEW x \in AfterRegister(v, v.reactor_events \cup {"read"}),
              ev' = [ev EXCEPT ![e] = [x EXCEPT !.flags = @ \cup {"connected"}]]
       PROVE  \E w \in Tcps :
                /\ w.mem = t.mem /\ w.cbs = t.cbs \ {"connect"}
                /\ "deleted" \in w.flags <=> "deleted" \in t.flags
                /\ Spelled(w, q, f)
                /\ ev' = [ev EXCEPT ![e] = w]
  <2> DEFINE r == v.reactor_events \cup {"read"}
             w == [x EXCEPT !.flags = @ \cup {"connected"}]
  <2>1. r \in SUBSET Directions
    BY <1>8, Zenon DEF Tcps, Directions
  <2>2. /\ Reactor /\ v.open => v.kernel = v.reactor_events
        /\ Reactor /\ ~v.open => v.kernel = {}
    BY <1>7, <1>8
  <2>3. x \in AfterRegister(v, r)
    BY <1>13, Zenon
  <2> HIDE DEF r
  <2>4. /\ SocketOf(x, v) /\ x.open = v.open /\ x.socket_accept = v.socket_accept
        /\ ~Reactor => x = v
        /\ Reactor /\ v.open => x.kernel = x.reactor_events
        /\ Reactor /\ ~v.open => x.kernel = {}
        /\ Reactor /\ v.open /\ ~CtlFails => x.reactor_events = r
    <3>1. v \in Tcps /\ backend \in Backends
      BY <1>5, <1>8, Zenon
    <3> QED BY <2>1, <2>2, <2>3, <3>1, AfterRegisterIs, SMTT(30)
  <2>5. /\ x \in Tcps /\ x.flags = v.flags /\ x.cbs = v.cbs /\ x.mem = v.mem
        /\ x.flags \cup {"connected"} \in SUBSET Flags
    BY <2>4, Zenon DEF SocketOf, Tcps, Flags
  <2>6. /\ w \in Tcps /\ w.mem = x.mem /\ w.open = x.open
        /\ w.flags = x.flags \cup {"connected"}
        /\ w.cbs = x.cbs /\ w.reactor_events = x.reactor_events /\ w.kernel = x.kernel
        /\ w.timeout_read = x.timeout_read /\ w.timeout_write = x.timeout_write
        /\ w.socket_accept = x.socket_accept
    BY <2>5 DEF Tcps
  <2>7. ev' = [ev EXCEPT ![e] = w]
    BY <1>13, Zenon
  <2> HIDE DEF w
  <2>8. /\ v.mem = "live" /\ {"connected", "listening", "writing", "deleted"} \cap v.flags = {}
        /\ Sane(v) => v.open
    <3>1. /\ "connected" \notin v.flags /\ "listening" \notin v.flags
          /\ "writing" \notin v.flags /\ "deleted" \notin v.flags
      BY <1>1, <1>7, <1>8, <1>13, Zenon
    <3>2. Sane(v) => v.open
      BY <1>4, <1>6, <1>7, <1>8, Zenon DEF SocketSpelled, Sane, Kept
    <3> QED BY <1>4, <1>7, <1>8, <3>1, <3>2, Zenon
  <2>9. v.cbs = {}
    <3>1. v.cbs \in SUBSET Operations
      BY <1>8, Zenon DEF Tcps
    <3>2. \A op \in Operations : op = "read" \/ op = "accept" \/ op = "write" \/ op = "connect"
      BY Zenon DEF Operations, Inbound, Outbound
    <3>3. "read" \notin t.cbs /\ "accept" \notin t.cbs /\ "write" \notin t.cbs
      BY <1>1, <1>4, <1>6, Zenon DEF CallbacksSpelled
    <3> QED BY <1>7, <1>8, <3>1, <3>2, <3>3, SMTT(30)
  <2>10. Reactor /\ v.open /\ ~CtlFails =>
           /\ "read" \in x.kernel
           /\ "write" \in x.kernel => "write" \in v.reactor_events
    BY <2>4, SMTT(30) DEF r
  <2>11. Spelled(w, q, f)
    BY <1>8, <1>10, <2>4, <2>6, <2>8, <2>9, <2>10, ConnectedSound, Zenon
  <2>12. /\ w.mem = t.mem /\ w.cbs = t.cbs \ {"connect"}
         /\ "deleted" \in w.flags <=> "deleted" \in t.flags
    BY <1>11, <2>5, <2>6, SMTT(30)
  <2> QED BY <2>6, <2>7, <2>11, <2>12, ZenonT(30)
<1> QED BY <1>1, <1>4, <1>9, <1>12, <1>13, Zenon DEF t

LEMMA ConnectDoneInv ==
  ASSUME TcpInv, NEW e \in Events, ConnectDone(e)
  PROVE  TcpInv'
<1>1. Dispatch(e, "write") /\ "write" \in Directions
  BY ConnectDoneIs, Zenon DEF Directions
<1>2. PICK w \in Tcps :
        Spelled(w, Queued(e) \ {"write"}, Faked(e)) /\ ev' = [ev EXCEPT ![e] = w]
  BY ConnectDoneIs, Zenon
<1> QED BY <1>1, <1>2, DoneKeeps, Zenon

=============================================================================

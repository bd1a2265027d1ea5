------------------------------ MODULE UdpProofs ------------------------------
(***************************************************************************)
(* The safety of nanoev_udp.c for any number of events, on the three       *)
(* builds and for any choice of the sockets to which datagrams come        *)
(* unasked.  A ctx_read that reactor_cb() returns for one of those may     *)
(* stand for no operation, as the run udp_unsolicited shows; the proofs    *)
(* account for the others, and show that it does no harm to them.          *)
(***************************************************************************)
EXTENDS Udp, SocketsProofs

Flags == {"reading", "writing", "error", "deleted", "connected", "listening"}
Udps ==
  [mem : {"none", "live", "freed"}, open : BOOLEAN, flags : SUBSET Flags,
   cbs : SUBSET Directions, reactor_events : SUBSET Directions, kernel : SUBSET Directions]

\* The directions for which a context of e is on its way that is expected
Due(e) == {dir \in Queued(e) : Reactor /\ dir = "read" => e \notin Unsolicited}

Kept(u) == u.mem = "live" /\ "deleted" \notin u.flags

\* What holds of the structure u of an event with expected contexts on their way
\* for the directions queued: a callback is set when its flag is; the kernel polls an open
\* socket for reactor_events, for output only while a write is pending, and for
\* input unless the registration failed.
UdpSound(u, queued) ==
  /\ u \in Udps
  /\ Accounted(u, queued)
  /\ u.mem = "none" => u.cbs = {} /\ "deleted" \notin u.flags
  /\ u.mem = "live" => \A dir \in Directions : dir \in u.cbs <=> Flag(dir) \in u.flags
  /\ "deleted" \in u.flags => ~u.open
  /\ Kept(u) /\ ~u.open =>
       u.flags \cap {"reading", "writing"} = {} /\ u.reactor_events = {} /\ u.kernel = {}
  /\ Reactor /\ u.open => u.kernel = u.reactor_events
  /\ Reactor /\ "write" \in u.kernel => "writing" \in u.flags
  /\ Reactor /\ Kept(u) /\ u.open =>
       "read" \in u.kernel \/ ("error" \in u.flags /\ "reading" \notin u.flags)
  /\ Kept(u) => \A dir \in Directions :
       Flag(dir) \in u.flags => dir \in u.kernel \/ dir \in queued

\* The inductive invariant.
UdpInv ==
  /\ QueuesSound
  /\ ev \in [Events -> Udps]
  /\ \A e \in Events : UdpSound(ev[e], Due(e))

\* The same, spelled out for the two directions.
Spelled(u, queued) ==
  /\ "read" \in queued => "reading" \in u.flags
  /\ "write" \in queued => "writing" \in u.flags
  /\ "reading" \in u.flags \/ "writing" \in u.flags => u.mem = "live"
  /\ ~Reactor /\ lpc # "gone" =>
       /\ "read" \in u.kernel => "reading" \in u.flags /\ "read" \notin queued
       /\ "write" \in u.kernel => "writing" \in u.flags /\ "write" \notin queued
  /\ Reactor /\ ~u.open => "read" \notin u.kernel /\ "write" \notin u.kernel
  /\ u.mem # "live" => ~u.open
  /\ u.mem = "none" => "read" \notin u.cbs /\ "write" \notin u.cbs /\ "deleted" \notin u.flags
  /\ u.mem = "live" => ("read" \in u.cbs <=> "reading" \in u.flags)
  /\ u.mem = "live" => ("write" \in u.cbs <=> "writing" \in u.flags)
  /\ "deleted" \in u.flags => ~u.open
  /\ Kept(u) /\ ~u.open =>
       /\ "reading" \notin u.flags /\ "writing" \notin u.flags
       /\ "read" \notin u.kernel /\ "write" \notin u.kernel
       /\ "read" \notin u.reactor_events /\ "write" \notin u.reactor_events
  /\ Reactor /\ u.open =>
       /\ "read" \in u.kernel <=> "read" \in u.reactor_events
       /\ "write" \in u.kernel <=> "write" \in u.reactor_events
  /\ Reactor /\ "write" \in u.kernel => "writing" \in u.flags
  /\ Reactor /\ Kept(u) /\ u.open =>
       "read" \in u.kernel \/ ("error" \in u.flags /\ "reading" \notin u.flags)
  /\ Kept(u) /\ "reading" \in u.flags => "read" \in u.kernel \/ "read" \in queued
  /\ Kept(u) /\ "writing" \in u.flags => "write" \in u.kernel \/ "write" \in queued

LEMMA SpelledOut ==
  ASSUME NEW u, NEW queued \in SUBSET Directions
  PROVE  UdpSound(u, queued) <=> u \in Udps /\ Spelled(u, queued)
<1>1. ASSUME UdpSound(u, queued) PROVE u \in Udps /\ Spelled(u, queued)
  BY <1>1 DEF UdpSound, Accounted, Spelled, Flag, Directions
<1>2. ASSUME u \in Udps, Spelled(u, queued) PROVE UdpSound(u, queued)
  <2>1. \A dir \in Directions : dir = "read" \/ dir = "write"
    BY DEF Directions
  <2>2. \A S \in SUBSET Directions : "read" \notin S /\ "write" \notin S => S = {}
    BY <2>1
  <2>3. \A S, T \in SUBSET Directions :
          ("read" \in S <=> "read" \in T) /\ ("write" \in S <=> "write" \in T) => S = T
    BY <2>1
  <2>4. /\ u.kernel \in SUBSET Directions /\ u.reactor_events \in SUBSET Directions
        /\ u.cbs \in SUBSET Directions
    BY <1>2 DEF Udps
  <2>5. Flag("read") = "reading" /\ Flag("write") = "writing"
    BY DEF Flag
  <2>6. Accounted(u, queued)
    BY <1>2, <2>1, <2>2, <2>4, <2>5 DEF Spelled, Accounted
  <2> QED BY <1>2, <2>1, <2>2, <2>3, <2>4, <2>5, <2>6 DEF Spelled, UdpSound
<1> QED BY <1>1, <1>2

-----------------------------------------------------------------------------
(* The contexts that are expected.                                          *)

\* On Windows, and of writes, every context is expected.
LEMMA DueIs ==
  ASSUME NEW e
  PROVE  /\ Due(e) \in SUBSET Directions /\ Due(e) \subseteq Queued(e)
         /\ \A dir : dir = "write" \/ ~Reactor => (dir \in Due(e) <=> dir \in Queued(e))
BY DEF Due, Queued

LEMMA DueStays ==
  ASSUME backend' = backend, \A e \in Events : Queued(e)' = Queued(e)
  PROVE  \A e \in Events : Due(e)' = Due(e)
BY DEF Due, Reactor

LEMMA DueGrows ==
  ASSUME backend' = backend, NEW e \in Events, NEW dir, dir = "write" \/ ~Reactor,
         \A x \in Events : Queued(x)' = IF x = e THEN Queued(x) \cup {dir} ELSE Queued(x)
  PROVE  \A x \in Events : Due(x)' = IF x = e THEN Due(x) \cup {dir} ELSE Due(x)
BY DEF Due, Reactor

LEMMA DueShrinks ==
  ASSUME backend' = backend, NEW e \in Events, NEW dir,
         \A x \in Events : Queued(x)' = IF x = e THEN Queued(x) \ {dir} ELSE Queued(x)
  PROVE  \A x \in Events : Due(x)' = IF x = e THEN Due(x) \ {dir} ELSE Due(x)
BY DEF Due, Reactor

-----------------------------------------------------------------------------
(* Steps that change the structure of one event.                            *)

\* Whether a structure is sound depends on the build and on whether the loop is
\* gone.
LEMMA SoundDepends ==
  ASSUME backend' = backend, lpc' = "gone" <=> lpc = "gone"
  PROVE  \A u, queued : UdpSound(u, queued)' <=> UdpSound(u, queued)
BY DEF UdpSound, Accounted, Reactor

\* The step changes the structure of e to u, and the contexts of no other event.
LEMMA OneEvent ==
  ASSUME UdpInv, QueuesSound', backend' = backend, lpc' = "gone" <=> lpc = "gone",
         NEW e \in Events, NEW u, ev' = [ev EXCEPT ![e] = u],
         UdpSound(u, Due(e)'),
         \A x \in Events : x # e => Due(x)' = Due(x)
  PROVE  UdpInv'
<1>1. u \in Udps
  BY DEF UdpSound
<1>2. ev' \in [Events -> Udps]
  BY <1>1 DEF UdpInv
<1>3. ASSUME NEW x \in Events PROVE UdpSound(ev[x], Due(x))'
  <2>1. UdpSound(ev'[x], Due(x)')
    <3>1. CASE x = e
      <4>1. ev'[x] = u
        BY <3>1 DEF UdpInv
      <4> QED BY <3>1, <4>1
    <3>2. CASE x # e
      <4>1. ev'[x] = ev[x] /\ Due(x)' = Due(x)
        BY <3>2 DEF UdpInv
      <4>2. UdpSound(ev[x], Due(x))
        BY DEF UdpInv
      <4> QED BY <4>1, <4>2
    <3> QED BY <3>1, <3>2
  <2> QED BY <2>1, SoundDepends
<1> QED BY <1>2, <1>3 DEF UdpInv

\* A step that changes no structure, and removes no context.
LEMMA SameEvents ==
  ASSUME UdpInv, QueuesSound', UNCHANGED <<ev, backend>>, lpc' = "gone" <=> lpc = "gone",
         \A e \in Events : Due(e)' = Due(e)
  PROVE  UdpInv'
<1>1. ASSUME NEW e \in Events PROVE UdpSound(ev[e], Due(e))'
  <2>1. UdpSound(ev[e], Due(e))
    BY DEF UdpInv
  <2>2. UdpSound(ev'[e], Due(e)')
    BY <2>1
  <2> QED BY <2>2, SoundDepends
<1> QED BY <1>1 DEF UdpInv

\* A call of the application that queues nothing.
LEMMA CallKeeps ==
  ASSUME UdpInv, NEW e \in Events, NEW u, Call(e, u), UdpSound(u, Due(e))
  PROVE  UdpInv'
<1>1. /\ lpc \in {"user", "timers", "dispatch"} /\ ev' = [ev EXCEPT ![e] = u]
      /\ UNCHANGED <<fake, batch, lpc, backend>>
  BY DEF Call, UserCode
<1>2. QueuesSound' /\ \A x \in Events : Queued(x)' = Queued(x)
  BY <1>1, QueuesStay DEF UdpInv, QueuesSound
<1>3. \A x \in Events : Due(x)' = Due(x)
  BY <1>1, <1>2, DueStays
<1> QED BY <1>1, <1>2, <1>3, OneEvent, Zenon

\* A call of the application that succeeds at once.
LEMMA CallDoneKeeps ==
  ASSUME UdpInv, NEW e \in Events, NEW u, NEW dir \in Directions, CallDone(e, u, dir),
         dir = "write" \/ ~Reactor, Flag(dir) \notin ev[e].flags, UdpSound(u, Due(e) \cup {dir})
  PROVE  UdpInv'
<1> DEFINE c == [event |-> e, dir |-> dir, ok |-> TRUE]
<1>1. /\ lpc \in {"user", "timers", "dispatch"} /\ ev' = [ev EXCEPT ![e] = u]
      /\ fake' = Append(fake, c) /\ UNCHANGED <<batch, lpc, backend>>
  BY DEF CallDone, UserCode
<1>2. c \in Context /\ c.event = e /\ c.dir = dir
  BY DEF Context
<1>3. dir \notin Queued(e)
  BY DueIs DEF UdpInv, UdpSound, Accounted
<1> HIDE DEF c
<1>4. /\ QueuesSound'
      /\ \A x \in Events : Queued(x)' = IF x = e THEN Queued(x) \cup {dir} ELSE Queued(x)
  BY <1>1, <1>2, <1>3, QueuesGrow DEF UdpInv
<1>5. \A x \in Events : Due(x)' = IF x = e THEN Due(x) \cup {dir} ELSE Due(x)
  BY <1>1, <1>4, DueGrows, Zenon
<1> QED BY <1>1, <1>4, <1>5, OneEvent, Zenon

-----------------------------------------------------------------------------
(* The application.                                                         *)

\* The structure has a socket afterwards, which is polled for input.
LEMMA WithSocketSound ==
  ASSUME NEW u, NEW queued \in SUBSET Directions, UdpSound(u, queued), Kept(u)
  PROVE  LET w == WithSocket(u) IN
         /\ UdpSound(w, queued)
         /\ w.open /\ w.mem = "live" /\ w.flags = u.flags /\ w.cbs = u.cbs
<1> DEFINE w == WithSocket(u)
<1>1. u \in Udps
  BY DEF UdpSound
<1>2. CASE u.open
  BY <1>2 DEF WithSocket, Kept
<1>3. CASE ~u.open
  <2>1. u.reactor_events = {} /\ u.kernel = {} /\ u.flags \cap {"reading", "writing"} = {}
    BY <1>3 DEF UdpSound
  <2> DEFINE k == IF Reactor THEN {"read"} ELSE {}
  <2>2. w = [u EXCEPT !.open = TRUE, !.reactor_events = {"read"}, !.kernel = k]
    BY <1>1, <1>3, <2>1, Zenon DEF WithSocket, Registered, Reactor, Udps
  <2>6. {"read"} \in SUBSET Directions /\ k \in SUBSET Directions
    BY DEF Directions
  <2> HIDE DEF k
  <2>3. /\ w \in Udps
        /\ w.open /\ w.mem = u.mem /\ w.flags = u.flags /\ w.cbs = u.cbs
        /\ w.reactor_events = {"read"} /\ w.kernel = k
    BY <1>1, <2>2, <2>6, Zenon DEF Udps
  <2>4. Spelled(u, queued)
    BY SpelledOut
  <2> HIDE DEF w
  <2>5. Spelled(w, queued)
    BY <2>1, <2>3, <2>4 DEF Spelled, Kept, k
  <2>7. UdpSound(w, queued)
    BY <2>3, <2>5, SpelledOut
  <2> QED BY <2>3, <2>7 DEF Kept, w
<1> QED BY <1>2, <1>3

\* udp_new()
LEMMA NewInv ==
  ASSUME UdpInv, NEW e \in Events, New(e)
  PROVE  UdpInv'
<1> DEFINE u == [Proactor EXCEPT !.mem = "live"]
<1>1. /\ u \in Udps /\ u.mem = "live" /\ ~u.open /\ u.flags = {} /\ u.cbs = {}
      /\ u.reactor_events = {} /\ u.kernel = {}
  BY Zenon DEF Proactor, Udps, Flags, Directions
<1>2. Due(e) = {}
  BY DueIs DEF New, UdpInv, UdpSound, Accounted, Flag, Directions
<1>3. Call(e, u)
  BY DEF New
<1> HIDE DEF u
<1>4. UdpSound(u, Due(e))
  BY <1>1, <1>2 DEF UdpSound, Accounted, Kept
<1> QED BY <1>3, <1>4, CallKeeps

\* What Clear() gives the operations.
LEMMA ClearIs ==
  ASSUME UdpInv, NEW e \in Events, NEW flags, Clear(e, flags)
  PROVE  /\ UdpSound(ev[e], Due(e)) /\ Kept(ev[e]) /\ ev[e] \in Udps
         /\ Due(e) \in SUBSET Directions /\ ev[e].flags \cap flags = {}
BY DueIs DEF UdpInv, Clear, Usable, Kept

\* nanoev_udp_bind()
LEMMA BindInv ==
  ASSUME UdpInv, NEW e \in Events, Bind(e)
  PROVE  UdpInv'
BY ClearIs, WithSocketSound, CallKeeps DEF Bind

\* nanoev_udp_connect()
LEMMA ConnectInv ==
  ASSUME UdpInv, NEW e \in Events, Connect(e)
  PROVE  UdpInv'
<1> DEFINE w == WithSocket(ev[e])
           u == [w EXCEPT !.flags = @ \cup {"connected"}]
<1>1. UdpSound(w, Due(e))
  BY ClearIs, WithSocketSound DEF Connect
<1>2. Call(e, u)
  BY DEF Connect
<1> HIDE DEF w
<1>3. /\ u \in Udps /\ w \in Udps /\ u.open = w.open /\ u.mem = w.mem /\ u.cbs = w.cbs
      /\ u.flags = w.flags \cup {"connected"}
      /\ u.reactor_events = w.reactor_events /\ u.kernel = w.kernel
  BY <1>1 DEF UdpSound, Udps, Flags
<1> HIDE DEF u
<1>4. UdpSound(u, Due(e))
  BY <1>1, <1>3 DEF UdpSound, Accounted, Kept, Flag
<1> QED BY <1>2, <1>4, CallKeeps

\* The operation that starts is pending; what completes it is on its way, or the
\* kernel knows of it.
LEMMA StartSound ==
  ASSUME NEW u, NEW queued \in SUBSET Directions, UdpSound(u, queued), Kept(u), u.open,
         NEW dir \in Directions, Flag(dir) \notin u.flags, "error" \notin u.flags
  PROVE  UdpSound(Start(u, dir), queued \cup {dir})
<1> DEFINE w == Start(u, dir)
<1>1. /\ w \in Udps /\ u \in Udps /\ w.open = u.open /\ w.mem = u.mem
      /\ w.flags = u.flags \cup {Flag(dir)} /\ w.cbs = u.cbs \cup {dir}
      /\ w.reactor_events = u.reactor_events /\ w.kernel = u.kernel
  BY Zenon DEF UdpSound, Start, Udps, Flags, Flag
<1> HIDE DEF w
<1>2. Spelled(u, queued)
  BY SpelledOut
<1>3. Spelled(w, queued \cup {dir})
  <2>1. CASE dir = "read"
    BY <1>1, <1>2, <2>1 DEF Spelled, Kept, Flag
  <2>2. CASE dir = "write"
    BY <1>1, <1>2, <2>2 DEF Spelled, Kept, Flag
  <2> QED BY <2>1, <2>2 DEF Directions
<1>4. UdpSound(w, queued \cup {dir})
  BY <1>1, <1>3, SpelledOut
<1> QED BY <1>4 DEF w

\* The operation waits: the kernel has it, or polls the socket for it.
LEMMA WaitSound ==
  ASSUME NEW u, NEW queued \in SUBSET Directions, UdpSound(u, queued), Kept(u), u.open,
         NEW dir \in Directions, Flag(dir) \notin u.flags, "error" \notin u.flags,
         backend \in Backends
  PROVE  UdpSound(Start(Waiting(u, dir), dir), queued)
<1> DEFINE w == Waiting(u, dir)
           v == Start(w, dir)
<1>1. u \in Udps /\ Spelled(u, queued)
  BY SpelledOut
<1>2. dir = "read" \/ dir = "write"
  BY DEF Directions
<1>3. /\ w \in Udps /\ w.open = u.open /\ w.mem = u.mem /\ w.flags = u.flags /\ w.cbs = u.cbs
      /\ ~Reactor => w.kernel = u.kernel \cup {dir}
      /\ Reactor /\ dir = "read" => w = u
      /\ Reactor /\ dir = "write" => /\ w.reactor_events = u.reactor_events \cup {"write"}
                                     /\ w.kernel = u.kernel \cup {"write"}
  <2>1. CASE ~Reactor
    <3>1. w = [u EXCEPT !.kernel = u.kernel \cup {dir}]
      BY <1>1, <2>1 DEF Waiting, Udps
    <3> QED BY <1>1, <2>1, <3>1, ZenonT(30) DEF Udps
  <2>2. CASE Reactor /\ dir = "read"
    BY <1>1, <2>2, Zenon DEF Waiting
  <2>3. CASE Reactor /\ dir = "write"
    <3> DEFINE r == u.reactor_events \cup {"write"}
    <3>1. "write" \notin u.kernel /\ u.kernel = u.reactor_events
      BY <2>3 DEF UdpSound, Flag
    <3>2. w = [u EXCEPT !.reactor_events = r, !.kernel = r]
      <4>1. /\ u.reactor_events # r
            /\ backend = "epoll" \/ backend = "kqueue"
            /\ (u.kernel \cup (r \ u.reactor_events)) \ (u.reactor_events \ r) = r
        BY <2>3, <3>1, BackendsAssumption DEF Reactor
      <4> QED BY <1>1, <2>3, <4>1, Zenon DEF Waiting, Registered, Udps
    <3>3. r \in SUBSET Directions
      BY <1>1 DEF Udps, Directions
    <3> HIDE DEF r
    <3>4. /\ w \in Udps /\ w.open = u.open /\ w.mem = u.mem /\ w.flags = u.flags
          /\ w.cbs = u.cbs /\ w.reactor_events = r /\ w.kernel = r
      BY <1>1, <3>2, <3>3, Zenon DEF Udps
    <3> QED BY <2>3, <3>1, <3>4, Zenon DEF r
  <2> QED BY <1>2, <2>1, <2>2, <2>3, Zenon
<1> HIDE DEF w
<1>4. /\ v \in Udps /\ v.open = w.open /\ v.mem = w.mem
      /\ v.flags = w.flags \cup {Flag(dir)} /\ v.cbs = w.cbs \cup {dir}
      /\ v.reactor_events = w.reactor_events /\ v.kernel = w.kernel
  BY <1>3, Zenon DEF Start, Udps, Flags, Flag
<1> HIDE DEF v
<1>5. Spelled(v, queued)
  <2>1. CASE dir = "read"
    BY <1>1, <1>3, <1>4, <2>1 DEF Spelled, Kept, Flag
  <2>2. CASE dir = "write"
    BY <1>1, <1>3, <1>4, <2>2 DEF Spelled, Kept, Flag
  <2> QED BY <1>2, <2>1, <2>2
<1>6. UdpSound(v, queued)
  BY <1>4, <1>5, SpelledOut
<1> QED BY <1>6 DEF v, w

\* nanoev_udp_read()
LEMMA ReadNowInv ==
  ASSUME UdpInv, NEW e \in Events, ReadNow(e)
  PROVE  UdpInv'
<1>1. Flag("read") = "reading" /\ "read" \in Directions
  BY DEF Flag, Directions
<1>2. Clear(e, {"error", "reading"}) /\ ev[e].open
  BY DEF ReadNow
<1>3. UdpSound(Start(ev[e], "read"), Due(e) \cup {"read"})
  BY <1>1, <1>2, ClearIs, StartSound
<1>4. "reading" \notin ev[e].flags
  BY <1>2, ClearIs
<1>5. ~Reactor /\ CallDone(e, Start(ev[e], "read"), "read")
  BY DEF ReadNow
<1> QED BY <1>1, <1>3, <1>4, <1>5, CallDoneKeeps

LEMMA ReadInv ==
  ASSUME UdpInv, NEW e \in Events, Read(e)
  PROVE  UdpInv'
<1>1. Flag("read") = "reading" /\ "read" \in Directions
  BY DEF Flag, Directions
<1>2. Clear(e, {"error", "reading"}) /\ ev[e].open
  BY DEF Read
<1>3. UdpSound(Start(Waiting(ev[e], "read"), "read"), Due(e))
  BY <1>1, <1>2, ClearIs, WaitSound DEF UdpInv, QueuesSound
<1> QED BY <1>3, CallKeeps DEF Read

\* nanoev_udp_write()
LEMMA WriteNowInv ==
  ASSUME UdpInv, NEW e \in Events, WriteNow(e)
  PROVE  UdpInv'
<1> DEFINE w == WithSocket(ev[e])
<1>1. Flag("write") = "writing" /\ "write" \in Directions
  BY DEF Flag, Directions
<1>2. Clear(e, {"error", "writing"})
  BY DEF WriteNow
<1>3. /\ UdpSound(w, Due(e)) /\ w.open /\ Kept(w) /\ w.flags = ev[e].flags
      /\ "writing" \notin ev[e].flags /\ "error" \notin ev[e].flags
      /\ Due(e) \in SUBSET Directions
  BY <1>2, ClearIs, WithSocketSound DEF Kept
<1>4. CallDone(e, Start(w, "write"), "write")
  BY DEF WriteNow
<1> HIDE DEF w
<1>5. UdpSound(Start(w, "write"), Due(e) \cup {"write"})
  BY <1>1, <1>3, StartSound
<1> QED BY <1>1, <1>3, <1>4, <1>5, CallDoneKeeps

LEMMA WriteInv ==
  ASSUME UdpInv, NEW e \in Events, Write(e)
  PROVE  UdpInv'
<1> DEFINE w == WithSocket(ev[e])
<1>1. Flag("write") = "writing" /\ "write" \in Directions /\ backend \in Backends
  BY DEF Flag, Directions, UdpInv, QueuesSound
<1>2. Clear(e, {"error", "writing"})
  BY DEF Write
<1>3. /\ UdpSound(w, Due(e)) /\ w.open /\ Kept(w) /\ w.flags = ev[e].flags
      /\ "writing" \notin ev[e].flags /\ "error" \notin ev[e].flags
      /\ Due(e) \in SUBSET Directions
  BY <1>2, ClearIs, WithSocketSound DEF Kept
<1>4. Call(e, Start(Waiting(w, "write"), "write"))
  BY DEF Write
<1> HIDE DEF w
<1>5. UdpSound(Start(Waiting(w, "write"), "write"), Due(e))
  BY <1>1, <1>3, WaitSound
<1> QED BY <1>4, <1>5, CallKeeps

\* A structure in the error state has no other operation started on it.
LEMMA SetErrorSound ==
  ASSUME NEW u, NEW queued \in SUBSET Directions, UdpSound(u, queued)
  PROVE  UdpSound(SetError(u), queued)
<1> DEFINE w == SetError(u)
<1>1. u \in Udps /\ Spelled(u, queued)
  BY SpelledOut
<1>2. /\ w \in Udps /\ w.open = u.open /\ w.mem = u.mem /\ w.cbs = u.cbs
      /\ w.flags = u.flags \cup {"error"}
      /\ w.reactor_events = u.reactor_events /\ w.kernel = u.kernel
  BY <1>1 DEF SetError, Udps, Flags
<1> HIDE DEF w
<1>3. Spelled(w, queued)
  BY <1>1, <1>2 DEF Spelled, Kept
<1>4. UdpSound(w, queued)
  BY <1>2, <1>3, SpelledOut
<1> QED BY <1>4 DEF w

\* A call that fails may leave a socket that is not registered.
LEMMA CallFailsInv ==
  ASSUME UdpInv, NEW e \in Events, CallFails(e)
  PROVE  UdpInv'
<1>1. Clear(e, {"error"})
  BY DEF CallFails
<1>2. /\ UdpSound(ev[e], Due(e)) /\ Kept(ev[e]) /\ ev[e] \in Udps
      /\ Due(e) \in SUBSET Directions
  BY <1>1, ClearIs
<1>3. UdpSound(SetError(ev[e]), Due(e))
  BY <1>2, SetErrorSound
<1>4. UdpSound(SetError(WithSocket(ev[e])), Due(e))
  BY <1>2, SetErrorSound, WithSocketSound
<1>5. UdpSound(SetError([ev[e] EXCEPT !.open = TRUE]), Due(e))
  <2> DEFINE u == ev[e]
             w == SetError([u EXCEPT !.open = TRUE])
  <2>1. u \in Udps /\ Spelled(u, Due(e))
    BY <1>2, SpelledOut
  <2>2. /\ w \in Udps /\ w.open /\ w.mem = u.mem /\ w.cbs = u.cbs
        /\ w.flags = u.flags \cup {"error"}
        /\ w.reactor_events = u.reactor_events /\ w.kernel = u.kernel
    BY <1>2, Zenon DEF SetError, Udps, Flags
  <2>3. Kept(u)
    BY <1>2
  <2> HIDE DEF w, u
  <2>4. Spelled(w, Due(e))
    BY <2>1, <2>2, <2>3 DEF Spelled, Kept
  <2>5. UdpSound(w, Due(e))
    BY <1>2, <2>2, <2>4, SpelledOut
  <2> QED BY <2>5 DEF u, w
<1>6. \E u \in {ev[e], [ev[e] EXCEPT !.open = TRUE], WithSocket(ev[e])} : Call(e, SetError(u))
  BY Zenon DEF CallFails
<1> QED BY <1>3, <1>4, <1>5, <1>6, CallKeeps, Zenon

\* udp_free() and __process_endgame_proactor() release a structure that nothing
\* points to, and put off the release of another.
LEMMA ReleasedSound ==
  ASSUME NEW u, NEW queued \in SUBSET Directions, UdpSound(u, queued), u.mem = "live",
         lpc # "gone"
  PROVE  UdpSound(Released(u), queued)
<1> DEFINE w == Released(u)
           k == IF Reactor THEN {} ELSE u.kernel
<1>1. u \in Udps /\ Spelled(u, queued)
  BY SpelledOut
<1>2. k \in SUBSET Directions
  BY <1>1 DEF Udps
<1>3. CASE u.flags \cap {"reading", "writing"} # {}
  <2>1. w = [u EXCEPT !.open = FALSE, !.kernel = k, !.flags = @ \cup {"deleted"}]
    BY <1>1, <1>3 DEF Released, CloseSocket, Udps
  <2> HIDE DEF k
  <2>2. /\ w \in Udps /\ ~w.open /\ w.mem = u.mem /\ w.cbs = u.cbs
        /\ w.flags = u.flags \cup {"deleted"}
        /\ w.reactor_events = u.reactor_events /\ w.kernel = k
    <3> DEFINE f == u.flags \cup {"deleted"}
    <3>1. f \in SUBSET Flags
      BY <1>1 DEF Udps, Flags
    <3>2. w = [u EXCEPT !.open = FALSE, !.kernel = k, !.flags = f]
      BY <2>1
    <3> HIDE DEF f
    <3>3. /\ w \in Udps /\ ~w.open /\ w.mem = u.mem /\ w.cbs = u.cbs /\ w.flags = f
          /\ w.reactor_events = u.reactor_events /\ w.kernel = k
      BY <1>1, <1>2, <3>1, <3>2, Zenon DEF Udps
    <3> QED BY <3>3 DEF f
  <2> HIDE DEF w
  <2>3. Spelled(w, queued)
    BY <1>1, <2>2 DEF Spelled, Kept, k
  <2>4. UdpSound(w, queued)
    BY <2>2, <2>3, SpelledOut
  <2> QED BY <2>4 DEF w
<1>4. CASE u.flags \cap {"reading", "writing"} = {}
  <2>1. w = [u EXCEPT !.open = FALSE, !.kernel = k, !.mem = "freed"]
    BY <1>1, <1>4 DEF Released, CloseSocket, Udps
  <2> HIDE DEF k
  <2>2. /\ w \in Udps /\ ~w.open /\ w.mem = "freed" /\ w.cbs = u.cbs /\ w.flags = u.flags
        /\ w.reactor_events = u.reactor_events /\ w.kernel = k
    BY <1>1, <1>2, <2>1, Zenon DEF Udps, Flags
  <2> HIDE DEF w
  <2>3. Spelled(w, queued)
    BY <1>1, <1>4, <2>2 DEF Spelled, Kept, k
  <2>4. UdpSound(w, queued)
    BY <2>2, <2>3, SpelledOut
  <2> QED BY <2>4 DEF w
<1> QED BY <1>3, <1>4

\* nanoev_event_free()
LEMMA FreeInv ==
  ASSUME UdpInv, NEW e \in Events, Free(e)
  PROVE  UdpInv'
<1>1. Due(e) \in SUBSET Directions /\ UdpSound(ev[e], Due(e))
  BY DueIs DEF UdpInv
<1>2. ev[e].mem = "live" /\ Call(e, Released(ev[e])) /\ lpc # "gone"
  BY DEF Free, Usable, Call, UserCode
<1> QED BY <1>1, <1>2, ReleasedSound, CallKeeps

-----------------------------------------------------------------------------
(* udp_proactor_callback()                                                  *)

\* The interest in output ends, where the socket is still registered.
LEMMA SettledIs ==
  ASSUME NEW u, NEW queued \in SUBSET Directions, UdpSound(u, queued), backend \in Backends
  PROVE  LET w == Settled(u) IN
         /\ w \in Udps /\ w.open = u.open /\ w.mem = u.mem /\ w.flags = u.flags /\ w.cbs = u.cbs
         /\ w.kernel = IF Reactor THEN u.kernel \ {"write"} ELSE u.kernel
         /\ w.reactor_events \subseteq u.reactor_events
         /\ Reactor /\ u.open => w.kernel = w.reactor_events
<1> DEFINE r == u.reactor_events \ {"write"}
           w == Settled(u)
<1>1. u \in Udps
  BY DEF UdpSound
<1>2. /\ Reactor /\ u.open => u.kernel = u.reactor_events
      /\ Reactor /\ ~u.open => u.kernel = {}
  BY DEF UdpSound, Accounted
<1>3. CASE Reactor /\ u.open /\ "write" \in u.reactor_events
  <2>1. CanRegister(u, r)
    BY <1>2, <1>3 DEF CanRegister
  <2>2. w = Registered(u, r)
    BY <1>3, <2>1 DEF Settled
  <2>3. w = [u EXCEPT !.reactor_events = r, !.kernel = r]
    <3>1. /\ u.reactor_events # r
          /\ backend = "epoll" \/ backend = "kqueue"
          /\ (u.kernel \cup (r \ u.reactor_events)) \ (u.reactor_events \ r) = r
      BY <1>2, <1>3, BackendsAssumption DEF Reactor
    <3> QED BY <1>1, <2>2, <3>1, Zenon DEF Registered, Udps
  <2>4. r \in SUBSET Directions
    BY <1>1 DEF Udps
  <2>5. r = u.kernel \ {"write"} /\ r \subseteq u.reactor_events
    BY <1>2, <1>3
  <2> HIDE DEF r, w
  <2>6. /\ w \in Udps /\ w.open = u.open /\ w.mem = u.mem /\ w.flags = u.flags
        /\ w.cbs = u.cbs /\ w.reactor_events = r /\ w.kernel = r
    BY <1>1, <2>3, <2>4, Zenon DEF Udps
  <2> QED BY <1>3, <2>5, <2>6 DEF w
<1>4. CASE ~(Reactor /\ u.open /\ "write" \in u.reactor_events)
  <2>1. w = u
    <3>1. CASE ~Reactor
      BY <3>1 DEF Settled
    <3>2. CASE Reactor /\ "write" \notin u.reactor_events
      <4>1. r = u.reactor_events
        BY <3>2
      <4> QED BY <1>1, <3>2, <4>1, Zenon DEF Settled, Registered, Udps
    <3>3. CASE Reactor /\ ~u.open /\ "write" \in u.reactor_events
      <4>1. ~CanRegister(u, r)
        BY <3>3 DEF CanRegister
      <4> QED BY <3>3, <4>1 DEF Settled
    <3> QED BY <1>4, <3>1, <3>2, <3>3
  <2>2. Reactor => u.kernel = u.kernel \ {"write"}
    BY <1>2, <1>4
  <2> QED BY <1>1, <1>2, <2>1, <2>2
<1> QED BY <1>3, <1>4

\* The context of a pending operation is done with: the operation is over.
LEMMA EndSound ==
  ASSUME NEW u, NEW queued \in SUBSET Directions, UdpSound(u, queued),
         NEW dir \in Directions, Reactor \/ dir \in queued,
         NEW w \in Udps, w.open = u.open, w.mem = u.mem, w.flags = u.flags, w.cbs = u.cbs,
         w.kernel = IF Reactor /\ dir = "write" THEN u.kernel \ {"write"} ELSE u.kernel,
         w.reactor_events \subseteq u.reactor_events,
         Reactor /\ u.open => w.kernel = w.reactor_events, lpc # "gone"
  PROVE  UdpSound([w EXCEPT !.flags = @ \ {Flag(dir)}, !.cbs = @ \ {dir}], queued \ {dir})
<1> DEFINE v == [w EXCEPT !.flags = @ \ {Flag(dir)}, !.cbs = @ \ {dir}]
<1>1. u \in Udps /\ Spelled(u, queued)
  BY SpelledOut
<1>2. /\ v \in Udps /\ v.open = w.open /\ v.mem = w.mem /\ v.flags = w.flags \ {Flag(dir)}
      /\ v.cbs = w.cbs \ {dir} /\ v.reactor_events = w.reactor_events /\ v.kernel = w.kernel
  BY Zenon DEF Udps
<1> HIDE DEF v
<1>3. Spelled(v, queued \ {dir})
  <2>1. CASE dir = "read"
    BY <1>1, <1>2, <2>1 DEF Spelled, Kept, Flag
  <2>2. CASE dir = "write"
    BY <1>1, <1>2, <2>2 DEF Spelled, Kept, Flag
  <2> QED BY <2>1, <2>2 DEF Directions
<1>4. UdpSound(v, queued \ {dir})
  BY <1>2, <1>3, SpelledOut
<1> QED BY <1>4 DEF v

\* The context that Done() finds at the head of the batch is that of a pending
\* operation, and the ASSERT holds, if it is an expected one.
LEMMA DoneIs ==
  ASSUME UdpInv, NEW e \in Events, NEW u, NEW dir \in Directions, Done(e, u, dir)
  PROVE  /\ lpc = "dispatch" /\ UNCHANGED <<fake, backend>>
         /\ Reactor \/ dir \in Due(e)
         /\ dir \in Due(e) => Flag(dir) \in ev[e].flags
         /\ Flag(dir) \notin ev[e].flags => lpc' = "aborted" /\ called' = {} /\ UNCHANGED <<ev, batch>>
         /\ Flag(dir) \in ev[e].flags =>
              /\ ev[e].mem = "live" /\ lpc' = lpc /\ called' = CallTo(e, dir)
              /\ ev' = [ev EXCEPT ![e] = [u EXCEPT !.flags = @ \ {Flag(dir)}, !.cbs = @ \ {dir}]]
              /\ QueuesSound'
              /\ \A x \in Events : Due(x)' = IF x = e THEN Due(x) \ {dir} ELSE Due(x)
<1>1. /\ batch # <<>> /\ Head(batch).event = e /\ Head(batch).dir = dir /\ lpc = "dispatch"
      /\ UNCHANGED <<fake, backend>>
  BY DEF Done
<1>2. Has(batch, e, dir)
  BY <1>1, TailHas DEF UdpInv, QueuesSound
<1>3. dir \in Queued(e)
  BY <1>2 DEF Queued
<1>4. /\ Reactor \/ dir \in Due(e)
      /\ dir \in Due(e) => Flag(dir) \in ev[e].flags
  BY <1>3, DueIs DEF UdpInv, UdpSound, Accounted
<1>5. ASSUME Flag(dir) \notin ev[e].flags
      PROVE  lpc' = "aborted" /\ called' = {} /\ UNCHANGED <<ev, batch>>
  BY <1>5 DEF Done
<1>6. ASSUME Flag(dir) \in ev[e].flags
      PROVE  /\ ev[e].mem = "live" /\ lpc' = lpc /\ called' = CallTo(e, dir)
             /\ ev' = [ev EXCEPT ![e] = [u EXCEPT !.flags = @ \ {Flag(dir)}, !.cbs = @ \ {dir}]]
             /\ QueuesSound'
             /\ \A x \in Events : Due(x)' = IF x = e THEN Due(x) \ {dir} ELSE Due(x)
  <2>1. ev[e].mem = "live"
    BY <1>6 DEF UdpInv, UdpSound, Accounted, Flag
  <2>2. /\ ev' = [ev EXCEPT ![e] = [u EXCEPT !.flags = @ \ {Flag(dir)}, !.cbs = @ \ {dir}]]
        /\ batch' = Tail(batch) /\ called' = CallTo(e, dir) /\ lpc' = lpc
    BY <1>6 DEF Done
  <2>3. /\ QueuesSound'
        /\ \A x \in Events : Queued(x)' = IF x = e THEN Queued(x) \ {dir} ELSE Queued(x)
    BY <1>1, <2>2, QueuesShrink DEF UdpInv
  <2>4. \A x \in Events : Due(x)' = IF x = e THEN Due(x) \ {dir} ELSE Due(x)
    <3>1. backend' = backend
      BY <1>1
    <3> QED BY <2>3, <3>1, DueShrinks, Zenon
  <2> QED BY <2>1, <2>2, <2>3, <2>4, Zenon
<1> QED BY <1>1, <1>4, <1>5, <1>6, Zenon

\* Where the ASSERT fails nothing changes but that the process is gone.
LEMMA AbortInv ==
  ASSUME UdpInv, lpc = "dispatch", lpc' = "aborted", UNCHANGED <<ev, fake, batch, backend>>
  PROVE  UdpInv'
<1>1. QueuesSound' /\ \A x \in Events : Queued(x)' = Queued(x)
  BY QueuesStay DEF UdpInv
<1>2. \A x \in Events : Due(x)' = Due(x)
  BY <1>1, DueStays
<1> QED BY <1>1, <1>2, SameEvents

\* The status of the context makes a sound structure.
LEMMA NotedSound ==
  ASSUME UdpInv, NEW e \in Events
  PROVE  UdpSound(Noted(e), Due(e)) /\ Due(e) \in SUBSET Directions
<1>1. UdpSound(ev[e], Due(e)) /\ Due(e) \in SUBSET Directions
  BY DueIs DEF UdpInv
<1> QED BY <1>1, SetErrorSound DEF Noted

\* udp_proactor_callback() with a structure w for the rest of what it does: the
\* operation is over.
LEMMA DoneInv ==
  ASSUME UdpInv, NEW e \in Events, NEW dir \in Directions, NEW w \in Udps, Done(e, w, dir),
         w.open = Noted(e).open, w.mem = Noted(e).mem, w.flags = Noted(e).flags,
         w.cbs = Noted(e).cbs,
         w.kernel = IF Reactor /\ dir = "write" THEN Noted(e).kernel \ {"write"}
                    ELSE Noted(e).kernel,
         w.reactor_events \subseteq Noted(e).reactor_events,
         Reactor /\ Noted(e).open => w.kernel = w.reactor_events
  PROVE  UdpInv'
<1> DEFINE u == Noted(e)
           v == [w EXCEPT !.flags = @ \ {Flag(dir)}, !.cbs = @ \ {dir}]
<1>1. lpc = "dispatch" /\ UNCHANGED <<fake, backend>> /\ (Reactor \/ dir \in Due(e))
  BY DoneIs, Zenon
<1>2. CASE Flag(dir) \notin ev[e].flags
  <2>1. lpc' = "aborted" /\ UNCHANGED <<ev, batch>>
    BY <1>2, DoneIs, Zenon
  <2> QED BY <1>1, <2>1, AbortInv
<1>3. CASE Flag(dir) \in ev[e].flags
  <2>1. /\ lpc' = lpc /\ ev' = [ev EXCEPT ![e] = v] /\ QueuesSound'
        /\ \A x \in Events : Due(x)' = IF x = e THEN Due(x) \ {dir} ELSE Due(x)
    BY <1>3, DoneIs, Zenon
  <2>2. UdpSound(u, Due(e)) /\ Due(e) \in SUBSET Directions
    BY NotedSound
  <2>3. /\ w.open = u.open /\ w.mem = u.mem /\ w.flags = u.flags /\ w.cbs = u.cbs
        /\ w.kernel = IF Reactor /\ dir = "write" THEN u.kernel \ {"write"} ELSE u.kernel
        /\ w.reactor_events \subseteq u.reactor_events
        /\ Reactor /\ u.open => w.kernel = w.reactor_events
    OBVIOUS
  <2> HIDE DEF u
  <2>4. UdpSound(v, Due(e) \ {dir})
    <3>1. lpc # "gone"
      BY <1>1
    <3> QED BY <1>1, <2>2, <2>3, <3>1, EndSound, Zenon
  <2> HIDE DEF v
  <2> QED BY <1>1, <2>1, <2>4, OneEvent, Zenon
<1> QED BY <1>2, <1>3

\* A recvfrom() is over.
LEMMA ReadDoneInv ==
  ASSUME UdpInv, NEW e \in Events, ReadDone(e)
  PROVE  UdpInv'
<1> DEFINE u == Noted(e)
<1>1. Done(e, u, "read") /\ "read" \in Directions
  BY DEF ReadDone, Directions
<1>2. UdpSound(u, Due(e))
  BY NotedSound
<1>3. /\ u \in Udps /\ (Reactor /\ u.open => u.kernel = u.reactor_events)
      /\ u.kernel = IF Reactor /\ "read" = "write" THEN u.kernel \ {"write"} ELSE u.kernel
      /\ u.reactor_events \subseteq u.reactor_events
  BY <1>2 DEF UdpSound
<1> QED BY <1>1, <1>3, DoneInv, Zenon

\* A sendto() is over.
LEMMA WriteDoneInv ==
  ASSUME UdpInv, NEW e \in Events, WriteDone(e)
  PROVE  UdpInv'
<1> DEFINE u == Noted(e)
           w == Settled(u)
<1>1. Done(e, w, "write") /\ "write" \in Directions /\ backend \in Backends
  BY DEF WriteDone, Directions, UdpInv, QueuesSound
<1>2. UdpSound(u, Due(e)) /\ Due(e) \in SUBSET Directions
  BY NotedSound
<1>3. /\ w \in Udps /\ w.open = u.open /\ w.mem = u.mem /\ w.flags = u.flags /\ w.cbs = u.cbs
      /\ w.kernel = IF Reactor THEN u.kernel \ {"write"} ELSE u.kernel
      /\ w.reactor_events \subseteq u.reactor_events
      /\ Reactor /\ u.open => w.kernel = w.reactor_events
  <2> HIDE DEF u
  <2> QED BY <1>1, <1>2, SettledIs, Zenon
<1>4. w.kernel = IF Reactor /\ "write" = "write" THEN u.kernel \ {"write"} ELSE u.kernel
  BY <1>3, Zenon
<1> HIDE DEF w
<1> QED BY <1>1, <1>3, <1>4, DoneInv, Zenon

-----------------------------------------------------------------------------
(* nanoev_loop_run()                                                        *)

\* The steps between the phases of a turn
LEMMA TurnInv ==
  ASSUME UdpInv, RunStart \/ PollFails \/ BatchDone
  PROVE  UdpInv'
<1>1. /\ UNCHANGED <<ev, fake, batch, backend>> /\ lpc' \in {"user", "timers"}
      /\ batch = <<>> /\ lpc # "gone"
  BY DEF RunStart, PollFails, BatchDone, UdpInv, QueuesSound
<1>2. QueuesSound' /\ \A e \in Events : Queued(e)' = Queued(e)
  BY <1>1, QueuesStay DEF UdpInv
<1> QED BY <1>1, <1>2, DueStays, SameEvents

\* poller_poll() that returns what is queued
LEMMA PollQueueInv ==
  ASSUME UdpInv, PollQueue
  PROVE  UdpInv'
<1>1. QueuesSound' /\ \A e \in Events : Queued(e)' = Queued(e)
  BY QueuesPoll DEF UdpInv
<1>2. UNCHANGED <<ev, backend>> /\ lpc # "gone" /\ lpc' # "gone"
  BY DEF PollQueue
<1> QED BY <1>1, <1>2, DueStays, SameEvents

\* __process_endgame_proactor()
LEMMA ProcessEndgameInv ==
  ASSUME UdpInv, ProcessEndgame
  PROVE  UdpInv'
<1>1. /\ lpc = "timers" /\ lpc' = "poll" /\ UNCHANGED <<fake, batch, backend>> /\ batch = <<>>
  BY DEF ProcessEndgame, UdpInv, QueuesSound
<1>2. QueuesSound' /\ \A e \in Events : Due(e)' = Due(e)
  <2>1. QueuesSound' /\ \A e \in Events : Queued(e)' = Queued(e)
    BY <1>1, QueuesStay DEF UdpInv
  <2> QED BY <1>1, <2>1, DueStays
<1>3. ASSUME NEW e \in Events PROVE UdpSound(ev'[e], Due(e))
  <2>1. UdpSound(ev[e], Due(e)) /\ Due(e) \in SUBSET Directions
    BY DueIs DEF UdpInv
  <2>2. ev'[e] = ev[e] \/ (ev[e].mem = "live" /\ ev'[e] = Released(ev[e]))
    BY DEF ProcessEndgame
  <2> QED BY <1>1, <2>1, <2>2, ReleasedSound
<1>4. ASSUME NEW e \in Events PROVE UdpSound(ev[e], Due(e))'
  <2>1. UdpSound(ev'[e], Due(e)')
    BY <1>2, <1>3
  <2> QED BY <1>1, <2>1, SoundDepends
<1>5. ev' \in [Events -> Udps]
  <2>1. \A e \in Events : ev'[e] \in Udps
    BY <1>3 DEF UdpSound
  <2>2. DOMAIN ev' = Events /\ ev' = [e \in Events |-> ev'[e]]
    BY DEF ProcessEndgame
  <2> QED BY <2>1, <2>2
<1> QED BY <1>2, <1>4, <1>5 DEF UdpInv

\* More contexts on their way for operations that are pending
LEMMA MoreQueued ==
  ASSUME NEW u, UdpSound(u, {}), Reactor, NEW queued \in SUBSET Directions,
         \A dir \in queued : Flag(dir) \in u.flags
  PROVE  UdpSound(u, queued)
BY DEF UdpSound, Accounted

\* poller_poll() that finds sockets ready
LEMMA PollReadyInv ==
  ASSUME UdpInv, PollReady
  PROVE  UdpInv'
<1>1. /\ lpc = "poll" /\ lpc' = "dispatch" /\ fake = <<>> /\ UNCHANGED <<ev, fake, backend>>
      /\ batch' \in IF Reactor THEN Reports(ReactorCb) ELSE {<<>>}
      /\ ReactorCb \in SUBSET Context
  BY DEF PollReady, ReactorCb
<1>2. /\ QueuesSound'
      /\ \A e \in Events : Queued(e) = {}
      /\ \A e \in Events : \A dir \in Queued(e)' :
           Reactor /\ \E c \in ReactorCb : Is(c, e, dir)
  BY <1>1, QueuesReport, Zenon DEF UdpInv
<1>3. ASSUME NEW e \in Events PROVE UdpSound(ev[e], Due(e)')
  <2>1. UdpSound(ev[e], {})
    <3>1. Due(e) = {}
      BY <1>2 DEF Due
    <3> QED BY <3>1, Zenon DEF UdpInv
  <2>2. /\ Due(e)' \in SUBSET Directions /\ Due(e)' \subseteq Queued(e)'
        /\ Reactor /\ "read" \in Due(e)' => e \notin Unsolicited
    BY <1>1 DEF Due, Queued, Reactor
  <2>3. CASE Due(e)' = {}
    BY <2>1, <2>3
  <2>4. CASE Due(e)' # {}
    <3>1. Reactor
      BY <1>2, <2>2, <2>4
    <3>2. ASSUME NEW dir \in Due(e)' PROVE Flag(dir) \in ev[e].flags
      <4>1. dir \in ev[e].kernel /\ (dir = "read" => "reading" \in ev[e].flags)
        BY <1>2, <2>2, <3>1, <3>2 DEF ReactorCb, Is
      <4>2. "write" \in ev[e].kernel => "writing" \in ev[e].flags
        BY <2>1, <3>1 DEF UdpSound
      <4>3. dir \in Directions
        BY <2>2
      <4> QED BY <4>1, <4>2, <4>3 DEF Flag, Directions
    <3> QED BY <2>1, <2>2, <3>1, <3>2, MoreQueued
  <2> QED BY <2>3, <2>4
<1>4. ASSUME NEW e \in Events PROVE UdpSound(ev[e], Due(e))'
  <2>1. UdpSound(ev'[e], Due(e)')
    BY <1>1, <1>3
  <2> QED BY <1>1, <2>1, SoundDepends
<1> QED BY <1>1, <1>2, <1>4 DEF UdpInv

\* Windows completes an operation in flight.
LEMMA KernelDoneInv ==
  ASSUME UdpInv, NEW e \in Events, NEW dir \in Directions, KernelDone(e, dir)
  PROVE  UdpInv'
<1> DEFINE u == ev[e]
           w == [u EXCEPT !.kernel = @ \ {dir}]
<1>1. /\ ~Reactor /\ lpc # "gone" /\ dir \in u.kernel
      /\ ev' = [ev EXCEPT ![e] = w] /\ UNCHANGED <<batch, lpc, backend>>
  BY DEF KernelDone
<1>2. PICK ok \in BOOLEAN : fake' = Append(fake, [event |-> e, dir |-> dir, ok |-> ok])
  BY Zenon DEF KernelDone
<1> DEFINE c == [event |-> e, dir |-> dir, ok |-> ok]
<1>3. c \in Context /\ c.event = e /\ c.dir = dir
  BY DEF Context
<1>4. UdpSound(u, Due(e)) /\ Due(e) \in SUBSET Directions
  BY DueIs DEF UdpInv
<1>5. dir \notin Queued(e)
  BY <1>1, <1>4, DueIs DEF UdpSound, Accounted
<1>6. fake' = Append(fake, c)
  BY <1>2
<1> HIDE DEF c
<1>7. /\ QueuesSound'
      /\ \A x \in Events : Due(x)' = IF x = e THEN Due(x) \cup {dir} ELSE Due(x)
  <2>1. /\ QueuesSound'
        /\ \A x \in Events : Queued(x)' = IF x = e THEN Queued(x) \cup {dir} ELSE Queued(x)
    BY <1>1, <1>3, <1>5, <1>6, QueuesGrow, SMTT(30) DEF UdpInv
  <2> QED BY <1>1, <2>1, DueGrows
<1>8. u \in Udps /\ Spelled(u, Due(e))
  BY <1>4, SpelledOut
<1> HIDE DEF u
<1>9. /\ w \in Udps /\ w.open = u.open /\ w.mem = u.mem /\ w.flags = u.flags /\ w.cbs = u.cbs
      /\ w.reactor_events = u.reactor_events /\ w.kernel = u.kernel \ {dir}
  BY <1>8 DEF Udps
<1> HIDE DEF w
<1>10. Spelled(w, Due(e) \cup {dir})
  <2>1. CASE dir = "read"
    BY <1>1, <1>8, <1>9, <2>1, SMTT(30) DEF Spelled, Kept
  <2>2. CASE dir = "write"
    BY <1>1, <1>8, <1>9, <2>2 DEF Spelled, Kept
  <2> QED BY <2>1, <2>2 DEF Directions
<1>11. UdpSound(w, Due(e) \cup {dir})
  BY <1>4, <1>9, <1>10, SpelledOut
<1> QED BY <1>1, <1>7, <1>11, OneEvent, Zenon

\* After nanoev_loop_free() a structure that is not allocated is sound.
LEMMA GoneSound ==
  ASSUME backend' = backend, lpc' = "gone", NEW v \in Udps, v.mem # "live", ~v.open,
         "reading" \notin v.flags, "writing" \notin v.flags, Reactor => v.kernel = {},
         v.mem = "none" => v.cbs = {} /\ "deleted" \notin v.flags
  PROVE  UdpSound(v, {})'
<1>1. Reactor' = Reactor
  BY DEF Reactor
<1>2. Accounted(v, {})'
  BY <1>1 DEF Accounted, Flag, Directions, Udps
<1> QED BY <1>1, <1>2 DEF UdpSound, Kept

\* nanoev_loop_free()
LEMMA LoopFreeInv ==
  ASSUME UdpInv, LoopFree
  PROVE  UdpInv'
<1>1. QueuesSound' /\ \A e \in Events : Due(e)' = {}
  BY QueuesGone DEF UdpInv, Due
<1>2. lpc = "user" /\ lpc' = "gone" /\ backend' = backend
  BY DEF LoopFree
<1>3. ASSUME NEW e \in Events
      PROVE  /\ ev'[e] \in Udps /\ ev'[e].mem # "live" /\ ~ev'[e].open
             /\ "reading" \notin ev'[e].flags /\ "writing" \notin ev'[e].flags
             /\ Reactor => ev'[e].kernel = {}
             /\ ev'[e].mem = "none" => ev'[e].cbs = {} /\ "deleted" \notin ev'[e].flags
  <2> DEFINE u == ev[e]
  <2>1. u \in Udps /\ UdpSound(u, Due(e))
    BY DEF UdpInv
  <2>2. CASE u.mem # "live"
    <3>1. ev'[e] = u
      BY <2>2 DEF LoopFree
    <3>2. "reading" \notin u.flags /\ "writing" \notin u.flags /\ ~u.open
      BY <2>1, <2>2 DEF UdpSound, Accounted
    <3> QED BY <2>1, <2>2, <3>1, <3>2, SMTT(30) DEF UdpSound, Accounted
  <2>3. CASE u.mem = "live"
    <3> DEFINE t == [u EXCEPT !.flags = @ \ {"deleted", "reading", "writing"}]
               k == IF Reactor THEN {} ELSE t.kernel
    <3>1. ev'[e] = Released(t)
      BY <2>3 DEF LoopFree
    <3>2. t \in Udps /\ "reading" \notin t.flags /\ "writing" \notin t.flags
      BY <2>1 DEF Udps
    <3> HIDE DEF t
    <3>3. ev'[e] = [t EXCEPT !.open = FALSE, !.kernel = k, !.mem = "freed"]
      BY <3>1, <3>2 DEF Released, CloseSocket, Udps
    <3> QED BY <3>2, <3>3, Zenon DEF Udps
  <2> QED BY <2>2, <2>3
<1>4. ASSUME NEW e \in Events PROVE UdpSound(ev[e], Due(e))'
  <2>1. \A v : v = ev'[e] => UdpSound(v, {})'
    BY <1>2, <1>3, GoneSound
  <2> QED BY <1>1, <2>1
<1>5. ev' \in [Events -> Udps]
  <2>1. DOMAIN ev' = Events /\ ev' = [e \in Events |-> ev'[e]]
    BY DEF LoopFree
  <2> QED BY <1>3, <2>1
<1> QED BY <1>1, <1>4, <1>5 DEF UdpInv

-----------------------------------------------------------------------------
(* The theorems.                                                            *)

\* Every step of the library keeps the invariant.
LEMMA NextInv ==
  ASSUME UdpInv, [Next]_vars
  PROVE  UdpInv'
<1>1. ASSUME NEW e \in Events, Application(e) PROVE UdpInv'
  BY <1>1, NewInv, BindInv, ConnectInv, ReadNowInv, ReadInv, WriteNowInv, WriteInv,
     CallFailsInv, FreeInv, SMTT(30) DEF Application
<1>2. ASSUME NEW e \in Events, ReadDone(e) \/ WriteDone(e) PROVE UdpInv'
  BY <1>2, ReadDoneInv, WriteDoneInv
<1>3. ASSUME NEW e \in Events, NEW dir \in Directions, KernelDone(e, dir) PROVE UdpInv'
  BY <1>3, KernelDoneInv
<1>4. CASE RunStart \/ PollFails \/ BatchDone
  BY <1>4, TurnInv
<1>5. CASE PollQueue \/ PollReady
  BY <1>5, PollQueueInv, PollReadyInv
<1>6. CASE ProcessEndgame \/ LoopFree
  BY <1>6, ProcessEndgameInv, LoopFreeInv
<1>7. CASE UNCHANGED vars
  <2>1. UNCHANGED <<ev, fake, batch, lpc, backend>>
    BY <1>7 DEF vars
  <2>2. QueuesSound' /\ \A e \in Events : Due(e)' = Due(e)
    BY <2>1 DEF UdpInv, QueuesSound, Due, Queued, Reactor
  <2> QED BY <2>1, <2>2, SameEvents
<1> QED BY <1>1, <1>2, <1>3, <1>4, <1>5, <1>6, <1>7 DEF Next

LEMMA InitInv == Init => UdpInv
<1> SUFFICES ASSUME Init PROVE UdpInv
  OBVIOUS
<1>1. /\ ev = [e \in Events |-> Proactor] /\ fake = <<>> /\ batch = <<>> /\ lpc = "user"
      /\ backend \in Backends
  BY DEF Init, InitWith
<1>2. fake \in Seq(Context) /\ batch \in Seq(Context)
  BY <1>1
<1>3. /\ Len(fake) = 0 /\ Len(batch) = 0
      /\ \A e, dir : ~Has(fake, e, dir) /\ ~Has(batch, e, dir)
  BY <1>1 DEF Has
<1>4. QueuesSound
  BY <1>1, <1>2, <1>3 DEF QueuesSound, Single, Apart
<1>5. ASSUME NEW e \in Events PROVE Due(e) = {} /\ UdpSound(Proactor, {})
  <2>1. Due(e) = {}
    BY <1>3 DEF Due, Queued
  <2>2. /\ Proactor \in Udps /\ Proactor.mem = "none" /\ ~Proactor.open /\ Proactor.flags = {}
        /\ Proactor.cbs = {} /\ Proactor.kernel = {} /\ Proactor.reactor_events = {}
    BY DEF Proactor, Udps
  <2> QED BY <2>1, <2>2 DEF UdpSound, Accounted, Kept
<1> QED BY <1>1, <1>4, <1>5, Zenon DEF UdpInv, UdpSound

\* The inductive invariant holds always.
THEOREM UdpInvariance == Spec => []UdpInv
<1>1. UdpInv /\ [Next]_vars => UdpInv'
  BY NextInv
<1> QED BY InitInv, <1>1, PTL DEF Spec

LEMMA UdpIsSafe ==
  ASSUME UdpInv
  PROVE  ExpectedIsLive /\ ExpectedIsPending /\ PendingCanComplete
<1>1. /\ Contexts \in Seq(Context) /\ DOMAIN Contexts = 1 .. Len(Contexts)
      /\ \A e \in Events, dir \in Directions : Coming(e, dir) <=> dir \in Queued(e)
      /\ \A i, j \in DOMAIN Contexts :
           Contexts[i].event = Contexts[j].event /\ Contexts[i].dir = Contexts[j].dir => i = j
  BY ContextsAre DEF UdpInv
<1>2. ASSUME NEW i \in DOMAIN Contexts, Expected(Contexts[i])
      PROVE  /\ Flag(Contexts[i].dir) \in ev[Contexts[i].event].flags
             /\ ev[Contexts[i].event].mem = "live"
  <2> DEFINE c == Contexts[i]
  <2>1. c \in Context
    BY <1>1
  <2>2. c.event \in Events /\ c.dir \in Directions
    BY <2>1 DEF Context
  <2>3. Coming(c.event, c.dir)
    BY DEF Coming
  <2>4. c.dir \in Due(c.event)
    BY <1>1, <1>2, <2>2, <2>3 DEF Due, Expected
  <2> HIDE DEF c
  <2>5. Accounted(ev[c.event], Due(c.event))
    BY <2>2 DEF UdpInv, UdpSound
  <2>6. Flag(c.dir) \in ev[c.event].flags /\ Flag(c.dir) \in {"reading", "writing"}
    BY <2>4, <2>5 DEF Accounted, Flag
  <2>7. ev[c.event].mem = "live"
    BY <2>5, <2>6 DEF Accounted
  <2> QED BY <2>6, <2>7 DEF c
<1>3. ASSUME NEW e \in Events
      PROVE  /\ ev[e].mem # "live" => ev[e].kernel = {} \/ (~Reactor /\ lpc = "gone")
             /\ ~Reactor /\ lpc # "gone" => \A dir \in ev[e].kernel :
                  Flag(dir) \in ev[e].flags /\ ~Coming(e, dir)
  <2>1. Accounted(ev[e], Due(e))
    BY DEF UdpInv, UdpSound
  <2>2. ev[e].mem # "live" => ev[e].kernel = {} \/ (~Reactor /\ lpc = "gone")
    BY <2>1 DEF Accounted, Flag
  <2>3. ASSUME ~Reactor, lpc # "gone", NEW dir \in ev[e].kernel
        PROVE  Flag(dir) \in ev[e].flags /\ ~Coming(e, dir)
    <3>1. dir \in Directions /\ Flag(dir) \in ev[e].flags /\ dir \notin Due(e)
      BY <2>1, <2>3 DEF Accounted
    <3> QED BY <1>1, <2>3, <3>1, DueIs
  <2> QED BY <2>2, <2>3
<1>4. ExpectedIsLive
  BY <1>2, <1>3, Zenon DEF ExpectedIsLive
<1>5. ExpectedIsPending
  BY <1>1, <1>2, <1>3, Zenon DEF ExpectedIsPending
<1>6. PendingCanComplete
  <2> SUFFICES ASSUME NEW e \in Events, Usable(e), NEW dir \in Directions,
                      Flag(dir) \in ev[e].flags
               PROVE  dir \in ev[e].kernel \/ Coming(e, dir)
    BY DEF PendingCanComplete
  <2>1. dir \in ev[e].kernel \/ dir \in Due(e)
    BY DEF Usable, UdpInv, UdpSound, Kept
  <2> QED BY <1>1, <2>1, DueIs
<1> QED BY <1>4, <1>5, <1>6

\* No pointer of the library or of the kernel to a UDP event outlives it, but for
\* the ctx_read of a socket to which datagrams come unasked.
THEOREM UdpContextsAreLive == Spec => []ExpectedIsLive
<1>1. UdpInv => ExpectedIsLive
  BY UdpIsSafe
<1> QED BY <1>1, UdpInvariance, PTL

\* A write on every build, a read on Windows and, on a reactor, a read of a socket
\* to which no datagrams come unasked complete the one operation that is pending in
\* their direction; no context is on its way twice.
THEOREM UdpContextIsPending == Spec => []ExpectedIsPending
<1>1. UdpInv => ExpectedIsPending
  BY UdpIsSafe
<1> QED BY <1>1, UdpInvariance, PTL

\* No read or write of a UDP event is pending that nothing can complete.
THEOREM UdpPendingCanComplete == Spec => []PendingCanComplete
<1>1. UdpInv => PendingCanComplete
  BY UdpIsSafe
<1> QED BY <1>1, UdpInvariance, PTL

-----------------------------------------------------------------------------
(* UDP events implement SocketOps.                                          *)

\* What waiting for an operation leaves alone
LEMMA WaitingKeeps ==
  ASSUME NEW u \in Udps, NEW dir \in Directions
  PROVE  LET w == Waiting(u, dir) IN
         w \in Udps /\ w.mem = u.mem /\ w.flags = u.flags /\ w.cbs = u.cbs
<1>1. CASE ~Reactor
  <2>1. Waiting(u, dir) = [u EXCEPT !.kernel = @ \cup {dir}]
    BY <1>1 DEF Waiting
  <2> QED BY <2>1 DEF Udps
<1>2. CASE Reactor /\ dir = "write"
  <2> DEFINE r == u.reactor_events \cup {"write"}
             k == IF u.reactor_events = r \/ backend = "iocp" THEN u.kernel
                  ELSE IF backend = "epoll" THEN r
                  ELSE (u.kernel \cup (r \ u.reactor_events)) \ (u.reactor_events \ r)
  <2>1. Waiting(u, dir) = [u EXCEPT !.reactor_events = r, !.kernel = k]
    BY <1>2 DEF Waiting, Registered, Udps
  <2>2. r \in SUBSET Directions /\ k \in SUBSET Directions
    BY DEF Udps, Directions
  <2> HIDE DEF r, k
  <2> QED BY <2>1, <2>2, Zenon DEF Udps
<1>3. CASE Reactor /\ dir # "write"
  BY <1>3 DEF Waiting
<1> QED BY <1>1, <1>2, <1>3

\* An operation of UDP is started: no other is pending in its direction.
LEMMA StartOps ==
  ASSUME UdpInv, NEW e \in Events, NEW dir \in Directions, Kept(ev[e]),
         Flag(dir) \notin ev[e].flags, NEW w \in Udps, w.mem = "live",
         w.flags = ev[e].flags, w.cbs = ev[e].cbs,
         ev' = [ev EXCEPT ![e] = Start(w, dir)], called' = {}
  PROVE  Ops!Next
<1> DEFINE v == Start(w, dir)
<1>1. v.mem = w.mem /\ v.flags = w.flags \cup {Flag(dir)} /\ v.cbs = w.cbs \cup {dir}
  BY DEF Start, Udps
<1>2. DOMAIN ev = Events /\ UdpSound(ev[e], Due(e))
  BY DEF UdpInv
<1>3. ev[e].cbs \subseteq Directions /\ dir \notin ev[e].cbs
  BY <1>2 DEF UdpSound, Udps, Kept
<1>4. ~IsFreed(ev[e]) /\ ~IsFreed(v)
  BY <1>1 DEF IsFreed, Kept, Flag
<1>5. \E kind : /\ kind = Inbound \/ kind = Outbound
                /\ dir \in kind /\ ev[e].cbs \cap kind = {}
  <2>1. dir = "read" => dir \in Inbound /\ ev[e].cbs \cap Inbound = {}
    BY <1>3 DEF Directions, Inbound
  <2>2. dir = "write" => dir \in Outbound /\ ev[e].cbs \cap Outbound = {}
    BY <1>3 DEF Directions, Outbound
  <2>3. dir = "read" \/ dir = "write"
    BY DEF Directions
  <2> QED BY <2>1, <2>2, <2>3, Zenon
<1>6. ev' = [ev EXCEPT ![e] = v] /\ v.cbs = ev[e].cbs \cup {dir}
  BY <1>1
<1> HIDE DEF v
<1> QED BY <1>2, <1>4, <1>5, <1>6, OpsStart, Zenon

\* What an application calls
LEMMA ApplicationOps ==
  ASSUME UdpInv, NEW e \in Events, Application(e)
  PROVE  Ops!Next
<1>1. DOMAIN ev = Events /\ ev[e] \in Udps
  BY DEF UdpInv
<1>2. Flag("read") = "reading" /\ Flag("write") = "writing" /\ {"read", "write"} = Directions
  <2>1. Flag("read") = "reading" /\ Flag("write") = "writing"
    BY DEF Flag
  <2> QED BY <2>1, Zenon DEF Directions
<1>3. ASSUME NEW flags, Clear(e, flags)
      PROVE  LET w == WithSocket(ev[e]) IN
             /\ Kept(ev[e]) /\ ev[e].mem = "live" /\ ev[e].flags \cap flags = {}
             /\ w \in Udps /\ w.mem = "live" /\ w.flags = ev[e].flags /\ w.cbs = ev[e].cbs
  <2>1. /\ UdpSound(ev[e], Due(e)) /\ Kept(ev[e]) /\ Due(e) \in SUBSET Directions
        /\ ev[e].flags \cap flags = {}
    BY <1>3, ClearIs
  <2> DEFINE u == ev[e]
             w == WithSocket(u)
  <2>2. UdpSound(w, Due(e)) /\ w.mem = "live" /\ w.flags = u.flags /\ w.cbs = u.cbs
    BY <2>1, WithSocketSound, Zenon
  <2> HIDE DEF w
  <2>3. w \in Udps
    BY <2>2 DEF UdpSound
  <2> QED BY <2>1, <2>2, <2>3, Zenon DEF Kept, w
<1>4. CASE New(e)
  <2> DEFINE u == [Proactor EXCEPT !.mem = "live"]
  <2>1. u.cbs = {} /\ ~IsFreed(u)
    BY DEF Proactor, IsFreed
  <2>2. ev[e].cbs = {} /\ ev[e].mem = "none" /\ "deleted" \notin ev[e].flags
    BY <1>4 DEF New, UdpInv, UdpSound
  <2>3. ev' = [ev EXCEPT ![e] = u] /\ called' = {}
    BY <1>4 DEF New, Call
  <2> HIDE DEF u
  <2> QED BY <1>1, <2>1, <2>2, <2>3, OpsKeep, Zenon DEF IsFreed
<1>5. CASE Bind(e)
  <2>1. Clear(e, {"error"}) /\ ev' = [ev EXCEPT ![e] = WithSocket(ev[e])] /\ called' = {}
    BY <1>5 DEF Bind, Call
  <2>2. WithSocket(ev[e]).cbs = ev[e].cbs /\ (IsFreed(WithSocket(ev[e])) <=> IsFreed(ev[e]))
    BY <1>3, <2>1 DEF IsFreed
  <2> QED BY <1>1, <2>1, <2>2, OpsKeep, Zenon
<1>6. CASE Connect(e)
  <2> DEFINE w == WithSocket(ev[e])
             u == [w EXCEPT !.flags = @ \cup {"connected"}]
  <2>1. /\ Clear(e, {"error", "reading", "writing"})
        /\ ev' = [ev EXCEPT ![e] = u] /\ called' = {}
    BY <1>6 DEF Connect, Call
  <2>2. w \in Udps /\ w.mem = "live" /\ w.flags = ev[e].flags /\ w.cbs = ev[e].cbs
        /\ ev[e].mem = "live"
    BY <1>3, <2>1
  <2> HIDE DEF w
  <2>3. u.cbs = w.cbs /\ u.mem = w.mem /\ u.flags = w.flags \cup {"connected"}
    BY <2>2 DEF Udps
  <2> HIDE DEF u
  <2> QED BY <1>1, <2>1, <2>2, <2>3, OpsKeep, Zenon DEF IsFreed
<1>7. CASE ReadNow(e)
  <2>1. /\ Clear(e, {"error", "reading"}) /\ called' = {}
        /\ ev' = [ev EXCEPT ![e] = Start(ev[e], "read")]
    BY <1>7 DEF ReadNow, CallDone
  <2>2. Kept(ev[e]) /\ ev[e].mem = "live" /\ "reading" \notin ev[e].flags
    BY <1>3, <2>1
  <2> QED BY <1>1, <1>2, <2>1, <2>2, StartOps, Zenon
<1>8. CASE Read(e)
  <2> DEFINE w == Waiting(ev[e], "read")
  <2>1. /\ Clear(e, {"error", "reading"}) /\ called' = {}
        /\ ev' = [ev EXCEPT ![e] = Start(w, "read")]
    BY <1>8 DEF Read, Call
  <2>2. w \in Udps /\ w.mem = "live" /\ w.flags = ev[e].flags /\ w.cbs = ev[e].cbs
    BY <1>1, <1>2, <1>3, <2>1, WaitingKeeps
  <2> HIDE DEF w
  <2> QED BY <1>2, <1>3, <2>1, <2>2, StartOps, ZenonT(30)
<1>9. CASE WriteNow(e)
  <2> DEFINE w == WithSocket(ev[e])
  <2>1. /\ Clear(e, {"error", "writing"}) /\ called' = {}
        /\ ev' = [ev EXCEPT ![e] = Start(w, "write")]
    BY <1>9 DEF WriteNow, CallDone
  <2>2. w \in Udps /\ w.mem = "live" /\ w.flags = ev[e].flags /\ w.cbs = ev[e].cbs
    BY <1>3, <2>1, SMTT(30)
  <2> HIDE DEF w
  <2> QED BY <1>2, <1>3, <2>1, <2>2, StartOps, ZenonT(30)
<1>10. CASE Write(e)
  <2> DEFINE u == WithSocket(ev[e])
             w == Waiting(u, "write")
  <2>1. /\ Clear(e, {"error", "writing"}) /\ called' = {}
        /\ ev' = [ev EXCEPT ![e] = Start(w, "write")]
    BY <1>10 DEF Write, Call
  <2>2. u \in Udps /\ u.mem = "live" /\ u.flags = ev[e].flags /\ u.cbs = ev[e].cbs
    BY <1>3, <2>1
  <2> HIDE DEF u
  <2>3. w \in Udps /\ w.mem = "live" /\ w.flags = ev[e].flags /\ w.cbs = ev[e].cbs
    BY <1>2, <2>2, WaitingKeeps
  <2> HIDE DEF w
  <2> QED BY <1>2, <1>3, <2>1, <2>3, StartOps, ZenonT(30)
<1>11. CASE CallFails(e)
  <2>1. Clear(e, {"error"})
    BY <1>11 DEF CallFails
  <2>2. PICK u \in {ev[e], [ev[e] EXCEPT !.open = TRUE], WithSocket(ev[e])} : Call(e, SetError(u))
    BY <1>11, Zenon DEF CallFails
  <2>3. u \in Udps /\ u.mem = ev[e].mem /\ u.flags = ev[e].flags /\ u.cbs = ev[e].cbs
    <3>1. LET w == [ev[e] EXCEPT !.open = TRUE] IN
          w \in Udps /\ w.mem = ev[e].mem /\ w.flags = ev[e].flags /\ w.cbs = ev[e].cbs
      BY <1>1, Zenon DEF Udps
    <3> QED BY <1>1, <1>3, <2>1, <2>2, <3>1, Zenon
  <2> DEFINE w == SetError(u)
  <2>4. w.cbs = ev[e].cbs /\ w.mem = ev[e].mem /\ w.flags = ev[e].flags \cup {"error"}
    BY <2>3 DEF SetError, Udps
  <2>5. ev' = [ev EXCEPT ![e] = w] /\ called' = {}
    BY <2>2 DEF Call
  <2> HIDE DEF w
  <2> QED BY <1>1, <2>4, <2>5, OpsKeep, Zenon DEF IsFreed
<1>12. CASE Free(e)
  <2> DEFINE w == Released(ev[e])
  <2>1. Kept(ev[e]) /\ ev' = [ev EXCEPT ![e] = w] /\ called' = {}
    BY <1>12 DEF Free, Usable, Kept, Call
  <2>2. w.cbs = ev[e].cbs /\ IsFreed(w)
    BY <1>1 DEF Released, CloseSocket, IsFreed, Udps
  <2>3. ~IsFreed(ev[e])
    BY <2>1 DEF Kept, IsFreed
  <2> HIDE DEF w
  <2> QED BY <1>1, <2>1, <2>2, <2>3, OpsFree, Zenon
<1> QED BY <1>4, <1>5, <1>6, <1>7, <1>8, <1>9, <1>10, <1>11, <1>12, SMTT(30) DEF Application

\* A context is done with: the callback of the pending operation is made, unless
\* the event has been freed.
LEMMA DoneOps ==
  ASSUME UdpInv, NEW e \in Events, NEW dir \in Directions, NEW w \in Udps,
         w.mem = ev[e].mem, w.cbs = ev[e].cbs,
         "deleted" \in w.flags <=> "deleted" \in ev[e].flags, Done(e, w, dir),
         Flag(dir) \in ev[e].flags
  PROVE  Ops!Next
<1> DEFINE v == [w EXCEPT !.flags = @ \ {Flag(dir)}, !.cbs = @ \ {dir}]
<1>1. /\ Flag(dir) \in ev[e].flags /\ ev[e].mem = "live" /\ called' = CallTo(e, dir)
      /\ ev' = [ev EXCEPT ![e] = v]
  BY DoneIs, Zenon
<1>2. v.mem = ev[e].mem /\ v.flags = w.flags \ {Flag(dir)} /\ v.cbs = ev[e].cbs \ {dir}
  BY DEF Udps
<1>3. DOMAIN ev = Events /\ dir \in ev[e].cbs /\ dir \in Inbound \cup Outbound
  BY <1>1 DEF UdpInv, UdpSound, Directions, Inbound, Outbound
<1> HIDE DEF v
<1>4. IsFreed(v) <=> IsFreed(ev[e])
  BY <1>2 DEF IsFreed, Flag
<1>5. /\ ev'[e].cbs = ev[e].cbs \ {dir}
      /\ \A x \in Events : x # e => ev'[x].cbs = ev[x].cbs
      /\ \A x \in Events : IsFreed(ev'[x]) <=> IsFreed(ev[x])
  BY <1>1, <1>2, <1>3, <1>4, OpsOne
<1>6. called' = CallTo(e, dir) /\ ev[e].mem = "live"
  BY <1>1
<1> QED BY <1>3, <1>5, <1>6, OpsDone, Zenon

\* udp_proactor_callback()
LEMMA CallbackOps ==
  ASSUME UdpInv, NEW e \in Events, ReadDone(e) \/ WriteDone(e)
  PROVE  Ops!Next
<1>0. CASE ev' = ev /\ called' = {}
  BY <1>0, OpsSame
<1> DEFINE u == Noted(e)
<1>1. ev[e] \in Udps /\ backend \in Backends /\ {"read", "write"} = Directions
  BY DEF UdpInv, QueuesSound, Directions
<1>2. /\ u \in Udps /\ u.mem = ev[e].mem /\ u.cbs = ev[e].cbs
      /\ "deleted" \in u.flags <=> "deleted" \in ev[e].flags
  BY <1>1 DEF Noted, SetError, Udps, Flags
<1>3. UdpSound(u, Due(e)) /\ Due(e) \in SUBSET Directions
  BY NotedSound
<1>4. CASE ReadDone(e)
  <2>1. Done(e, u, "read")
    BY <1>4 DEF ReadDone
  <2>2. "reading" \notin ev[e].flags => ev' = ev /\ called' = {}
    BY <1>1, <2>1, DoneIs, Zenon DEF Flag
  <2> HIDE DEF u
  <2> QED BY <1>0, <1>1, <1>2, <2>1, <2>2, DoneOps DEF Flag
<1>5. CASE WriteDone(e)
  <2> DEFINE w == Settled(u)
  <2>1. Done(e, w, "write")
    BY <1>5 DEF WriteDone
  <2> HIDE DEF u
  <2>2. w \in Udps /\ w.mem = u.mem /\ w.flags = u.flags /\ w.cbs = u.cbs
    BY <1>1, <1>3, SettledIs, Zenon
  <2>3. "writing" \notin ev[e].flags => ev' = ev /\ called' = {}
    BY <1>1, <2>1, DoneIs, Zenon DEF Flag
  <2> HIDE DEF w
  <2> QED BY <1>0, <1>1, <1>2, <2>1, <2>2, <2>3, DoneOps, SMTT(30) DEF Flag
<1> QED BY <1>4, <1>5

\* The loop and Windows
LEMMA LoopOps ==
  ASSUME UdpInv,
         \/ \E e \in Events, dir \in Directions : KernelDone(e, dir)
         \/ RunStart \/ ProcessEndgame \/ PollQueue \/ PollReady \/ PollFails
         \/ BatchDone \/ LoopFree
  PROVE  Ops!Next
<1>1. DOMAIN ev = Events /\ \A e \in Events : ev[e] \in Udps
  BY DEF UdpInv
<1>2. ASSUME NEW e \in Events, NEW dir \in Directions, KernelDone(e, dir) PROVE Ops!Next
  <2> DEFINE w == [ev[e] EXCEPT !.kernel = @ \ {dir}]
  <2>1. ev' = [ev EXCEPT ![e] = w] /\ called' = {}
    BY <1>2 DEF KernelDone
  <2>2. w.cbs = ev[e].cbs /\ w.mem = ev[e].mem /\ w.flags = ev[e].flags
    BY <1>1 DEF Udps
  <2> HIDE DEF w
  <2> QED BY <1>1, <2>1, <2>2, OpsKeep, Zenon DEF IsFreed
<1>3. CASE RunStart \/ PollQueue \/ PollReady \/ PollFails \/ BatchDone
  BY <1>3, OpsSame DEF RunStart, PollQueue, PollReady, PollFails, BatchDone
<1>4. CASE ProcessEndgame
  <2>1. ASSUME NEW e \in Events
        PROVE  ev'[e].cbs = ev[e].cbs /\ (IsFreed(ev'[e]) <=> IsFreed(ev[e]))
    <3>1. CASE ev'[e] = ev[e]
      BY <3>1
    <3>2. CASE ev'[e] # ev[e]
      <4>1. "deleted" \in ev[e].flags /\ ev'[e] = Released(ev[e])
        BY <1>4, <3>2 DEF ProcessEndgame
      <4>2. ev'[e].cbs = ev[e].cbs /\ IsFreed(ev'[e])
        BY <1>1, <4>1 DEF Released, CloseSocket, IsFreed, Udps
      <4> QED BY <4>1, <4>2 DEF IsFreed
    <3> QED BY <3>1, <3>2
  <2> QED BY <1>4, <2>1, OpsQuiet DEF ProcessEndgame
<1>5. CASE LoopFree
  <2>1. ASSUME NEW e \in Events
        PROVE  ev'[e].cbs = ev[e].cbs /\ (IsFreed(ev'[e]) <=> IsFreed(ev[e]))
    <3> DEFINE t == [ev[e] EXCEPT !.flags = @ \ {"deleted", "reading", "writing"}]
    <3>1. CASE ev[e].mem # "live"
      BY <1>5, <3>1 DEF LoopFree
    <3>2. CASE ev[e].mem = "live"
      <4>1. "deleted" \in ev[e].flags /\ ev'[e] = Released(t)
        BY <1>5, <3>2 DEF LoopFree, Usable
      <4>2. t \in Udps /\ t.cbs = ev[e].cbs
        BY <1>1 DEF Udps
      <4> HIDE DEF t
      <4>3. ev'[e].cbs = t.cbs /\ IsFreed(ev'[e])
        BY <4>1, <4>2 DEF Released, CloseSocket, IsFreed, Udps
      <4> QED BY <4>1, <4>2, <4>3 DEF IsFreed
    <3> QED BY <3>1, <3>2
  <2> QED BY <1>5, <2>1, OpsQuiet DEF LoopFree
<1> QED BY <1>2, <1>3, <1>4, <1>5

\* UDP events keep the promises of SocketOps: an operation that was started gets at
\* most one callback, at most one is pending per direction, and an event that was
\* freed is not called.
THEOREM UdpImplementsSocketOps == Spec => ImplementsSocketOps
<1> SUFFICES Spec => Ops!Spec
  BY DEF ImplementsSocketOps
<1>1. Init => Ops!Init
  <2> SUFFICES ASSUME Init PROVE Ops!Init
    OBVIOUS
  <2>1. ev = [e \in Events |-> Proactor] /\ called = {}
    BY DEF Init, InitWith
  <2>2. Proactor.cbs = {} /\ Proactor.mem = "none" /\ Proactor.flags = {}
    BY DEF Proactor
  <2> QED BY <2>1, <2>2 DEF Ops!Init
<1>2. UdpInv /\ [Next]_vars => [Ops!Next]_Ops!vars
  <2> SUFFICES ASSUME UdpInv, [Next]_vars PROVE [Ops!Next]_Ops!vars
    OBVIOUS
  <2>1. CASE UNCHANGED vars
    BY <2>1 DEF vars, Ops!vars
  <2>2. CASE Next
    BY <2>2, ApplicationOps, CallbackOps, LoopOps DEF Next
  <2> QED BY <2>1, <2>2
<1>3. Spec => []UdpInv
  BY UdpInvariance
<1> QED BY <1>1, <1>2, <1>3, PTL DEF Spec, Ops!Spec
=============================================================================

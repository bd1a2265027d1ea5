---------------------------- MODULE TcpOpsProofs -----------------------------
(***************************************************************************)
(* The theorems about nanoev_tcp.c.  The loop keeps the invariant that     *)
(* TcpProofs shows the calls and the callbacks to keep, so that it holds   *)
(* always.  TCP events implement SocketOps: every step of Tcp starts, ends *)
(* or releases operations as SocketOps allows, or changes nothing that it  *)
(* sees.  TcpInv tells in which states the steps are taken.                *)
(***************************************************************************)
EXTENDS TcpProofs

-----------------------------------------------------------------------------
(* nanoev_loop_run().                                                       *)

\* A step that changes no structure, and removes no context.
LEMMA SameEvents ==
  ASSUME TcpInv, QueuesSound', UNCHANGED <<ev, backend>>, lpc' = "gone" <=> lpc = "gone",
         \A e \in Events : Queued(e)' = Queued(e) /\ Faked(e)' \subseteq Faked(e)
  PROVE  TcpInv'
<1>1. ASSUME NEW e \in Events PROVE TcpSound(ev[e], Queued(e), Faked(e))'
  <2>1. TcpSound(ev[e], Queued(e), Faked(e))
    BY DEF TcpInv
  <2>2. \A f : f \subseteq Faked(e) => TcpSound(ev[e], Queued(e), f)
    BY <2>1 DEF TcpSound, SocketSound
  <2>3. TcpSound(ev'[e], Queued(e)', Faked(e)')
    BY <2>2
  <2> QED BY <2>3, SoundDepends
<1> QED BY <1>1 DEF TcpInv

\* The steps between the phases of a turn
LEMMA TurnInv ==
  ASSUME TcpInv, RunStart \/ PollFails \/ BatchDone
  PROVE  TcpInv'
<1>1. /\ UNCHANGED <<ev, fake, batch, backend>> /\ lpc' \in {"user", "timers"}
      /\ batch = <<>> /\ lpc # "gone"
  BY DEF RunStart, PollFails, BatchDone, TcpInv, QueuesSound
<1>2. QueuesSound' /\ \A e \in Events : Queued(e)' = Queued(e) /\ Faked(e)' = Faked(e)
  BY <1>1, QueuesStay, FakedStays DEF TcpInv
<1> QED BY <1>1, <1>2, SameEvents

\* poller_poll() that returns what is queued
LEMMA PollQueueInv ==
  ASSUME TcpInv, PollQueue
  PROVE  TcpInv'
<1>1. QueuesSound' /\ \A e \in Events : Queued(e)' = Queued(e)
  BY QueuesPoll DEF TcpInv
<1>2. UNCHANGED <<ev, backend>> /\ lpc # "gone" /\ lpc' # "gone"
  BY DEF PollQueue
<1>3. \A e \in Events : Faked(e)' \subseteq Faked(e)
  <2>1. \A e, dir : Has(fake', e, dir) => Has(fake, e, dir)
    BY QueuesPoll DEF TcpInv
  <2> QED BY <2>1 DEF Faked
<1> QED BY <1>1, <1>2, <1>3, SameEvents

\* __process_endgame_proactor()
LEMMA ProcessEndgameInv ==
  ASSUME TcpInv, ProcessEndgame
  PROVE  TcpInv'
<1>1. /\ lpc = "timers" /\ lpc' = "poll" /\ UNCHANGED <<fake, batch, backend>> /\ batch = <<>>
  BY DEF ProcessEndgame, TcpInv, QueuesSound
<1>2. QueuesSound' /\ \A e \in Events : Queued(e)' = Queued(e) /\ Faked(e)' = Faked(e)
  BY <1>1, QueuesStay, FakedStays DEF TcpInv
<1>3. ASSUME NEW e \in Events PROVE TcpSound(ev'[e], Queued(e), Faked(e))
  <2> DEFINE w == Released(ev[e])
  <2>1. /\ ev[e] \in Tcps /\ Spelled(ev[e], Queued(e), Faked(e))
        /\ Queued(e) \in SUBSET Directions /\ Faked(e) \subseteq Queued(e)
    BY TcpIs
  <2>2. \/ ev'[e] = ev[e]
        \/ ev[e].mem = "live" /\ "deleted" \in ev[e].flags /\ ev'[e] = w
    BY DEF ProcessEndgame
  <2>3. CASE ev'[e] = ev[e]
    BY <2>1, <2>3, SpelledOut
  <2>4. CASE ev[e].mem = "live" /\ "deleted" \in ev[e].flags /\ ev'[e] = w
    <3>1. ev[e].timeout_read = "none" /\ ev[e].timeout_write = "none"
      BY <2>1, <2>4 DEF Spelled, CallbacksSpelled, Kept, Tcps
    <3>2. w \in Tcps /\ Spelled(w, Queued(e), Faked(e))
      BY <1>1, <2>1, <2>4, <3>1, ReleasedSound
    <3> QED BY <2>1, <2>4, <3>2, SpelledOut
  <2> QED BY <2>2, <2>3, <2>4
<1>4. ASSUME NEW e \in Events PROVE TcpSound(ev[e], Queued(e), Faked(e))'
  <2>1. TcpSound(ev'[e], Queued(e)', Faked(e)')
    BY <1>2, <1>3
  <2> QED BY <1>1, <2>1, SoundDepends
<1>5. ev' \in [Events -> Tcps]
  <2>1. \A e \in Events : ev'[e] \in Tcps
    BY <1>3 DEF TcpSound
  <2>2. DOMAIN ev' = Events /\ ev' = [e \in Events |-> ev'[e]]
    BY DEF ProcessEndgame
  <2> QED BY <2>1, <2>2
<1> QED BY <1>2, <1>4, <1>5 DEF TcpInv

\* reactor_cb() returns the contexts of operations that are pending, and leaves the
\* socket that it has accepted.
LEMMA ReadySound ==
  ASSUME NEW t \in Tcps, Spelled(t, {}, {}), Reactor, lpc # "gone",
         NEW q \in SUBSET Directions, \A dir \in q : Flag(dir) \in t.flags,
         NEW w, \/ w = t
                \/ /\ "listening" \in t.flags /\ q # {}
                   /\ \E b \in BOOLEAN : w = [t EXCEPT !.socket_accept = b]
  PROVE  TcpSound(w, q, {})
<1>1. /\ "read" \in q => "reading" \in t.flags
      /\ "write" \in q => "writing" \in t.flags
  BY DEF Flag
<1>2. /\ AccountedSpelled(t, {}) /\ CallbacksSpelled(t) /\ SocketSpelled(t, {}, {})
      /\ PollSpelled(t, {})
  BY DEF Spelled
<1>3. ~t.socket_accept
  BY <1>2 DEF SocketSpelled
<1>4. /\ w \in Tcps /\ w.mem = t.mem /\ w.open = t.open /\ w.flags = t.flags
      /\ w.cbs = t.cbs /\ w.reactor_events = t.reactor_events /\ w.kernel = t.kernel
      /\ w.timeout_read = t.timeout_read /\ w.timeout_write = t.timeout_write
      /\ w.socket_accept => "listening" \in t.flags /\ q # {}
  <2>1. CASE w = t
    BY <1>3, <2>1
  <2>2. ASSUME "listening" \in t.flags, q # {}, NEW b \in BOOLEAN,
               w = [t EXCEPT !.socket_accept = b]
        PROVE  /\ w \in Tcps /\ w.mem = t.mem /\ w.open = t.open /\ w.flags = t.flags
               /\ w.cbs = t.cbs /\ w.reactor_events = t.reactor_events
               /\ w.kernel = t.kernel /\ w.timeout_read = t.timeout_read
               /\ w.timeout_write = t.timeout_write
    BY <2>2 DEF Tcps
  <2> QED BY <2>1, <2>2
<1>5. w.socket_accept => "listening" \in t.flags /\ "read" \in q
  <2>1. "listening" \in t.flags => "writing" \notin t.flags
    BY <1>2 DEF CallbacksSpelled
  <2>2. q # {} => "read" \in q \/ "write" \in q
    BY DEF Directions
  <2> QED BY <1>1, <1>4, <2>1, <2>2
<1>6. AccountedSpelled(w, q)
  BY <1>1, <1>2, <1>4 DEF AccountedSpelled
<1>7. CallbacksSpelled(w)
  BY <1>2, <1>4 DEF CallbacksSpelled, Kept
<1>8. SocketSpelled(w, q, {})
  BY <1>2, <1>4, <1>5 DEF SocketSpelled, Sane, Kept
<1>9. PollSpelled(w, q)
  BY <1>2, <1>4 DEF PollSpelled, Sane, Kept
<1> QED BY <1>4, <1>6, <1>7, <1>8, <1>9, SpelledOut DEF Spelled

\* poller_poll() that finds sockets ready
LEMMA PollReadyInv ==
  ASSUME TcpInv, PollReady
  PROVE  TcpInv'
<1>1. /\ lpc = "poll" /\ lpc' = "dispatch" /\ fake = <<>> /\ UNCHANGED <<fake, backend>>
      /\ batch' \in IF Reactor THEN Reports(ReactorCb) ELSE {<<>>}
      /\ ReactorCb \in SUBSET Context
  BY DEF PollReady, ReactorCb
<1>2. /\ QueuesSound'
      /\ \A e \in Events : Queued(e) = {}
      /\ \A e \in Events : \A dir \in Queued(e)' : Reactor /\ \E c \in ReactorCb : Is(c, e, dir)
  BY <1>1, QueuesReport, Zenon DEF TcpInv
<1>3. \A e \in Events : Faked(e) = {} /\ Faked(e)' = {}
  <2>1. \A e, dir : ~Has(fake, e, dir)
    BY <1>1 DEF Has
  <2> QED BY <1>1, <2>1 DEF Faked
<1>4. ASSUME NEW e \in Events
      PROVE  \/ ev'[e] = ev[e]
             \/ /\ "listening" \in ev[e].flags /\ Queued(e)' # {}
                /\ \E b \in BOOLEAN : ev'[e] = [ev[e] EXCEPT !.socket_accept = b]
  <2>1. \/ ev'[e] = ev[e]
        \/ /\ "listening" \in ev[e].flags
           /\ \E i \in DOMAIN batch' : batch'[i].event = e
           /\ \E b \in BOOLEAN : ev'[e] = [ev[e] EXCEPT !.socket_accept = b]
    <3> DEFINE ready == \E i \in DOMAIN batch' : batch'[i].event = e
               new == \E i \in DOMAIN batch' : batch'[i].event = e /\ batch'[i].ok
    <3>1. ev'[e] = IF "listening" \in ev[e].flags /\ ready
                     THEN [ev[e] EXCEPT !.socket_accept = new] ELSE ev[e]
      BY DEF PollReady
    <3>2. new \in BOOLEAN
      OBVIOUS
    <3> HIDE DEF new
    <3> QED BY <3>1, <3>2
  <2>2. ASSUME NEW i \in DOMAIN batch', batch'[i].event = e PROVE Queued(e)' # {}
    <3>1. batch' \in Seq(Context)
      BY <1>2 DEF QueuesSound
    <3>2. i \in 1 .. Len(batch') /\ batch'[i] \in Context
      BY <2>2, <3>1
    <3>3. batch'[i].dir \in Directions
      BY <3>2 DEF Context
    <3>4. Has(batch', e, batch'[i].dir)
      BY <2>2, <3>2, SMTT(30) DEF Has, Is
    <3>5. batch'[i].dir \in Queued(e)'
      BY <3>3, <3>4, SMTT(30) DEF Queued
    <3> QED BY <3>5
  <2> QED BY <2>1, <2>2, ZenonT(30)
<1>5. ASSUME NEW e \in Events PROVE TcpSound(ev'[e], Queued(e)', Faked(e)')
  <2>1. ev[e] \in Tcps /\ Spelled(ev[e], {}, {}) /\ TcpSound(ev[e], {}, {})
    BY <1>2, <1>3, TcpIs DEF TcpInv
  <2>2. Queued(e)' \in SUBSET Directions
    BY DEF Queued
  <2>3. CASE Queued(e)' = {}
    BY <1>3, <1>4, <2>1, <2>3
  <2>4. CASE Queued(e)' # {}
    <3>1. Reactor
      BY <1>2, <2>4
    <3>2. \A dir \in Queued(e)' : Flag(dir) \in ev[e].flags
      BY <1>2 DEF ReactorCb, Is
    <3> QED BY <1>1, <1>3, <1>4, <2>1, <2>2, <3>1, <3>2, ReadySound, ZenonT(30)
  <2> QED BY <2>3, <2>4
<1>6. ASSUME NEW e \in Events PROVE TcpSound(ev[e], Queued(e), Faked(e))'
  BY <1>1, <1>5, SoundDepends
<1>7. ev' \in [Events -> Tcps]
  <2>1. \A e \in Events : ev'[e] \in Tcps
    BY <1>5, SMTT(30) DEF TcpSound
  <2>2. DOMAIN ev' = Events /\ ev' = [e \in Events |-> ev'[e]]
    BY DEF PollReady
  <2> QED BY <2>1, <2>2
<1> QED BY <1>2, <1>6, <1>7 DEF TcpInv

\* Windows completes an operation in flight.
LEMMA KernelDoneInv ==
  ASSUME TcpInv, NEW e \in Events, NEW dir \in Directions, KernelDone(e, dir)
  PROVE  TcpInv'
<1> DEFINE t == ev[e]
           w == [t EXCEPT !.kernel = @ \ {dir}]
<1>1. /\ ~Reactor /\ lpc # "gone" /\ dir \in t.kernel
      /\ ev' = [ev EXCEPT ![e] = w] /\ UNCHANGED <<batch, lpc, backend>>
  BY DEF KernelDone
<1>2. PICK ok \in BOOLEAN : fake' = Append(fake, [event |-> e, dir |-> dir, ok |-> ok])
  BY Zenon DEF KernelDone
<1> DEFINE c == [event |-> e, dir |-> dir, ok |-> ok]
<1>3. c \in Context /\ c.event = e /\ c.dir = dir /\ fake' = Append(fake, c)
  BY <1>2 DEF Context
<1>4. t \in Tcps /\ Spelled(t, Queued(e), Faked(e)) /\ Queued(e) \in SUBSET Directions
  BY TcpIs
<1>5. dir \notin Queued(e)
  BY <1>1 DEF TcpInv, TcpSound, Accounted
<1> HIDE DEF c
<1>6. /\ QueuesSound'
      /\ \A x \in Events : Queued(x)' = IF x = e THEN Queued(x) \cup {dir} ELSE Queued(x)
      /\ \A x \in Events : Faked(x)' = IF x = e THEN Faked(x) \cup {dir} ELSE Faked(x)
  BY <1>1, <1>3, <1>5, QueuesGrow, FakedGrows DEF TcpInv
<1> HIDE DEF t
<1>7. /\ w \in Tcps /\ w.mem = t.mem /\ w.open = t.open /\ w.flags = t.flags
      /\ w.cbs = t.cbs /\ w.reactor_events = t.reactor_events
      /\ w.kernel = t.kernel \ {dir}
      /\ w.timeout_read = t.timeout_read /\ w.timeout_write = t.timeout_write
      /\ w.socket_accept = t.socket_accept
  BY <1>4 DEF Tcps
<1> HIDE DEF w
<1>8. Spelled(w, Queued(e) \cup {dir}, Faked(e) \cup {dir})
  <2>1. /\ AccountedSpelled(t, Queued(e)) /\ CallbacksSpelled(t)
        /\ SocketSpelled(t, Queued(e), Faked(e)) /\ PollSpelled(t, Queued(e))
    BY <1>4 DEF Spelled
  <2>2. dir = "read" \/ dir = "write"
    BY DEF Directions
  <2>3. AccountedSpelled(w, Queued(e) \cup {dir})
    BY <1>1, <1>7, <2>1, <2>2, SMTT(30) DEF AccountedSpelled
  <2>4. CallbacksSpelled(w)
    BY <1>7, <2>1 DEF CallbacksSpelled, Kept
  <2>5. SocketSpelled(w, Queued(e) \cup {dir}, Faked(e) \cup {dir})
    BY <1>1, <1>7, <2>1, <2>2, SMTT(30) DEF SocketSpelled, Sane, Kept
  <2>6. PollSpelled(w, Queued(e) \cup {dir})
    BY <1>1, <1>7, <2>1, <2>2 DEF PollSpelled, Sane, Kept
  <2> QED BY <2>3, <2>4, <2>5, <2>6 DEF Spelled
<1>9. TcpSound(w, Queued(e) \cup {dir}, Faked(e) \cup {dir})
  BY <1>4, <1>7, <1>8, SpelledOut
<1> QED BY <1>1, <1>6, <1>9, OneEvent, Zenon

\* After nanoev_loop_free() a structure that is not allocated is sound.
LEMMA GoneSound ==
  ASSUME backend' = backend, lpc' = "gone", NEW v \in Tcps, v.mem # "live", ~v.open,
         "reading" \notin v.flags, "writing" \notin v.flags, Reactor => v.kernel = {},
         v.mem = "none" => v.cbs = {} /\ "deleted" \notin v.flags,
         ~("connected" \in v.flags /\ "listening" \in v.flags),
         v.timeout_read = "none", v.timeout_write = "none",
         ~Reactor => "write" \notin v.reactor_events,
         v.socket_accept => "listening" \in v.flags
  PROVE  TcpSound(v, {}, {})'
<1>1. Reactor' = Reactor
  BY DEF Reactor
<1>2. Accounted(v, {})'
  BY <1>1 DEF Accounted, Flag, Directions, Tcps
<1>3. CallbacksSound(v)'
  BY DEF CallbacksSound
<1>4. SocketSound(v, {}, {})'
  BY <1>1 DEF SocketSound, Sane, Kept
<1>5. PollSound(v, {})'
  BY DEF PollSound, Sane, Kept
<1> QED BY <1>2, <1>3, <1>4, <1>5 DEF TcpSound

\* nanoev_loop_free()
LEMMA LoopFreeInv ==
  ASSUME TcpInv, LoopFree
  PROVE  TcpInv'
<1>1. QueuesSound' /\ \A e \in Events : Queued(e)' = {}
  BY QueuesGone DEF TcpInv
<1>2. lpc = "user" /\ lpc' = "gone" /\ backend' = backend /\ fake' = <<>>
  BY DEF LoopFree
<1>3. \A e \in Events : Faked(e)' = {}
  BY <1>2 DEF Faked, Has
<1>4. ASSUME NEW e \in Events
      PROVE  /\ ev'[e] \in Tcps /\ ev'[e].mem # "live" /\ ~ev'[e].open
             /\ "reading" \notin ev'[e].flags /\ "writing" \notin ev'[e].flags
             /\ Reactor => ev'[e].kernel = {}
             /\ ev'[e].mem = "none" => ev'[e].cbs = {} /\ "deleted" \notin ev'[e].flags
             /\ ~("connected" \in ev'[e].flags /\ "listening" \in ev'[e].flags)
             /\ ev'[e].timeout_read = "none" /\ ev'[e].timeout_write = "none"
             /\ ~Reactor => "write" \notin ev'[e].reactor_events
             /\ ev'[e].socket_accept => "listening" \in ev'[e].flags
  <2> DEFINE o == ev[e]
  <2>1. /\ o \in Tcps /\ Accounted(o, Queued(e)) /\ CallbacksSound(o)
        /\ SocketSound(o, Queued(e), Faked(e)) /\ ~Kept(o)
    BY DEF TcpInv, TcpSound, LoopFree, Usable, Kept
  <2>2. /\ ~("connected" \in o.flags /\ "listening" \in o.flags)
        /\ o.timeout_read = "none" /\ o.timeout_write = "none"
        /\ ~Reactor => "write" \notin o.reactor_events
        /\ o.socket_accept => "listening" \in o.flags
        /\ o.mem = "none" => o.cbs = {} /\ "deleted" \notin o.flags
    BY <2>1 DEF CallbacksSound, SocketSound
  <2>3. CASE o.mem # "live"
    <3>1. ev'[e] = o
      BY <2>3 DEF LoopFree
    <3>2. /\ "reading" \notin o.flags /\ "writing" \notin o.flags /\ ~o.open
          /\ Reactor => o.kernel = {}
      BY <2>1, <2>3 DEF Accounted
    <3>3. o \in Tcps
      BY <2>1
    <3> HIDE DEF o
    <3> QED BY <2>2, <2>3, <3>1, <3>2, <3>3, ZenonT(30)
  <2>4. CASE o.mem = "live"
    <3> DEFINE t == [o EXCEPT !.flags = @ \ {"deleted", "reading", "writing"}]
               w == Released(t)
    <3>1. ev'[e] = w
      BY <2>4 DEF LoopFree
    <3>2. /\ t \in Tcps /\ t.flags = o.flags \ {"deleted", "reading", "writing"}
          /\ t.timeout_read = o.timeout_read /\ t.timeout_write = o.timeout_write
          /\ t.reactor_events = o.reactor_events /\ t.socket_accept = o.socket_accept
      BY <2>1 DEF Tcps
    <3> HIDE DEF t, o
    <3>3. /\ w \in Tcps /\ ~w.open /\ w.reactor_events = t.reactor_events
          /\ w.kernel = (IF Reactor THEN {} ELSE t.kernel)
          /\ w.mem = "freed" /\ w.flags = t.flags
          /\ w.timeout_read = t.timeout_read /\ w.timeout_write = t.timeout_write
          /\ w.socket_accept = t.socket_accept
      BY <3>2, ReleasedIs
    <3> HIDE DEF w
    <3> QED BY <2>2, <3>1, <3>2, <3>3
  <2> QED BY <2>3, <2>4
<1>5. ASSUME NEW e \in Events PROVE TcpSound(ev[e], Queued(e), Faked(e))'
  <2>1. \A v : v = ev'[e] => TcpSound(v, {}, {})'
    BY <1>2, <1>4, GoneSound
  <2> QED BY <1>1, <1>3, <2>1
<1>6. ev' \in [Events -> Tcps]
  <2>1. DOMAIN ev' = Events /\ ev' = [e \in Events |-> ev'[e]]
    BY DEF LoopFree
  <2> QED BY <1>4, <2>1
<1> QED BY <1>1, <1>5, <1>6 DEF TcpInv

-----------------------------------------------------------------------------
(* The theorems.                                                            *)

\* Every step of the library keeps the invariant.
LEMMA NextInv ==
  ASSUME "iocp" \notin TimerFails, TcpInv, [Next]_vars
  PROVE  TcpInv'
<1>1. ASSUME NEW e \in Events, Application(e) PROVE TcpInv'
  <2>1. ASSUME NEW timed \in Timed,
               \/ Connect(e, timed) \/ Accept(e, timed) \/ Write(e, timed)
               \/ ReadNow(e, timed) \/ Read(e, timed)
        PROVE  TcpInv'
    <3>1. timed \in BOOLEAN
      BY <2>1, TimedAssumption
    <3> QED BY <2>1, <3>1, ConnectInv, AcceptInv, WriteInv, ReadNowInv, ReadInv, SMTT(30)
  <2> QED BY <1>1, <2>1, NewInv, ConnectNowInv, ListenInv, OpenFailsInv, AcceptNowInv,
             WriteNowInv, CallFailsInv, FreeInv, SMTT(30) DEF Application
<1>2. ASSUME NEW e \in Events, TimeoutRead(e) \/ TimeoutWrite(e) PROVE TcpInv'
  BY <1>2, TimeoutReadInv, TimeoutWriteInv
<1>3. ASSUME NEW e \in Events, Completion(e) PROVE TcpInv'
  BY <1>3, ReadDoneInv, WriteDoneInv, AcceptDoneInv, ConnectDoneInv DEF Completion
<1>4. ASSUME NEW e \in Events, NEW dir \in Directions, KernelDone(e, dir) PROVE TcpInv'
  BY <1>4, KernelDoneInv
<1>5. CASE RunStart \/ PollFails \/ BatchDone
  BY <1>5, TurnInv
<1>6. CASE PollQueue \/ PollReady
  BY <1>6, PollQueueInv, PollReadyInv
<1>7. CASE ProcessEndgame \/ LoopFree
  BY <1>7, ProcessEndgameInv, LoopFreeInv
<1>8. CASE UNCHANGED vars
  <2>1. UNCHANGED <<ev, fake, batch, lpc, backend>>
    BY <1>8, SMTT(30) DEF vars
  <2>2. QueuesSound' /\ \A e \in Events : Queued(e)' = Queued(e) /\ Faked(e)' = Faked(e)
    BY <2>1 DEF TcpInv, QueuesSound, Queued, Faked
  <2> QED BY <2>1, <2>2, SameEvents
<1> QED BY <1>1, <1>2, <1>3, <1>4, <1>5, <1>6, <1>7, <1>8, SMTT(30) DEF Next, Poll

LEMMA InitInv == Init => TcpInv
<1> SUFFICES ASSUME Init PROVE TcpInv
  OBVIOUS
<1>1. /\ ev = [e \in Events |-> Unused] /\ fake = <<>> /\ batch = <<>> /\ lpc = "user"
      /\ backend \in Backends
  BY DEF Init, InitWith
<1>2. fake \in Seq(Context) /\ batch \in Seq(Context)
  BY <1>1
<1>3. /\ Len(fake) = 0 /\ Len(batch) = 0
      /\ \A e, dir : ~Has(fake, e, dir) /\ ~Has(batch, e, dir)
  BY <1>1 DEF Has
<1>4. QueuesSound
  BY <1>1, <1>2, <1>3 DEF QueuesSound, Single, Apart
<1>5. \A e \in Events : Queued(e) = {} /\ Faked(e) = {}
  BY <1>3 DEF Queued, Faked
<1>6. TcpSound(Unused, {}, {})
  <2>1. Spelled(Unused, {}, {})
    BY UnusedIs
       DEF Spelled, AccountedSpelled, CallbacksSpelled, SocketSpelled, PollSpelled, Kept,
       Sane
  <2> QED BY <2>1, UnusedIs, SpelledOut, SMTT(30)
<1> QED BY <1>1, <1>4, <1>5, <1>6, UnusedIs, Zenon DEF TcpInv

\* The inductive invariant holds always.
THEOREM TcpInvariance == "iocp" \notin TimerFails /\ Spec => []TcpInv
<1> SUFFICES ASSUME "iocp" \notin TimerFails PROVE Spec => []TcpInv
  OBVIOUS
<1>1. TcpInv /\ [Next]_vars => TcpInv'
  BY NextInv
<1> QED BY InitInv, <1>1, PTL DEF Spec

LEMMA TcpIsSafe ==
  ASSUME TcpInv
  PROVE  /\ NothingDangles /\ ContextIsPending /\ AcceptedSocketHasOwner
         /\ ~CtlFails => InterestMatchesWrite /\ PendingCanComplete
<1>1. PointersAreLive /\ ContextIsPending
  BY AccountedIsSafe DEF TcpInv, TcpSound
<1>2. ASSUME NEW e \in Events
      PROVE  /\ ev[e] \in Tcps /\ CallbacksSound(ev[e]) /\ PollSound(ev[e], Queued(e))
             /\ SocketSound(ev[e], Queued(e), Faked(e))
             /\ \A dir \in Directions : Coming(e, dir) <=> dir \in Queued(e)
  BY ContextsAre DEF TcpInv, TcpSound
<1>3. NothingDangles
  BY <1>1, <1>2 DEF NothingDangles, CallbacksSound, Kept
<1>4. AcceptedSocketHasOwner
  BY <1>2 DEF AcceptedSocketHasOwner, SocketSound, Directions
<1>5. ASSUME ~CtlFails PROVE InterestMatchesWrite
  BY <1>2, <1>5 DEF InterestMatchesWrite, PollSound, SocketSound, Usable, Sane, Kept
<1>6. ASSUME ~CtlFails PROVE PendingCanComplete
  BY <1>2, <1>6 DEF PendingCanComplete, PollSound, Usable, Sane, Kept
<1> QED BY <1>1, <1>3, <1>4, <1>5, <1>6

\* No pointer of the library or of the kernel to a TCP event outlives it, nor a
\* timer of it.
THEOREM TcpNothingDangles == "iocp" \notin TimerFails /\ Spec => []NothingDangles
<1>1. TcpInv => NothingDangles
  BY TcpIsSafe
<1> QED BY <1>1, TcpInvariance, PTL

\* A context of a TCP event stands for the one operation that is pending in its
\* direction: what tcp_proactor_callback() is given is never stale.
THEOREM TcpContextIsPending == "iocp" \notin TimerFails /\ Spec => []ContextIsPending
<1>1. TcpInv => ContextIsPending
  BY TcpIsSafe
<1> QED BY <1>1, TcpInvariance, PTL

\* An accepted socket is passed on or closed by a completion that is on its way.
THEOREM TcpAcceptedSocketHasOwner ==
  "iocp" \notin TimerFails /\ Spec => []AcceptedSocketHasOwner
<1>1. TcpInv => AcceptedSocketHasOwner
  BY TcpIsSafe
<1> QED BY <1>1, TcpInvariance, PTL

\* Where no registration fails, the ASSERTs on reactor_events of nanoev_tcp_connect()
\* and nanoev_tcp_write() hold.
THEOREM TcpInterestMatchesWrite ==
  "iocp" \notin TimerFails /\ ~CtlFails /\ Spec => []InterestMatchesWrite
<1>1. TcpInv => (~CtlFails => InterestMatchesWrite)
  BY TcpIsSafe
<1> SUFFICES ASSUME ~CtlFails PROVE "iocp" \notin TimerFails /\ Spec => []InterestMatchesWrite
  OBVIOUS
<1>2. TcpInv => InterestMatchesWrite
  BY <1>1
<1> QED BY <1>2, TcpInvariance, PTL

\* Where no registration fails, nothing is pending on a TCP event without error that
\* only a timeout can end.
THEOREM TcpPendingCanComplete ==
  "iocp" \notin TimerFails /\ ~CtlFails /\ Spec => []PendingCanComplete
<1>1. TcpInv => (~CtlFails => PendingCanComplete)
  BY TcpIsSafe
<1> SUFFICES ASSUME ~CtlFails PROVE "iocp" \notin TimerFails /\ Spec => []PendingCanComplete
  OBVIOUS
<1>2. TcpInv => PendingCanComplete
  BY <1>1
<1> QED BY <1>2, TcpInvariance, PTL

-----------------------------------------------------------------------------
(* The refinement of SocketOps.                                             *)

\* An operation of TCP is started: no other is pending in its direction.
LEMMA StartOps ==
  ASSUME TcpInv, NEW e \in Events, NEW op, MayRead(ev[e], op) \/ MayWrite(ev[e], op),
         NEW w, w.mem = ev[e].mem, "deleted" \in w.flags <=> "deleted" \in ev[e].flags,
         w.cbs = ev[e].cbs \cup {op}, ev' = [ev EXCEPT ![e] = w], called' = {}
  PROVE  Ops!Next
<1>1. DOMAIN ev = Events /\ ev[e] \in Tcps /\ CallbacksSpelled(ev[e])
  BY TcpIs DEF TcpInv, Spelled
<1>2. ev[e].mem = "live" /\ "deleted" \notin ev[e].flags
  BY DEF MayRead, MayWrite, Sane, Kept
<1>3. ~IsFreed(ev[e]) /\ ~IsFreed(w)
  BY <1>2 DEF IsFreed
<1>4. \E kind : /\ kind = Inbound \/ kind = Outbound
                /\ op \in kind /\ ev[e].cbs \cap kind = {}
  <2>1. MayRead(ev[e], op) => op \in Inbound /\ ev[e].cbs \cap Inbound = {}
    BY <1>1, <1>2 DEF MayRead, CallbacksSpelled, Inbound
  <2>2. MayWrite(ev[e], op) => op \in Outbound /\ ev[e].cbs \cap Outbound = {}
    BY <1>1, <1>2 DEF MayWrite, CallbacksSpelled, Outbound
  <2> QED BY <2>1, <2>2, Zenon
<1> QED BY <1>1, <1>3, <1>4, OpsStart, Zenon

\* A call that starts no operation
LEMMA KeepOps ==
  ASSUME TcpInv, NEW e \in Events, NEW w, ev' = [ev EXCEPT ![e] = w], called' = {},
         w.mem = ev[e].mem, "deleted" \in w.flags <=> "deleted" \in ev[e].flags,
         w.cbs = ev[e].cbs
  PROVE  Ops!Next
<1>1. DOMAIN ev = Events
  BY DEF TcpInv
<1>2. IsFreed(w) <=> IsFreed(ev[e])
  BY DEF IsFreed
<1> QED BY <1>1, <1>2, OpsKeep, Zenon

\* Connecting, writing, accepting and reading
LEMMA StartingOps ==
  ASSUME TcpInv, NEW e \in Events, NEW timed \in BOOLEAN,
         \/ ConnectNow(e) \/ Connect(e, timed) \/ WriteNow(e) \/ Write(e, timed)
         \/ AcceptNow(e) \/ Accept(e, timed) \/ ReadNow(e, timed) \/ Read(e, timed)
  PROVE  Ops!Next
<1> DEFINE t == ev[e]
<1>1. /\ t \in Tcps /\ CallbacksSpelled(t) /\ backend \in Backends
      /\ "read" \in Directions /\ "write" \in Directions
  BY TcpIs DEF Spelled, Directions
<1>2. ASSUME NEW dir \in Directions, MayUse(e, "connected", Flag(dir))
      PROVE  LET o == Waiting(t, dir) IN
             o \in Tcps /\ o.mem = t.mem /\ o.flags = t.flags /\ o.cbs = t.cbs
  <2>1. Reactor => t.kernel = t.reactor_events
    BY <1>2, MayUseIs, TcpIs
  <2> QED BY <1>1, <2>1, WaitingIs, SMTT(30)
<1>3. ASSUME NEW o \in Tcps, o.mem = t.mem, o.flags = t.flags, o.cbs = t.cbs, NEW b, NEW op,
             MayWrite(t, op), ev' = [ev EXCEPT ![e] = StartWrite(o, op, b)], called' = {}
      PROVE  Ops!Next
  <2> DEFINE w == StartWrite(o, op, b)
  <2>1. op \in Outbound
    BY <1>3 DEF MayWrite, Outbound
  <2>2. w.mem = o.mem /\ w.flags = o.flags \cup {"writing"} /\ w.cbs = o.cbs \cup {op}
    BY <2>1, StartWriteIs
  <2>3. ev' = [ev EXCEPT ![e] = w] /\ called' = {}
    BY <1>3
  <2> HIDE DEF w
  <2> QED BY <1>3, <2>2, <2>3, StartOps, Zenon
<1>4. ASSUME NEW o \in Tcps, o.mem = t.mem, o.flags = t.flags, o.cbs = t.cbs, NEW b, NEW op,
             MayRead(t, op), ev' = [ev EXCEPT ![e] = StartRead(o, op, b)], called' = {}
      PROVE  Ops!Next
  <2> DEFINE w == StartRead(o, op, b)
  <2>1. op \in Inbound
    BY <1>4 DEF MayRead, Inbound
  <2>2. w.mem = o.mem /\ w.flags = o.flags \cup {"reading"} /\ w.cbs = o.cbs \cup {op}
    BY <2>1, StartReadIs
  <2>3. ev' = [ev EXCEPT ![e] = w] /\ called' = {}
    BY <1>4
  <2> HIDE DEF w
  <2> QED BY <1>4, <2>2, <2>3, StartOps, Zenon
<1>5. CASE ConnectNow(e) \/ Connect(e, timed)
  <2> DEFINE p == ToConnect(t)
             o == Waiting(p, "write")
  <2>1. NoSocket(e) /\ called' = {}
    BY <1>5, Zenon DEF ConnectNow, Connect, Call, CallDone
  <2>2. \/ ev' = [ev EXCEPT ![e] = StartWrite(p, "connect", FALSE)]
        \/ ev' = [ev EXCEPT ![e] = StartWrite(o, "connect", timed)]
    BY <1>5, ZenonT(30) DEF ConnectNow, Connect, Call, CallDone
  <2>3. /\ MayWrite(t, "connect") /\ SocketOf(p, t) /\ p.kernel = {}
        /\ p.reactor_events = (IF Reactor THEN {} ELSE {"read"})
    BY <2>1, NoSocketIs
  <2>4. p \in Tcps /\ p.mem = t.mem /\ p.flags = t.flags /\ p.cbs = t.cbs
        /\ (Reactor => p.kernel = p.reactor_events)
    BY <2>3 DEF SocketOf
  <2> HIDE DEF p
  <2>5. o \in Tcps /\ o.mem = t.mem /\ o.flags = t.flags /\ o.cbs = t.cbs
    BY <1>1, <2>4, WaitingIs
  <2> HIDE DEF o, t
  <2> QED BY <1>3, <2>1, <2>2, <2>3, <2>4, <2>5, Zenon
<1>6. CASE WriteNow(e) \/ Write(e, timed)
  <2> DEFINE o == Waiting(t, "write")
  <2>1. MayUse(e, "connected", "writing") /\ called' = {}
    BY <1>6, Zenon DEF WriteNow, Write, Call, CallDone
  <2>2. \/ ev' = [ev EXCEPT ![e] = StartWrite(t, "write", FALSE)]
        \/ ev' = [ev EXCEPT ![e] = StartWrite(o, "write", timed)]
    BY <1>6, Zenon DEF WriteNow, Write, Call, CallDone
  <2>3. MayWrite(t, "write")
    BY <1>1, <2>1, MayUseIs DEF MayWrite, CallbacksSpelled
  <2>4. o \in Tcps /\ o.mem = t.mem /\ o.flags = t.flags /\ o.cbs = t.cbs
    BY <1>1, <1>2, <2>1, SMTT(30) DEF Flag
  <2> HIDE DEF o, t
  <2> QED BY <1>1, <1>3, <2>1, <2>2, <2>3, <2>4, ZenonT(30)
<1>7. CASE AcceptNow(e) \/ Accept(e, timed)
  <2> DEFINE x == [t EXCEPT !.socket_accept = TRUE]
             p == Waiting(t, "read")
             o == [p EXCEPT !.socket_accept = ~Reactor]
  <2>1. MayUse(e, "listening", "reading") /\ called' = {}
    BY <1>7, Zenon DEF AcceptNow, Accept, Call, CallDone
  <2>2. \/ ev' = [ev EXCEPT ![e] = StartRead(x, "accept", FALSE)]
        \/ ev' = [ev EXCEPT ![e] = StartRead(o, "accept", timed)]
    BY <1>7, Zenon DEF AcceptNow, Accept, Call, CallDone
  <2>3. MayRead(t, "accept")
    BY <2>1, MayUseIs DEF MayRead
  <2>4. x \in Tcps /\ x.mem = t.mem /\ x.flags = t.flags /\ x.cbs = t.cbs
    BY <1>1, Zenon DEF Tcps
  <2>5. p \in Tcps /\ p.mem = t.mem /\ p.flags = t.flags /\ p.cbs = t.cbs
    BY <2>3, WaitReadIs DEF MayRead, SocketOf
  <2> HIDE DEF p, x
  <2>6. o \in Tcps /\ o.mem = p.mem /\ o.flags = p.flags /\ o.cbs = p.cbs
    BY <2>5, ZenonT(30) DEF Tcps, Reactor
  <2> HIDE DEF o, t
  <2> QED BY <1>4, <2>1, <2>2, <2>3, <2>4, <2>5, <2>6, ZenonT(30)
<1>8. CASE ReadNow(e, timed) \/ Read(e, timed)
  <2> DEFINE o == Waiting(t, "read")
  <2>1. MayUse(e, "connected", "reading") /\ called' = {}
    BY <1>8 DEF ReadNow, Read, Call, CallDone
  <2>2. \/ ev' = [ev EXCEPT ![e] = StartRead(t, "read", timed)]
        \/ ev' = [ev EXCEPT ![e] = StartRead(o, "read", timed)]
    BY <1>8, SMTT(30) DEF ReadNow, Read, Call, CallDone
  <2>3. MayRead(t, "read")
    BY <2>1, MayUseIs, SMTT(30) DEF MayRead
  <2>4. o \in Tcps /\ o.mem = t.mem /\ o.flags = t.flags /\ o.cbs = t.cbs
    BY <1>1, <1>2, <2>1, SMTT(30) DEF Flag
  <2> HIDE DEF o, t
  <2> QED BY <1>1, <1>4, <2>1, <2>2, <2>3, <2>4, SMTT(30)
<1> QED BY <1>5, <1>6, <1>7, <1>8

\* Calls that fail
LEMMA FailingOps ==
  ASSUME TcpInv, NEW e \in Events, OpenFails(e) \/ CallFails(e)
  PROVE  Ops!Next
<1> DEFINE t == ev[e]
           p == ToConnect(t)
<1>1. t \in Tcps /\ backend \in Backends /\ "write" \in Directions
  BY TcpIs DEF Directions
<1>2. ASSUME NEW o, SocketOf(o, t), Call(e, SetError(o)) PROVE Ops!Next
  <2> DEFINE w == SetError(o)
  <2>1. w.mem = o.mem /\ w.flags = o.flags \cup {"error"} /\ w.cbs = o.cbs
    BY <1>2 DEF SocketOf, SetError, Tcps
  <2>2. ev' = [ev EXCEPT ![e] = w] /\ called' = {}
    BY <1>2 DEF Call
  <2> HIDE DEF w
  <2> QED BY <1>2, <2>1, <2>2, KeepOps, ZenonT(30) DEF SocketOf
<1>3. SocketOf(t, t)
  BY <1>1 DEF SocketOf
<1>4. ASSUME NEW o \in Tcps, SocketOf(o, t), Reactor => o.kernel = o.reactor_events,
             NEW dir \in Directions
      PROVE  SocketOf(Waiting(o, dir), t)
  BY <1>1, <1>4, WaitingIs DEF SocketOf
<1>5. CASE OpenFails(e)
  <2>1. PICK o \in {t, Opened(t), Registered(Opened(t), {"read"})}
                     \cup (IF backend \in TimerFails THEN {Waiting(p, "write")} ELSE {}) :
          Call(e, SetError(o))
    BY <1>5 DEF OpenFails
  <2>2. /\ Kept(t) /\ ~t.open /\ t.kernel = {} /\ t.reactor_events = {}
        /\ SocketOf(p, t) /\ p.kernel = {}
        /\ p.reactor_events = (IF Reactor THEN {} ELSE {"read"})
    BY <1>5, NoSocketIs DEF OpenFails, Sane
  <2>3. p \in Tcps /\ (Reactor => p.kernel = p.reactor_events)
    BY <2>2 DEF SocketOf
  <2> HIDE DEF p
  <2>4. SocketOf(Waiting(p, "write"), t)
    BY <1>1, <1>4, <2>2, <2>3, Zenon
  <2>5. SocketOf(Opened(t), t)
    BY <1>1, Zenon DEF SocketOf, Opened, Tcps
  <2>6. SocketOf(Registered(Opened(t), {"read"}), t)
    BY <1>1, <2>2, ToRegisterIs DEF SocketOf
  <2> HIDE DEF t
  <2> QED BY <1>2, <1>3, <2>1, <2>4, <2>5, <2>6, SMTT(30)
<1>6. CASE CallFails(e)
  <2>1. PICK o : /\ o = t \/ \E dir \in Directions : o = Waiting(t, dir)
                 /\ Call(e, SetError(o))
    BY <1>6 DEF CallFails
  <2>2. Reactor => t.kernel = t.reactor_events
    BY <1>6, TcpIs DEF CallFails, Usable, Kept
  <2>3. SocketOf(o, t)
    BY <1>1, <1>3, <1>4, <2>1, <2>2
  <2> QED BY <1>2, <2>1, <2>3
<1> QED BY <1>5, <1>6

\* What an application calls
LEMMA ApplicationOps ==
  ASSUME TcpInv, NEW e \in Events, Application(e)
  PROVE  Ops!Next
<1> DEFINE t == ev[e]
<1>1. DOMAIN ev = Events /\ t \in Tcps /\ backend \in Backends /\ CallbacksSpelled(t)
  BY TcpIs DEF TcpInv, Spelled
<1>2. CASE New(e)
  <2> DEFINE w == [Unused EXCEPT !.mem = "live"]
  <2>1. ev' = [ev EXCEPT ![e] = w] /\ called' = {} /\ t.mem = "none"
    BY <1>2 DEF New, Call
  <2>2. w.cbs = {} /\ w.mem = "live" /\ w.flags = {}
    BY DEF Unused
  <2>3. t.cbs = {} /\ "deleted" \notin t.flags
    BY <2>1 DEF TcpInv, TcpSound, CallbacksSound
  <2> HIDE DEF w
  <2> QED BY <1>1, <2>1, <2>2, <2>3, OpsKeep, Zenon DEF IsFreed
<1>3. CASE Listen(e)
  <2> DEFINE r == Registered(Opened(t), {"read"})
             w == [r EXCEPT !.flags = @ \cup {"listening"}]
  <2>1. ev' = [ev EXCEPT ![e] = w] /\ called' = {} /\ NoSocket(e)
    BY <1>3 DEF Listen, Call
  <2>2. SocketOf(r, t)
    <3>1. ~t.open /\ t.kernel = {} /\ t.reactor_events = {}
      BY <2>1, NoSocketIs
    <3> QED BY <1>1, <3>1, ToRegisterIs DEF SocketOf
  <2> HIDE DEF r
  <2>3. w.mem = t.mem /\ w.flags = t.flags \cup {"listening"} /\ w.cbs = t.cbs
    BY <2>2 DEF SocketOf, Tcps
  <2> HIDE DEF w
  <2> QED BY <2>1, <2>3, KeepOps, Zenon
<1>4. CASE Free(e)
  <2> DEFINE u == [t EXCEPT !.timeout_read = "none", !.timeout_write = "none"]
             w == Released(u)
  <2>1. ev' = [ev EXCEPT ![e] = w] /\ called' = {} /\ ~IsFreed(t)
    BY <1>4 DEF Free, Freed, Call, Usable, IsFreed
  <2>2. u \in Tcps /\ u.cbs = t.cbs
    BY <1>1, Zenon DEF Tcps
  <2> HIDE DEF u
  <2>3. w.cbs = u.cbs /\ IsFreed(w)
    BY <2>2, ReleasedIs DEF IsFreed
  <2> HIDE DEF w
  <2> QED BY <1>1, <2>1, <2>2, <2>3, OpsFree, Zenon
<1>5. CASE OpenFails(e) \/ CallFails(e)
  BY <1>5, FailingOps
<1>6. CASE ConnectNow(e) \/ AcceptNow(e) \/ WriteNow(e)
  BY <1>6, StartingOps, ZenonT(30)
<1>7. ASSUME NEW timed \in Timed,
             \/ Connect(e, timed) \/ Accept(e, timed) \/ Write(e, timed)
             \/ ReadNow(e, timed) \/ Read(e, timed)
      PROVE  Ops!Next
  <2>1. timed \in BOOLEAN
    BY TimedAssumption, SMTT(30)
  <2> QED BY <1>7, <2>1, StartingOps
<1> QED BY <1>2, <1>3, <1>4, <1>5, <1>6, <1>7 DEF Application

\* An operation ends: its callback is made unless the event has been freed, or no
\* callback is left because the operation has timed out.  A client c may be made.
LEMMA EndOps ==
  ASSUME TcpInv, NEW e \in Events, NEW op \in Inbound \cup Outbound, ev[e].mem = "live",
         NEW w, w.mem = ev[e].mem, w.cbs = ev[e].cbs \ {op},
         "deleted" \in w.flags <=> "deleted" \in ev[e].flags,
         \/ ev' = [ev EXCEPT ![e] = w]
         \/ \E c \in Events : ev[c].mem = "none" /\ ev' = [ev EXCEPT ![e] = w, ![c] = Client],
         called' = IF op \in ev[e].cbs THEN CallTo(e, op) ELSE {}
  PROVE  Ops!Next
<1>1. DOMAIN ev = Events /\ backend \in Backends
  BY TcpIs, SMTT(30) DEF TcpInv
<1>2. IsFreed(w) <=> IsFreed(ev[e])
  BY DEF IsFreed
<1>3. ASSUME NEW c \in Events, ev[c].mem = "none"
      PROVE  ev[c].cbs = {} /\ Client.cbs = {} /\ ~IsFreed(ev[c]) /\ ~IsFreed(Client)
  <2>1. ev[c].cbs = {} /\ "deleted" \notin ev[c].flags
    BY <1>3 DEF TcpInv, TcpSound, CallbacksSound
  <2>2. Client.cbs = {} /\ Client.mem = "live" /\ Client.flags = {"connected"}
    BY <1>1, ClientIs
  <2> QED BY <1>3, <2>1, <2>2, SMTT(30) DEF IsFreed
<1>4. /\ ev'[e].cbs = ev[e].cbs \ {op}
      /\ \A x \in Events : x # e => ev'[x].cbs = ev[x].cbs
      /\ \A x \in Events : IsFreed(ev'[x]) <=> IsFreed(ev[x])
  <2>1. CASE ev' = [ev EXCEPT ![e] = w]
    BY <1>1, <1>2, <2>1, SMTT(30)
  <2>2. ASSUME NEW c \in Events, ev[c].mem = "none",
               ev' = [ev EXCEPT ![e] = w, ![c] = Client]
        PROVE  /\ ev'[e].cbs = ev[e].cbs \ {op}
               /\ \A x \in Events : x # e => ev'[x].cbs = ev[x].cbs
               /\ \A x \in Events : IsFreed(ev'[x]) <=> IsFreed(ev[x])
    BY <1>1, <1>2, <1>3, <2>2, ZenonT(30)
  <2> QED BY <2>1, <2>2, SMTT(30)
<1>5. CASE op \in ev[e].cbs
  BY <1>4, <1>5, OpsDone, Zenon
<1>6. CASE op \notin ev[e].cbs
  BY <1>4, <1>6, OpsQuiet, Zenon
<1> QED BY <1>5, <1>6

\* tcp_proactor_callback()
LEMMA CompletionOps ==
  ASSUME TcpInv, NEW e \in Events, Completion(e)
  PROVE  Ops!Next
<1>1. /\ {"read", "accept", "write", "connect"} = Inbound \cup Outbound
      /\ "read" \in Directions /\ "write" \in Directions
  BY DEF Inbound, Outbound, Directions
<1>2. CASE ReadDone(e)
  <2>1. called' = IF "read" \in ev[e].cbs THEN CallTo(e, "read") ELSE {}
    BY <1>2, ReadDoneIs, Zenon DEF ReadDone, Answer
  <2>2. ev[e].mem = "live"
    BY <1>1, <1>2, ReadDoneIs, DispatchIs, ZenonT(30)
  <2>3. PICK w : /\ w.mem = ev[e].mem /\ w.cbs = ev[e].cbs \ {"read"}
                 /\ "deleted" \in w.flags <=> "deleted" \in ev[e].flags
                 /\ ev' = [ev EXCEPT ![e] = w]
    BY <1>2, ReadDoneIs, Zenon
  <2> QED BY <1>1, <2>1, <2>2, <2>3, EndOps, ZenonT(30)
<1>3. CASE WriteDone(e)
  <2>1. called' = IF "write" \in ev[e].cbs THEN CallTo(e, "write") ELSE {}
    BY <1>3, WriteDoneIs, ZenonT(30) DEF WriteDone, Answer
  <2>2. ev[e].mem = "live"
    BY <1>1, <1>3, WriteDoneIs, DispatchIs, ZenonT(30)
  <2>3. PICK w : /\ w.mem = ev[e].mem /\ w.cbs = ev[e].cbs \ {"write"}
                 /\ "deleted" \in w.flags <=> "deleted" \in ev[e].flags
                 /\ ev' = [ev EXCEPT ![e] = w]
    BY <1>3, WriteDoneIs, ZenonT(30)
  <2> QED BY <1>1, <2>1, <2>2, <2>3, EndOps, ZenonT(30)
<1>4. CASE AcceptDone(e)
  <2>1. called' = IF "accept" \in ev[e].cbs THEN CallTo(e, "accept") ELSE {}
    BY <1>4, AcceptDoneIs, ZenonT(30) DEF AcceptDone, Answer
  <2>2. ev[e].mem = "live"
    BY <1>1, <1>4, AcceptDoneIs, DispatchIs, ZenonT(30)
  <2>3. PICK w : /\ w.mem = ev[e].mem /\ w.cbs = ev[e].cbs \ {"accept"}
                 /\ "deleted" \in w.flags <=> "deleted" \in ev[e].flags
                 /\ \/ ev' = [ev EXCEPT ![e] = w]
                    \/ \E c \in Events : /\ ev[c].mem = "none"
                                         /\ ev' = [ev EXCEPT ![e] = w, ![c] = Client]
    BY <1>4, AcceptDoneIs, ZenonT(30)
  <2> QED BY <1>1, <2>1, <2>2, <2>3, EndOps, SMTT(30)
<1>5. CASE ConnectDone(e)
  <2>1. called' = IF "connect" \in ev[e].cbs THEN CallTo(e, "connect") ELSE {}
    BY <1>5, ConnectDoneIs, ZenonT(30) DEF ConnectDone, Answer
  <2>2. ev[e].mem = "live"
    BY <1>1, <1>5, ConnectDoneIs, DispatchIs, ZenonT(30)
  <2>3. PICK w : /\ w.mem = ev[e].mem /\ w.cbs = ev[e].cbs \ {"connect"}
                 /\ "deleted" \in w.flags <=> "deleted" \in ev[e].flags
                 /\ ev' = [ev EXCEPT ![e] = w]
    BY <1>5, ConnectDoneIs, ZenonT(30)
  <2> QED BY <1>1, <2>1, <2>2, <2>3, EndOps, ZenonT(30)
<1> QED BY <1>2, <1>3, <1>4, <1>5 DEF Completion

\* Timeouts
LEMMA TimeoutOps ==
  ASSUME TcpInv, NEW e \in Events, TimeoutRead(e) \/ TimeoutWrite(e)
  PROVE  Ops!Next
<1> DEFINE o == ev[e]
<1>1. o \in Tcps /\ backend \in Backends
  BY TcpIs
<1>2. ASSUME NEW op \in Inbound \cup Outbound, op \in o.cbs, Kept(o), NEW v \in Tcps,
             v.flags = o.flags, NEW u \in Tcps, u.mem = o.mem, u.cbs = o.cbs \ {op},
             "deleted" \notin u.flags,
             ev' = [ev EXCEPT ![e] = TimedOut(v, u)], called' = CallTo(e, op)
      PROVE  Ops!Next
  <2> DEFINE w == TimedOut(v, u)
  <2>1. /\ w.mem = u.mem /\ w.cbs = u.cbs
        /\ Reactor => w.flags = u.flags \cup {"error"}
        /\ ~Reactor => w.flags = v.flags \cup {"error"}
    BY TimedOutIs
  <2>2. ev' = [ev EXCEPT ![e] = w]
    BY <1>2
  <2> HIDE DEF w
  <2>3. w.mem = "live" /\ o.mem = "live" /\ "deleted" \notin w.flags /\ "deleted" \notin o.flags
    BY <1>2, <2>1 DEF Kept
  <2>4. called' = (IF op \in ev[e].cbs THEN CallTo(e, op) ELSE {}) /\ w.cbs = ev[e].cbs \ {op}
    BY <1>2, <2>1
  <2> QED BY <2>2, <2>3, <2>4, EndOps, Zenon
<1>3. CASE TimeoutRead(e)
  <2> DEFINE op == o.timeout_read
             t  == [o EXCEPT !.timeout_read = "none"]
             u  == EndRead(t, op)
  <2>1. /\ op = "read" \/ op = "accept"
        /\ op \in o.cbs /\ Kept(o)
        /\ ev' = [ev EXCEPT ![e] = TimedOut(t, u)] /\ called' = CallTo(e, op)
    BY <1>3, TimeoutReadIs
  <2>2. t \in Tcps /\ t.mem = o.mem /\ t.flags = o.flags /\ t.cbs = o.cbs
    BY <1>1 DEF Tcps
  <2> HIDE DEF t
  <2>3. u \in Tcps /\ u.mem = t.mem /\ u.flags = t.flags \ {"reading"} /\ u.cbs = t.cbs \ {op}
    BY <2>2, EndReadIs
  <2>4. op \in Inbound \cup Outbound
    BY <2>1 DEF Inbound
  <2> HIDE DEF u, op
  <2> QED BY <1>2, <2>1, <2>2, <2>3, <2>4, Zenon DEF Kept
<1>4. CASE TimeoutWrite(e)
  <2> DEFINE op == o.timeout_write
             t  == [o EXCEPT !.timeout_write = "none"]
             r  == t.reactor_events \ {"write"}
  <2>1. /\ op = "write" \/ op = "connect"
        /\ op \in o.cbs /\ Kept(o) /\ called' = CallTo(e, op)
        /\ \E v \in AfterRegister(t, r) :
             ev' = [ev EXCEPT ![e] = TimedOut(v, EndWrite(v, op))]
    BY <1>4, TimeoutWriteIs
  <2>2. /\ t \in Tcps /\ t.mem = o.mem /\ t.flags = o.flags /\ t.cbs = o.cbs
        /\ t.kernel = o.kernel /\ t.reactor_events = o.reactor_events /\ t.open = o.open
    BY <1>1 DEF Tcps
  <2>3. r \in SUBSET Directions
    BY <2>2 DEF Tcps
  <2>4. /\ Reactor /\ o.open => o.kernel = o.reactor_events
        /\ Reactor /\ ~o.open => o.kernel = {}
    BY TcpIs DEF TcpInv, TcpSound, Accounted
  <2>5. op \in Inbound \cup Outbound
    BY <2>1 DEF Outbound
  <2> HIDE DEF t, r
  <2>6. PICK v \in AfterRegister(t, r) : ev' = [ev EXCEPT ![e] = TimedOut(v, EndWrite(v, op))]
    BY <2>1, ZenonT(30)
  <2>7. SocketOf(v, t)
    BY <1>1, <2>2, <2>3, <2>4, AfterRegisterIs, SMTT(30)
  <2>8. v \in Tcps /\ v.mem = o.mem /\ v.flags = o.flags /\ v.cbs = o.cbs
    BY <2>2, <2>7 DEF SocketOf
  <2> DEFINE u == EndWrite(v, op)
  <2>9. u \in Tcps /\ u.mem = v.mem /\ u.flags = v.flags \ {"writing"} /\ u.cbs = v.cbs \ {op}
    BY <2>8, EndWriteIs
  <2>10. ev' = [ev EXCEPT ![e] = TimedOut(v, u)]
    BY <2>6
  <2> HIDE DEF u, op
  <2> QED BY <1>2, <2>1, <2>5, <2>8, <2>9, <2>10, Zenon DEF Kept
<1> QED BY <1>3, <1>4

\* The loop and Windows
LEMMA LoopOps ==
  ASSUME TcpInv,
         \/ \E e \in Events, dir \in Directions : KernelDone(e, dir)
         \/ RunStart \/ ProcessEndgame \/ PollQueue \/ PollReady \/ PollFails
         \/ BatchDone \/ LoopFree
  PROVE  Ops!Next
<1>1. DOMAIN ev = Events /\ \A e \in Events : ev[e] \in Tcps
  BY DEF TcpInv
<1>2. ASSUME NEW e \in Events, NEW dir \in Directions, KernelDone(e, dir) PROVE Ops!Next
  <2> DEFINE w == [ev[e] EXCEPT !.kernel = @ \ {dir}]
  <2>1. ev' = [ev EXCEPT ![e] = w] /\ called' = {}
    BY <1>2 DEF KernelDone
  <2>2. w.cbs = ev[e].cbs /\ w.mem = ev[e].mem /\ w.flags = ev[e].flags
    BY <1>1 DEF Tcps
  <2> HIDE DEF w
  <2> QED BY <2>1, <2>2, KeepOps, Zenon
<1>3. CASE RunStart \/ PollQueue \/ PollFails \/ BatchDone
  BY <1>3, OpsSame DEF RunStart, PollQueue, PollFails, BatchDone
<1>4. CASE PollReady
  <2>1. ASSUME NEW e \in Events
        PROVE  ev'[e].cbs = ev[e].cbs /\ (IsFreed(ev'[e]) <=> IsFreed(ev[e]))
    <3>1. \/ ev'[e] = ev[e]
          \/ \E b : ev'[e] = [ev[e] EXCEPT !.socket_accept = b]
      BY <1>4, Zenon DEF PollReady
    <3>2. ASSUME NEW b
          PROVE  LET w == [ev[e] EXCEPT !.socket_accept = b] IN
                 w.cbs = ev[e].cbs /\ w.mem = ev[e].mem /\ w.flags = ev[e].flags
      BY <1>1, SMTT(30) DEF Tcps
    <3> QED BY <3>1, <3>2, Zenon DEF IsFreed
  <2> QED BY <1>4, <2>1, OpsQuiet DEF PollReady
<1>5. CASE ProcessEndgame
  <2>1. ASSUME NEW e \in Events
        PROVE  ev'[e].cbs = ev[e].cbs /\ (IsFreed(ev'[e]) <=> IsFreed(ev[e]))
    <3>1. \/ ev'[e] = ev[e]
          \/ "deleted" \in ev[e].flags /\ ev'[e] = Released(ev[e])
      BY <1>5, SMTT(30) DEF ProcessEndgame
    <3> QED BY <1>1, <3>1, ReleasedIs, SMTT(30) DEF IsFreed
  <2> QED BY <1>5, <2>1, OpsQuiet, SMTT(30) DEF ProcessEndgame
<1>6. CASE LoopFree
  <2>1. ASSUME NEW e \in Events
        PROVE  ev'[e].cbs = ev[e].cbs /\ (IsFreed(ev'[e]) <=> IsFreed(ev[e]))
    <3> DEFINE t == [ev[e] EXCEPT !.flags = @ \ {"deleted", "reading", "writing"}]
    <3>1. CASE ev[e].mem # "live"
      BY <1>6, <3>1 DEF LoopFree
    <3>2. CASE ev[e].mem = "live"
      <4>1. "deleted" \in ev[e].flags /\ ev'[e] = Released(t)
        BY <1>6, <3>2, SMTT(30) DEF LoopFree, Usable
      <4>2. t \in Tcps /\ t.cbs = ev[e].cbs /\ "reading" \notin t.flags /\ "writing" \notin t.flags
        BY <1>1 DEF Tcps
      <4> HIDE DEF t
      <4> QED BY <4>1, <4>2, ReleasedIs, SMTT(30) DEF IsFreed
    <3> QED BY <3>1, <3>2, SMTT(30)
  <2> QED BY <1>6, <2>1, OpsQuiet, SMTT(30) DEF LoopFree
<1> QED BY <1>2, <1>3, <1>4, <1>5, <1>6

\* TCP events keep the promises of SocketOps: an operation that was started gets at
\* most one callback, whether from its completion or its timeout, at most one is
\* pending per direction, and an event that was freed is not called.
THEOREM TcpImplementsSocketOps == "iocp" \notin TimerFails /\ Spec => ImplementsSocketOps
<1> SUFFICES ASSUME "iocp" \notin TimerFails PROVE Spec => Ops!Spec
  BY DEF ImplementsSocketOps
<1>1. Init => Ops!Init
  <2> SUFFICES ASSUME Init PROVE Ops!Init
    OBVIOUS
  <2>1. ev = [e \in Events |-> Unused] /\ called = {}
    BY DEF Init, InitWith
  <2>2. Unused.cbs = {} /\ Unused.mem = "none" /\ Unused.flags = {}
    BY DEF Unused
  <2> QED BY <2>1, <2>2 DEF Ops!Init
<1>2. TcpInv /\ [Next]_vars => [Ops!Next]_Ops!vars
  <2> SUFFICES ASSUME TcpInv, [Next]_vars PROVE [Ops!Next]_Ops!vars
    OBVIOUS
  <2>1. CASE UNCHANGED vars
    BY <2>1 DEF vars, Ops!vars
  <2>2. CASE Next
    BY <2>2, ApplicationOps, TimeoutOps, CompletionOps, LoopOps DEF Next, Poll
  <2> QED BY <2>1, <2>2, SMTT(30)
<1>3. Spec => []TcpInv
  BY TcpInvariance
<1> QED BY <1>1, <1>2, <1>3, PTL DEF Spec, Ops!Spec
=============================================================================

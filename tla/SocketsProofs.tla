---------------------------- MODULE SocketsProofs ----------------------------
(***************************************************************************)
(* What the loop and the pollers do to the contexts on their way, for TCP  *)
(* and UDP alike: the lemmas on which UdpProofs and TcpProofs rest.        *)
(***************************************************************************)
EXTENDS Sockets, TLAPS

Is(c, e, dir) == c.event = e /\ c.dir = dir

\* A context of e in this direction is in the sequence.
Has(s, e, dir) == \E i \in 1 .. Len(s) : Is(s[i], e, dir)

\* No context is twice in the sequence; none is in both sequences.
Single(s) ==
  \A i, j \in 1 .. Len(s) : s[i].event = s[j].event /\ s[i].dir = s[j].dir => i = j
Apart(s, t) ==
  \A e \in Events, dir \in Directions : ~(Has(s, e, dir) /\ Has(t, e, dir))

\* The directions for which a context of e is on its way
Queued(e) == {dir \in Directions : Has(fake, e, dir) \/ Has(batch, e, dir)}

\* The contexts on their way, and where the loop is while it processes a batch.
QueuesSound ==
  /\ fake \in Seq(Context) /\ batch \in Seq(Context)
  /\ Single(fake) /\ Single(batch) /\ Apart(fake, batch)
  /\ lpc \in {"user", "timers", "poll", "dispatch", "gone", "aborted"}
  /\ batch # <<>> => lpc \in {"dispatch", "aborted"}
  /\ lpc = "gone" => fake = <<>>
  /\ backend \in Backends

\* What holds of the structure t of an event when contexts are on their way for
\* the directions queued: such a context and, on iocp, an operation in flight are
\* accounted for by a flag, a flag keeps the structure allocated, and only an open
\* socket is known to the kernel.
Accounted(t, queued) ==
  /\ t.kernel \subseteq Directions
  /\ \A dir \in queued : Flag(dir) \in t.flags
  /\ t.flags \cap {"reading", "writing"} # {} => t.mem = "live"
  /\ ~Reactor /\ lpc # "gone" =>
       \A dir \in t.kernel : Flag(dir) \in t.flags /\ dir \notin queued
  /\ Reactor /\ ~t.open => t.kernel = {}
  /\ t.mem # "live" => ~t.open

-----------------------------------------------------------------------------
(* Sequences of contexts.                                                   *)

\* A context is appended.
LEMMA AppendHas ==
  ASSUME NEW s \in Seq(Context), NEW c \in Context
  PROVE  LET r == Append(s, c) IN
         /\ r \in Seq(Context)
         /\ \A e, dir : Has(r, e, dir) <=> Has(s, e, dir) \/ Is(c, e, dir)
         /\ Single(s) /\ ~Has(s, c.event, c.dir) => Single(r)
<1> DEFINE r == Append(s, c)
<1>1. /\ r \in Seq(Context) /\ Len(s) \in Nat /\ Len(r) = Len(s) + 1
      /\ \A i \in 1 .. Len(s) : r[i] = s[i]
      /\ r[Len(s) + 1] = c
  OBVIOUS
<1>2. \A i \in 1 .. Len(r) : i \in 1 .. Len(s) \/ i = Len(s) + 1
  BY <1>1
<1> HIDE DEF r
<1>3. ASSUME NEW e, NEW dir PROVE Has(r, e, dir) <=> Has(s, e, dir) \/ Is(c, e, dir)
  <2>1. ASSUME Has(r, e, dir) PROVE Has(s, e, dir) \/ Is(c, e, dir)
    BY <1>1, <1>2, <2>1 DEF Has, Is
  <2>2. ASSUME Has(s, e, dir) PROVE Has(r, e, dir)
    BY <1>1, <2>2 DEF Has, Is
  <2>3. ASSUME Is(c, e, dir) PROVE Has(r, e, dir)
    <3>1. Len(s) + 1 \in 1 .. Len(r)
      BY <1>1
    <3> QED BY <1>1, <2>3, <3>1 DEF Has, Is
  <2> QED BY <2>1, <2>2, <2>3
<1>4. ASSUME Single(s), ~Has(s, c.event, c.dir) PROVE Single(r)
  BY <1>1, <1>2, <1>4 DEF Single, Has, Is
<1> QED BY <1>1, <1>3, <1>4 DEF r

\* The first context is taken off.
LEMMA TailHas ==
  ASSUME NEW s \in Seq(Context), s # <<>>
  PROVE  /\ Head(s) \in Context /\ Tail(s) \in Seq(Context)
         /\ Has(s, Head(s).event, Head(s).dir)
         /\ \A e, dir : Has(Tail(s), e, dir) => Has(s, e, dir)
         /\ \A e, dir : Has(s, e, dir) => Has(Tail(s), e, dir) \/ Is(Head(s), e, dir)
         /\ Single(s) => Single(Tail(s)) /\ ~Has(Tail(s), Head(s).event, Head(s).dir)
<1> DEFINE h == Head(s)
           r == Tail(s)
<1>1. /\ h \in Context /\ r \in Seq(Context) /\ Len(s) \in Nat \ {0} /\ Len(r) = Len(s) - 1
      /\ \A i \in 1 .. Len(r) : r[i] = s[i + 1]
      /\ h = s[1]
  OBVIOUS
<1>2. /\ 1 \in 1 .. Len(s)
      /\ \A i \in 1 .. Len(r) : i + 1 \in 1 .. Len(s) /\ i + 1 # 1
      /\ \A i \in 1 .. Len(s) : i = 1 \/ (i - 1 \in 1 .. Len(r) /\ s[i] = r[i - 1])
  BY <1>1
<1> HIDE DEF h, r
<1>3. Has(s, h.event, h.dir)
  BY <1>1, <1>2 DEF Has, Is
<1>4. ASSUME NEW e, NEW dir, Has(r, e, dir) PROVE Has(s, e, dir)
  BY <1>1, <1>2, <1>4 DEF Has, Is
<1>5. ASSUME NEW e, NEW dir, Has(s, e, dir) PROVE Has(r, e, dir) \/ Is(h, e, dir)
  BY <1>1, <1>2, <1>5, Zenon DEF Has, Is
<1>6. ASSUME Single(s) PROVE Single(r)
  <2> SUFFICES ASSUME NEW i \in 1 .. Len(r), NEW j \in 1 .. Len(r),
                      r[i].event = r[j].event, r[i].dir = r[j].dir
               PROVE  i = j
    BY DEF Single
  <2>1. i + 1 = j + 1
    BY <1>1, <1>2, <1>6 DEF Single
  <2> QED BY <2>1
<1>7. ASSUME Single(s) PROVE ~Has(r, h.event, h.dir)
  BY <1>1, <1>2, <1>7 DEF Single, Has, Is
<1> QED BY <1>1, <1>3, <1>4, <1>5, <1>6, <1>7 DEF h, r

\* A sequence is cut in two.
LEMMA CutHas ==
  ASSUME NEW s \in Seq(Context), NEW n \in 1 .. Len(s)
  PROVE  LET a == SubSeq(s, 1, n)
             b == SubSeq(s, n + 1, Len(s))
         IN /\ a \in Seq(Context) /\ b \in Seq(Context)
            /\ \A e, dir : Has(s, e, dir) <=> Has(a, e, dir) \/ Has(b, e, dir)
            /\ Single(s) => Single(a) /\ Single(b) /\ Apart(b, a)
<1> DEFINE a == SubSeq(s, 1, n)
           b == SubSeq(s, n + 1, Len(s))
<1>1. Len(s) \in Nat /\ n \in Nat /\ 1 <= n /\ n <= Len(s)
  OBVIOUS
<1>2. /\ a \in Seq(Context) /\ Len(a) = n
      /\ \A i \in 1 .. n : a[i] = s[i]
  <2>1. \A i \in 1 .. n : s[i] \in Context
    BY <1>1
  <2> QED BY <1>1, <2>1
<1>3. /\ b \in Seq(Context) /\ Len(b) = Len(s) - n
      /\ \A i \in 1 .. Len(s) - n : b[i] = s[n + i]
  <2>1. \A i \in n + 1 .. Len(s) : s[i] \in Context
    BY <1>1
  <2> QED BY <1>1, <2>1
<1> HIDE DEF a, b
<1>4. /\ \A i \in 1 .. Len(a) : i \in 1 .. Len(s) /\ i <= n /\ a[i] = s[i]
      /\ \A i \in 1 .. Len(b) : n + i \in 1 .. Len(s) /\ n + i > n /\ b[i] = s[n + i]
      /\ \A i \in 1 .. Len(s) :
           \/ i \in 1 .. Len(a) /\ a[i] = s[i]
           \/ i - n \in 1 .. Len(b) /\ b[i - n] = s[i]
  BY <1>1, <1>2, <1>3
<1>5. \A e, dir : Has(s, e, dir) <=> Has(a, e, dir) \/ Has(b, e, dir)
  <2> SUFFICES ASSUME NEW e, NEW dir
               PROVE  Has(s, e, dir) <=> Has(a, e, dir) \/ Has(b, e, dir)
    OBVIOUS
  <2>1. ASSUME NEW i \in 1 .. Len(s), Is(s[i], e, dir) PROVE Has(a, e, dir) \/ Has(b, e, dir)
    BY <1>4, <2>1 DEF Has
  <2>2. ASSUME NEW i \in 1 .. Len(a), Is(a[i], e, dir) PROVE Has(s, e, dir)
    BY <1>4, <2>2 DEF Has
  <2>3. ASSUME NEW i \in 1 .. Len(b), Is(b[i], e, dir) PROVE Has(s, e, dir)
    BY <1>4, <2>3 DEF Has
  <2> QED BY <2>1, <2>2, <2>3 DEF Has
<1>6. ASSUME Single(s) PROVE Single(a) /\ Single(b) /\ Apart(b, a)
  <2>1. Single(a)
    BY <1>4, <1>6 DEF Single
  <2>2. Single(b)
    <3> SUFFICES ASSUME NEW i \in 1 .. Len(b), NEW j \in 1 .. Len(b),
                        b[i].event = b[j].event, b[i].dir = b[j].dir
                 PROVE  i = j
      BY DEF Single
    <3>1. /\ n + i \in 1 .. Len(s) /\ n + j \in 1 .. Len(s)
          /\ s[n + i].event = s[n + j].event /\ s[n + i].dir = s[n + j].dir
      BY <1>4, Zenon
    <3>2. n + i = n + j
      BY <1>6, <3>1 DEF Single
    <3> QED BY <1>1, <3>2
  <2>3. Apart(b, a)
    <3> SUFFICES ASSUME NEW i \in 1 .. Len(b), NEW j \in 1 .. Len(a),
                        b[i].event = a[j].event, b[i].dir = a[j].dir
                 PROVE  FALSE
      BY DEF Apart, Has, Is
    <3>1. n + i = j
      BY <1>4, <1>6, Zenon DEF Single
    <3> QED BY <1>1, <1>4, <3>1
  <2> QED BY <2>1, <2>2, <2>3
<1> QED BY <1>2, <1>3, <1>5, <1>6 DEF a, b

\* What the poller of a reactor returns: contexts that reactor_cb() may return,
\* each direction of an event at most once.
LEMMA ReportsHas ==
  ASSUME NEW P \in SUBSET Context, NEW b \in Reports(P)
  PROVE  /\ b \in Seq(Context) /\ Single(b)
         /\ \A e, dir : Has(b, e, dir) => \E c \in P : Is(c, e, dir)
<1>1. PICK n \in 0 .. MaxEvents : b \in [1 .. n -> P]
  BY DEF Reports
<1>2. n \in Nat /\ b \in Seq(Context) /\ Len(b) = n /\ \A i \in 1 .. n : b[i] \in P
  BY <1>1, MaxEventsAssumption
<1>3. \A i, j \in 1 .. n : i < j /\ b[i].event = b[j].event => b[i].dir # b[j].dir
  BY <1>1 DEF Reports
<1>4. Single(b)
  BY <1>2, <1>3 DEF Single
<1>5. \A e, dir : Has(b, e, dir) => \E c \in P : Is(c, e, dir)
  BY <1>2 DEF Has
<1> QED BY <1>2, <1>4, <1>5

-----------------------------------------------------------------------------
(* The steps of the loop that both kinds of sockets share.                  *)

\* Contexts is what is queued and what is in the batch.
LEMMA ContextsAre ==
  ASSUME QueuesSound
  PROVE  /\ Contexts \in Seq(Context) /\ DOMAIN Contexts = 1 .. Len(Contexts)
         /\ \A e \in Events, dir \in Directions : Coming(e, dir) <=> dir \in Queued(e)
         /\ \A i, j \in DOMAIN Contexts :
              Contexts[i].event = Contexts[j].event /\ Contexts[i].dir = Contexts[j].dir => i = j
<1> DEFINE m == Len(fake)
           n == Len(batch)
           s == Contexts
<1>1. /\ fake \in Seq(Context) /\ batch \in Seq(Context)
      /\ Single(fake) /\ Single(batch) /\ Apart(fake, batch)
  BY DEF QueuesSound
<1>2. /\ s \in Seq(Context) /\ Len(s) = m + n
      /\ \A i \in 1 .. m + n : s[i] = IF i <= m THEN fake[i] ELSE batch[i - m]
  BY <1>1 DEF Contexts
<1>3. m \in Nat /\ n \in Nat /\ DOMAIN s = 1 .. m + n
  BY <1>1, <1>2
<1>4. /\ \A i \in 1 .. m : i \in 1 .. m + n /\ s[i] = fake[i]
      /\ \A i \in 1 .. n : m + i \in 1 .. m + n /\ s[m + i] = batch[i]
      /\ \A i \in 1 .. m + n :
           \/ i \in 1 .. m /\ s[i] = fake[i]
           \/ i - m \in 1 .. n /\ s[i] = batch[i - m]
  BY <1>2, <1>3
<1> HIDE DEF m, n, s
<1>5. ASSUME NEW e \in Events, NEW dir \in Directions
      PROVE  Coming(e, dir) <=> dir \in Queued(e)
  <2>1. Coming(e, dir) <=> \E i \in 1 .. m + n : s[i].event = e /\ s[i].dir = dir
    BY <1>3 DEF Coming, s
  <2>2. dir \in Queued(e) <=> (\E i \in 1 .. m : fake[i].event = e /\ fake[i].dir = dir)
                             \/ (\E i \in 1 .. n : batch[i].event = e /\ batch[i].dir = dir)
    BY DEF Queued, Has, Is, m, n
  <2> QED BY <1>4, <2>1, <2>2
<1>6. ASSUME NEW i \in 1 .. m + n, NEW j \in 1 .. m + n,
             s[i].event = s[j].event, s[i].dir = s[j].dir
      PROVE  i = j
  <2>1. CASE i \in 1 .. m /\ s[i] = fake[i] /\ j \in 1 .. m /\ s[j] = fake[j]
    BY <1>1, <1>6, <2>1 DEF Single, m
  <2>2. CASE i - m \in 1 .. n /\ s[i] = batch[i - m] /\ j - m \in 1 .. n /\ s[j] = batch[j - m]
    <3>1. i - m = j - m
      BY <1>1, <1>6, <2>2 DEF Single, n
    <3> QED BY <1>3, <3>1
  <2>3. ASSUME NEW k \in 1 .. m, NEW l \in 1 .. n,
               fake[k].event = batch[l].event, fake[k].dir = batch[l].dir
        PROVE  FALSE
    <3>1. fake[k] \in Context
      BY <1>1 DEF m
    <3>2. fake[k].event \in Events /\ fake[k].dir \in Directions
      BY <3>1 DEF Context
    <3> QED BY <1>1, <2>3, <3>2 DEF Apart, Has, Is, m, n
  <2> QED BY <1>4, <1>6, <2>1, <2>2, <2>3
<1> QED BY <1>2, <1>3, <1>5, <1>6 DEF s

\* A step that leaves the contexts alone.
LEMMA QueuesStay ==
  ASSUME QueuesSound, UNCHANGED <<fake, batch, backend>>,
         lpc' \in {"user", "timers", "poll", "dispatch", "aborted"},
         batch # <<>> => lpc' \in {"dispatch", "aborted"}
  PROVE  QueuesSound' /\ \A e \in Events : Queued(e)' = Queued(e)
BY DEF QueuesSound, Queued

\* A context is queued.
LEMMA QueuesGrow ==
  ASSUME QueuesSound, NEW c \in Context, c.dir \notin Queued(c.event), lpc # "gone",
         fake' = Append(fake, c), UNCHANGED <<batch, lpc, backend>>
  PROVE  /\ QueuesSound'
         /\ \A e \in Events :
              Queued(e)' = IF e = c.event THEN Queued(e) \cup {c.dir} ELSE Queued(e)
<1>0. c.event \in Events /\ c.dir \in Directions
  BY DEF Context
<1>1. /\ fake' \in Seq(Context) /\ Single(fake')
      /\ \A e, dir : Has(fake', e, dir) <=> Has(fake, e, dir) \/ Is(c, e, dir)
  BY <1>0, AppendHas DEF QueuesSound, Queued
<1>2. \A e, dir : Has(batch', e, dir) <=> Has(batch, e, dir)
  OBVIOUS
<1>3. \A e, dir : Is(c, e, dir) => ~Has(batch, e, dir)
  BY <1>0 DEF Is, Queued
<1>4. Apart(fake', batch')
  BY <1>1, <1>2, <1>3 DEF Apart, QueuesSound
<1>5. QueuesSound'
  BY <1>1, <1>4 DEF QueuesSound
<1>6. \A e \in Events :
        Queued(e)' = IF e = c.event THEN Queued(e) \cup {c.dir} ELSE Queued(e)
  BY <1>0, <1>1, <1>2 DEF Queued, Is
<1> QED BY <1>5, <1>6

\* The poller takes contexts off the queue.
LEMMA QueuesPoll ==
  ASSUME QueuesSound, PollQueue
  PROVE  /\ QueuesSound' /\ \A e \in Events : Queued(e)' = Queued(e)
         /\ \A e, dir : Has(fake', e, dir) => Has(fake, e, dir)
<1>1. batch = <<>>
  BY DEF QueuesSound, PollQueue
<1>2. Len(fake) \in Nat \ {0}
  BY DEF QueuesSound, PollQueue
<1>3. PICK n \in 1 .. Len(fake) :
        batch' = SubSeq(fake, 1, n) /\ fake' = SubSeq(fake, n + 1, Len(fake))
  <2>1. {IF Len(fake) > MaxEvents THEN MaxEvents ELSE Len(fake)}
          \cup (IF Reactor THEN {} ELSE {1}) \subseteq 1 .. Len(fake)
    BY <1>2, MaxEventsAssumption
  <2> QED BY <2>1, Zenon DEF PollQueue
<1>4. /\ batch' \in Seq(Context) /\ fake' \in Seq(Context)
      /\ \A e, dir : Has(fake, e, dir) <=> Has(batch', e, dir) \/ Has(fake', e, dir)
      /\ Single(batch') /\ Single(fake') /\ Apart(fake', batch')
  <2>1. fake \in Seq(Context) /\ Single(fake)
    BY DEF QueuesSound
  <2> QED BY <1>3, <2>1, CutHas, Zenon
<1>5. QueuesSound'
  BY <1>4 DEF QueuesSound, PollQueue
<1>6. \A e, dir : ~Has(batch, e, dir)
  BY <1>1 DEF Has
<1> QED BY <1>4, <1>5, <1>6 DEF Queued

\* The poller finds sockets ready; P is what reactor_cb() may return.
LEMMA QueuesReport ==
  ASSUME QueuesSound, lpc = "poll", fake = <<>>, lpc' = "dispatch", UNCHANGED <<fake, backend>>,
         NEW P \in SUBSET Context, batch' \in IF Reactor THEN Reports(P) ELSE {<<>>}
  PROVE  /\ QueuesSound'
         /\ \A e \in Events : Queued(e) = {}
         /\ \A e \in Events : \A dir \in Queued(e)' : Reactor /\ \E c \in P : Is(c, e, dir)
<1>1. batch = <<>>
  BY DEF QueuesSound
<1>2. \A e, dir : ~Has(<<>>, e, dir)
  BY DEF Has
<1>3. /\ batch' \in Seq(Context) /\ Single(batch')
      /\ \A e, dir : Has(batch', e, dir) => Reactor /\ \E c \in P : Is(c, e, dir)
  <2>1. CASE Reactor
    BY <2>1, ReportsHas
  <2>2. CASE ~Reactor
    <3>1. batch' = <<>>
      BY <2>2
    <3>2. batch' \in Seq(Context) /\ Single(batch')
      BY <3>1 DEF Single
    <3> QED BY <1>2, <3>1, <3>2
  <2> QED BY <2>1, <2>2
<1>4. Apart(fake', batch')
  BY <1>2 DEF Apart
<1>5. QueuesSound'
  BY <1>3, <1>4 DEF QueuesSound
<1> QED BY <1>1, <1>2, <1>3, <1>5 DEF Queued

\* The first context of the batch is done with.
LEMMA QueuesShrink ==
  ASSUME QueuesSound, batch # <<>>, batch' = Tail(batch), UNCHANGED <<fake, lpc, backend>>
  PROVE  /\ QueuesSound'
         /\ Head(batch) \in Context
         /\ Head(batch).dir \in Queued(Head(batch).event)
         /\ \A e \in Events : Queued(e)' =
              IF e = Head(batch).event THEN Queued(e) \ {Head(batch).dir} ELSE Queued(e)
<1> DEFINE h == Head(batch)
<1>1. /\ h \in Context /\ batch' \in Seq(Context)
      /\ Has(batch, h.event, h.dir)
      /\ \A e, dir : Has(batch', e, dir) => Has(batch, e, dir)
      /\ \A e, dir : Has(batch, e, dir) => Has(batch', e, dir) \/ Is(h, e, dir)
      /\ Single(batch') /\ ~Has(batch', h.event, h.dir)
  BY TailHas DEF QueuesSound
<1>2. h.event \in Events /\ h.dir \in Directions
  BY <1>1 DEF Context
<1>3. /\ ~Has(fake, h.event, h.dir)
      /\ Apart(fake, batch')
  BY <1>1, <1>2 DEF QueuesSound, Apart
<1>4. QueuesSound'
  BY <1>1, <1>3 DEF QueuesSound
<1> HIDE DEF h
<1>5. \A e \in Events : Queued(e)' = IF e = h.event THEN Queued(e) \ {h.dir} ELSE Queued(e)
  BY <1>1, <1>3 DEF Queued, Is
<1>6. h.dir \in Queued(h.event)
  BY <1>1, <1>2 DEF Queued
<1> QED BY <1>1, <1>4, <1>5, <1>6 DEF h

\* nanoev_loop_free() leaves no context.
LEMMA QueuesGone ==
  ASSUME QueuesSound, LoopFree
  PROVE  QueuesSound' /\ \A e \in Events : Queued(e)' = {}
<1>1. fake' = <<>> /\ batch' = <<>> /\ lpc' = "gone" /\ backend' = backend
  BY DEF LoopFree, QueuesSound
<1>2. fake' \in Seq(Context) /\ Single(fake') /\ \A e, dir : ~Has(fake', e, dir)
  BY <1>1 DEF Single, Has
<1>3. Apart(fake', batch')
  BY <1>2 DEF Apart
<1> QED BY <1>1, <1>2, <1>3 DEF QueuesSound, Queued

-----------------------------------------------------------------------------
\* Contexts and operations in flight that are accounted for keep the structures
\* they point to, and complete the operations that are pending.
LEMMA AccountedIsSafe ==
  ASSUME QueuesSound, \A e \in Events : Accounted(ev[e], Queued(e))
  PROVE  PointersAreLive /\ ContextIsPending
<1>1. /\ Contexts \in Seq(Context) /\ DOMAIN Contexts = 1 .. Len(Contexts)
      /\ \A e \in Events, dir \in Directions : Coming(e, dir) <=> dir \in Queued(e)
      /\ \A i, j \in DOMAIN Contexts :
           Contexts[i].event = Contexts[j].event /\ Contexts[i].dir = Contexts[j].dir => i = j
  BY ContextsAre
<1>2. ASSUME NEW i \in DOMAIN Contexts
      PROVE  /\ Contexts[i].event \in Events
             /\ Flag(Contexts[i].dir) \in ev[Contexts[i].event].flags
             /\ ev[Contexts[i].event].mem = "live"
  <2>1. Contexts[i].event \in Events /\ Contexts[i].dir \in Directions
    <3>1. Contexts[i] \in Context
      BY <1>1, <1>2
    <3> QED BY <3>1 DEF Context
  <2>2. Contexts[i].dir \in Queued(Contexts[i].event)
    BY <1>1, <1>2, <2>1 DEF Coming
  <2>3. Flag(Contexts[i].dir) \in ev[Contexts[i].event].flags
    BY <2>1, <2>2 DEF Accounted
  <2>4. Flag(Contexts[i].dir) \in {"reading", "writing"}
    BY DEF Flag
  <2> QED BY <2>1, <2>3, <2>4 DEF Accounted
<1>3. ASSUME NEW e \in Events, ev[e].mem # "live"
      PROVE  ev[e].kernel = {} \/ (~Reactor /\ lpc = "gone")
  <2>1. \A dir : Flag(dir) \in {"reading", "writing"}
    BY DEF Flag
  <2> QED BY <1>3, <2>1 DEF Accounted
<1>4. PointersAreLive
  BY <1>2, <1>3 DEF PointersAreLive
<1>5. ContextIsPending
  <2>1. ~Reactor /\ lpc # "gone" => \A e \in Events : \A dir \in ev[e].kernel :
          dir \in Directions /\ Flag(dir) \in ev[e].flags /\ dir \notin Queued(e)
    BY DEF Accounted
  <2> QED BY <1>1, <1>2, <2>1 DEF ContextIsPending
<1> QED BY <1>4, <1>5

-----------------------------------------------------------------------------
(* The steps of SocketOps that an event's change is.                        *)

IsFreed(u) == u.mem = "freed" \/ "deleted" \in u.flags

\* The structure of e alone changes, to w.
LEMMA OpsOne ==
  ASSUME DOMAIN ev = Events, NEW e \in Events, NEW w, ev' = [ev EXCEPT ![e] = w]
  PROVE  /\ [x \in Events |-> ev[x].cbs]' = [[x \in Events |-> ev[x].cbs] EXCEPT ![e] = w.cbs]
         /\ \A x \in Events : x # e => ev'[x] = ev[x]
         /\ ev'[e] = w
BY Zenon

\* No callback is made, and no operation starts or ends.
LEMMA OpsQuiet ==
  ASSUME called' = {}, \A x \in Events : ev'[x].cbs = ev[x].cbs,
         \A x \in Events : IsFreed(ev'[x]) <=> IsFreed(ev[x])
  PROVE  Ops!Next
<1>1. [x \in Events |-> ev[x].cbs]' = [x \in Events |-> ev[x].cbs]
  OBVIOUS
<1>2. {x \in Events : ev[x].mem = "freed" \/ "deleted" \in ev[x].flags}'
        = {x \in Events : ev[x].mem = "freed" \/ "deleted" \in ev[x].flags}
  BY DEF IsFreed
<1>3. Ops!Quiet
  BY <1>1, <1>2 DEF Ops!Quiet
<1> QED BY <1>3 DEF Ops!Next

\* The same for a step that changes the structure of e alone.
LEMMA OpsKeep ==
  ASSUME DOMAIN ev = Events, NEW e \in Events, NEW w, ev' = [ev EXCEPT ![e] = w],
         called' = {}, w.cbs = ev[e].cbs, IsFreed(w) <=> IsFreed(ev[e])
  PROVE  Ops!Next
BY OpsOne, OpsQuiet

\* An operation is accepted.
LEMMA OpsStart ==
  ASSUME DOMAIN ev = Events, NEW e \in Events, NEW w, ev' = [ev EXCEPT ![e] = w],
         called' = {}, ~IsFreed(ev[e]), ~IsFreed(w), NEW kind, kind = Inbound \/ kind = Outbound,
         NEW op \in kind, ev[e].cbs \cap kind = {}, w.cbs = ev[e].cbs \cup {op}
  PROVE  Ops!Next
<1> DEFINE p == [x \in Events |-> ev[x].cbs]
           f == {x \in Events : ev[x].mem = "freed" \/ "deleted" \in ev[x].flags}
<1>1. p' = [p EXCEPT ![e] = w.cbs] /\ p[e] = ev[e].cbs /\ e \notin f
  BY OpsOne, Zenon DEF IsFreed
<1>2. f' = f
  BY OpsOne DEF IsFreed
<1>3. p' = [p EXCEPT ![e] = p[e] \cup {op}]
  BY <1>1
<1>4. Ops!Start(e, kind)
  BY <1>1, <1>2, <1>3, Zenon DEF Ops!Start
<1> QED BY <1>4 DEF Ops!Next

\* An operation is answered, or dropped where the event has been freed.
LEMMA OpsDone ==
  ASSUME NEW e \in Events, NEW op \in Inbound \cup Outbound, called' = CallTo(e, op),
         ev[e].mem = "live", op \in ev[e].cbs, ev'[e].cbs = ev[e].cbs \ {op},
         \A x \in Events : x # e => ev'[x].cbs = ev[x].cbs,
         \A x \in Events : IsFreed(ev'[x]) <=> IsFreed(ev[x])
  PROVE  Ops!Next
<1> DEFINE p == [x \in Events |-> ev[x].cbs]
           f == {x \in Events : ev[x].mem = "freed" \/ "deleted" \in ev[x].flags}
<1>1. p' = [p EXCEPT ![e] = p[e] \ {op}] /\ op \in p[e]
  BY Zenon
<1>2. f' = f
  BY DEF IsFreed
<1>3. CASE "deleted" \in ev[e].flags
  <2>1. called' = {} /\ e \in f
    BY <1>3 DEF CallTo
  <2>2. Ops!Drop(e, op)
    BY <1>1, <1>2, <2>1 DEF Ops!Drop
  <2> QED BY <2>2 DEF Ops!Next
<1>4. CASE "deleted" \notin ev[e].flags
  <2>1. called' = {<<e, op>>} /\ e \notin f
    BY <1>4 DEF CallTo
  <2>2. Ops!Callback(e, op)
    BY <1>1, <1>2, <2>1 DEF Ops!Callback
  <2> QED BY <2>2 DEF Ops!Next
<1> QED BY <1>3, <1>4

\* The application frees an event.
LEMMA OpsFree ==
  ASSUME DOMAIN ev = Events, NEW e \in Events, NEW w, ev' = [ev EXCEPT ![e] = w],
         called' = {}, w.cbs = ev[e].cbs, ~IsFreed(ev[e]), IsFreed(w)
  PROVE  Ops!Next
<1> DEFINE p == [x \in Events |-> ev[x].cbs]
           f == {x \in Events : ev[x].mem = "freed" \/ "deleted" \in ev[x].flags}
<1>1. p' = p
  BY OpsOne
<1>2. f' = f \cup {e} /\ e \notin f
  BY OpsOne DEF IsFreed
<1>3. Ops!Free(e)
  BY <1>1, <1>2 DEF Ops!Free
<1> QED BY <1>3 DEF Ops!Next

\* A step that changes no structure
LEMMA OpsSame ==
  ASSUME UNCHANGED ev, called' = {}
  PROVE  Ops!Next
BY OpsQuiet
=============================================================================

---------------------------- MODULE ThreadsProofs ----------------------------
(***************************************************************************)
(* Proofs about the events in which the loop meets other threads: DNS      *)
(* events, which a pool of threads resolves, and async events, which any   *)
(* thread may send.                                                        *)
(***************************************************************************)
EXTENDS Async, Dns, TLAPS

-----------------------------------------------------------------------------
(* DNS events, for any number of loops, events and workers: a request is in *)
(* one place, a worker never touches an event or a host name that has been  *)
(* released, and dns_term() answers what it took in.                        *)

Queue == 1 .. Len(requests)

\* A request is in the queue, with a worker, signalled to its loop or with the
\* resolve that is starting the workers, and in no two of these.
OnePlace ==
  /\ \A i, j \in Queue : requests[i] = requests[j] => i = j
  /\ \A w, v \in Workers : warg[w] = warg[v] /\ warg[w] # NoEvent => w = v
  /\ \A i \in Queue :
       /\ pending[requests[i]] /\ ~signal[requests[i]] /\ starting # requests[i]
       /\ \A w \in Workers : warg[w] # requests[i]
  /\ \A w \in Workers : warg[w] # NoEvent =>
       pending[warg[w]] /\ ~signal[warg[w]] /\ starting # warg[w]
  /\ \A d \in DnsEvents : signal[d] => pending[d] /\ starting # d
  /\ starting # NoEvent => pending[starting]
  /\ \A d \in DnsEvents : pending[d] =>
       \/ \E i \in Queue : requests[i] = d
       \/ \E w \in Workers : warg[w] = d
       \/ signal[d]
       \/ starting = d

\* What a request keeps alive, and that an answer is stored before it is sent.
Kept ==
  /\ \A d \in DnsEvents : pending[d] => dstate[d] = "live" /\ host[d]
  /\ \A d \in DnsEvents : signal[d] => completed[d]
  /\ \A w \in Workers : wpc[w] = "resolved" => completed[warg[w]]
  /\ \A w \in Workers : warg[w] # NoEvent <=> wpc[w] \in {"popped", "resolving", "resolved"}

\* The workers exist, and the queue is used, between the start of the pool and
\* the join of all of them.
PoolSound ==
  /\ pool = "halting" <=> starting # NoEvent
  /\ pool = "halting" => ~started /\ \A w \in Workers : wpc[w] \in {"none", "loop", "exited"}
  /\ pool = "down" => ~started
  /\ started => \A w \in Workers : wpc[w] # "none"
  /\ ~started => requests = <<>>
  /\ ~started /\ pool # "halting" => \A w \in Workers : wpc[w] = "none"
  /\ \A w \in Workers : wpc[w] = "exited" => Stopping /\ requests = <<>>

\* The inductive invariant.
DnsInv == DnsTypeOK /\ OnePlace /\ Kept /\ PoolSound

-----------------------------------------------------------------------------
(* The loop threads.                                                        *)

\* dns_new(): an event without a request.
LEMMA NewInv ==
  ASSUME DnsInv, NEW l \in Loops, NEW d \in DnsEvents, DnsNew(l, d)
  PROVE  DnsInv'
<1>1. DnsTypeOK'
  BY NoEventAssumption DEF DnsInv, DnsTypeOK, DnsNew, poolVars, workerVars,
         dnsLoopVars
<1>2. OnePlace'
  BY NoEventAssumption DEF DnsInv, DnsTypeOK, OnePlace, Queue, DnsNew, poolVars,
         workerVars, dnsLoopVars
<1>3. Kept'
  BY NoEventAssumption DEF DnsInv, DnsTypeOK, OnePlace, Kept, DnsNew, poolVars,
         workerVars,
         dnsLoopVars
<1>4. PoolSound'
  BY NoEventAssumption DEF DnsInv, DnsTypeOK, PoolSound, Stopping, DnsNew,
         poolVars,
         workerVars,
         dnsLoopVars
<1> QED BY <1>1, <1>2, <1>3, <1>4 DEF DnsInv

\* The queue with a request at its end.
LEMMA AppendPlaces ==
  ASSUME NEW q \in Seq(DnsEvents), NEW d \in DnsEvents, NEW r, r = Append(q, d)
  PROVE  /\ r \in Seq(DnsEvents) /\ Len(q) \in Nat /\ Len(r) = Len(q) + 1
         /\ \A i \in 1 .. Len(q) : r[i] = q[i]
         /\ r[Len(q) + 1] = d
         /\ \A i \in 1 .. Len(r) : i \in 1 .. Len(q) \/ i = Len(q) + 1
         /\ \A i \in 1 .. Len(q) : i \in 1 .. Len(r) /\ q[i] \in DnsEvents
OBVIOUS

\* nanoev_dns_resolve() puts the request into the queue.
LEMMA ResolveInv ==
  ASSUME DnsInv, NEW l \in Loops, NEW d \in DnsEvents, Resolve(l, d)
  PROVE  DnsInv'
<1>1. /\ ~pending[d] /\ dstate[d] = "live" /\ pool = "up"
      /\ pending' = [pending EXCEPT ![d] = TRUE]
      /\ completed' = [completed EXCEPT ![d] = FALSE]
      /\ host' = [host EXCEPT ![d] = TRUE]
      /\ requests' = Append(requests, d) /\ started' = TRUE
      /\ UNCHANGED <<loop, dstate, ddeleted, signal, warg, dlpc, dself, pool, starting>>
  BY DEF Resolve, Requested, DnsUsable, Enqueue, dnsLoopVars
<1>2. \/ wpc' = wpc /\ started
      \/ \E w \in Workers : wpc[w] = "asleep" /\ wpc' = [wpc EXCEPT ![w] = "loop"] /\ started
      \/ ~started /\ wpc' = [w \in Workers |-> "loop"]
  BY DEF Resolve, Enqueue, CondSignal
<1>3. DnsTypeOK'
  <2>1. requests' \in Seq(DnsEvents)
    BY <1>1, AppendPlaces DEF DnsInv, DnsTypeOK
  <2>2. wpc' \in [Workers -> {"none", "loop", "asleep", "popped", "resolving", "resolved",
                             "exited"}]
    BY <1>2 DEF DnsInv, DnsTypeOK
  <2> QED BY <1>1, <2>1, <2>2 DEF DnsInv, DnsTypeOK
<1>4. OnePlace'
  <2>1. ~signal[d] /\ starting # d /\ \A w \in Workers : warg[w] # d
    BY <1>1, NoEventAssumption DEF DnsInv, DnsTypeOK, OnePlace
  <2>2. \A i \in Queue : requests[i] # d
    BY <1>1 DEF DnsInv, DnsTypeOK, OnePlace
  <2>3. /\ Len(requests) \in Nat /\ Len(requests') = Len(requests) + 1
        /\ \A i \in Queue : requests'[i] = requests[i] /\ requests[i] \in DnsEvents /\ i \in Queue'
        /\ requests'[Len(requests) + 1] = d
        /\ \A i \in Queue' : i \in Queue \/ i = Len(requests) + 1
    BY <1>1, AppendPlaces DEF DnsInv, DnsTypeOK, Queue
  <2>4. pending'[d] /\ \A e \in DnsEvents : e # d => pending'[e] = pending[e]
    BY <1>1 DEF DnsInv, DnsTypeOK
  <2>5. \A i, j \in Queue' : requests'[i] = requests'[j] => i = j
    BY <2>2, <2>3 DEF DnsInv, OnePlace
  <2>6. \A i \in Queue' :
          /\ pending'[requests'[i]] /\ ~signal'[requests'[i]] /\ starting' # requests'[i]
          /\ \A w \in Workers : warg'[w] # requests'[i]
    <3> SUFFICES ASSUME NEW i \in Queue'
                 PROVE  /\ pending'[requests'[i]] /\ ~signal'[requests'[i]] /\ starting' # requests'[i]
                        /\ \A w \in Workers : warg'[w] # requests'[i]
      OBVIOUS
    <3>1. CASE i = Len(requests) + 1
      BY <1>1, <2>1, <2>3, <2>4, <3>1
    <3>2. CASE i \in Queue
      <4>1. requests'[i] = requests[i] /\ pending'[requests[i]] = pending[requests[i]]
        BY <2>2, <2>3, <2>4, <3>2
      <4> QED BY <1>1, <3>2, <4>1 DEF DnsInv, OnePlace
    <3> QED BY <2>3, <3>1, <3>2
  <2>7. \A e \in DnsEvents : pending'[e] =>
          \/ \E i \in Queue' : requests'[i] = e
          \/ \E w \in Workers : warg'[w] = e
          \/ signal'[e]
          \/ starting' = e
    <3>1. Len(requests) + 1 \in Queue'
      BY <2>3 DEF Queue
    <3>2. SUFFICES ASSUME NEW e \in DnsEvents, e # d, pending'[e], \A w \in Workers : warg[w] # e,
                          ~signal[e], starting # e
                   PROVE  \E i \in Queue' : requests'[i] = e
      BY <1>1, <2>3, <3>1, Zenon
    <3>3. pending[e]
      BY <2>4, <3>2
    <3>4. PICK i \in Queue : requests[i] = e
      BY <3>2, <3>3 DEF DnsInv, OnePlace
    <3> QED BY <2>3, <3>4
  <2>8. /\ \A w \in Workers : warg'[w] # NoEvent => pending'[warg'[w]]
        /\ \A e \in DnsEvents : signal'[e] => pending'[e]
        /\ starting' # NoEvent => pending'[starting']
    BY <1>1, <2>4 DEF DnsInv, DnsTypeOK, OnePlace
  <2> QED BY <1>1, <2>5, <2>6, <2>7, <2>8, Zenon DEF DnsInv, OnePlace
<1>5. Kept'
  <2>1. ~signal[d] /\ \A w \in Workers : warg[w] # d
    BY <1>1, NoEventAssumption DEF DnsInv, DnsTypeOK, OnePlace
  <2> QED BY <1>1, <1>2, <2>1, NoEventAssumption DEF DnsInv, DnsTypeOK, Kept,
         PoolSound
<1>6. PoolSound'
  BY <1>1, <1>2 DEF DnsInv, DnsTypeOK, PoolSound, Stopping
<1> QED BY <1>3, <1>4, <1>5, <1>6 DEF DnsInv

\* A resolve that starts only some of the workers holds the request itself.
LEMMA StartFailsInv ==
  ASSUME DnsInv, NEW l \in Loops, NEW d \in DnsEvents, StartFails(l, d)
  PROVE  DnsInv'
<1>1. /\ ~pending[d] /\ dstate[d] = "live" /\ pool = "up" /\ ~started
      /\ pending' = [pending EXCEPT ![d] = TRUE]
      /\ completed' = [completed EXCEPT ![d] = FALSE]
      /\ host' = [host EXCEPT ![d] = TRUE]
      /\ pool' = "halting" /\ starting' = d
      /\ UNCHANGED <<loop, dstate, ddeleted, signal, warg, dlpc, dself, requests, started>>
  BY DEF StartFails, Requested, DnsUsable, dnsLoopVars
<1>2. /\ wpc' \in [Workers -> {"none", "loop"}]
      /\ \A w \in Workers : wpc[w] = "none" /\ warg[w] = NoEvent
  BY <1>1 DEF StartFails, DnsInv, Kept, PoolSound
<1>3. ~signal[d] /\ starting = NoEvent /\ requests = <<>>
  BY <1>1 DEF DnsInv, DnsTypeOK, OnePlace, PoolSound
<1>4. DnsTypeOK'
  <2>1. wpc' \in [Workers -> {"none", "loop", "asleep", "popped", "resolving", "resolved",
                             "exited"}]
    BY <1>2
  <2> QED BY <1>1, <2>1 DEF DnsInv, DnsTypeOK
<1>5. OnePlace'
  <2>1. Queue' = {} /\ pending'[d] /\ ~signal'[d] /\ \A w \in Workers : warg'[w] = NoEvent
    BY <1>1, <1>2, <1>3 DEF DnsInv, DnsTypeOK, Queue
  <2>2. \A e \in DnsEvents : e # d => pending'[e] = pending[e] /\ signal'[e] = signal[e]
    BY <1>1 DEF DnsInv, DnsTypeOK
  <2>3. \A e \in DnsEvents : pending[e] <=> signal[e]
    BY <1>2, <1>3, NoEventAssumption DEF DnsInv, OnePlace, Queue
  <2> QED BY <1>1, <2>1, <2>2, <2>3 DEF OnePlace
<1>6. Kept'
  BY <1>1, <1>2, <1>3 DEF DnsInv, DnsTypeOK, Kept
<1>7. PoolSound'
  BY <1>1, <1>2, <1>3, NoEventAssumption DEF DnsInv, DnsTypeOK, PoolSound,
         Stopping
<1> QED BY <1>4, <1>5, <1>6, <1>7 DEF DnsInv

\* The resolve gives the request up once the workers are joined.
LEMMA StartFailedInv ==
  ASSUME DnsInv, NEW d \in DnsEvents, StartFailed(d)
  PROVE  DnsInv'
<1>1. DnsTypeOK'
  BY NoEventAssumption DEF DnsInv, DnsTypeOK, StartFailed, dnsLoopVars
<1>2. OnePlace'
  <2>1. /\ pending' = [pending EXCEPT ![d] = FALSE] /\ starting = d /\ starting' = NoEvent
        /\ UNCHANGED <<requests, signal, warg>>
    BY DEF StartFailed
  <2>2. pending \in [DnsEvents -> BOOLEAN] /\ \A i \in Queue : requests[i] \in DnsEvents
    BY DEF DnsInv, DnsTypeOK, Queue
  <2> QED BY <2>1, <2>2, NoEventAssumption DEF DnsInv, OnePlace, Queue
<1>3. Kept'
  <2>1. /\ pending' = [pending EXCEPT ![d] = FALSE] /\ host' = [host EXCEPT ![d] = FALSE]
        /\ UNCHANGED <<dstate, completed, signal, warg>>
        /\ wpc' = [w \in Workers |-> "none"]
    BY DEF StartFailed
  <2>2. \A w \in Workers : warg[w] = NoEvent
    BY DEF DnsInv, DnsTypeOK, Kept, StartFailed
  <2> QED BY <2>1, <2>2 DEF DnsInv, DnsTypeOK, Kept
<1>4. PoolSound'
  BY NoEventAssumption DEF DnsInv, DnsTypeOK, PoolSound, Stopping, StartFailed,
         dnsLoopVars
<1> QED BY <1>1, <1>2, <1>3, <1>4 DEF DnsInv

\* dns_free() destroys only an event without a request.
LEMMA FreeInv ==
  ASSUME DnsInv, NEW l \in Loops, NEW d \in DnsEvents, DnsFree(l, d)
  PROVE  DnsInv'
<1>1. DnsTypeOK'
  <2>1. CASE pending[d]
    BY <2>1, Zenon DEF DnsInv, DnsTypeOK, DnsFree, poolVars, workerVars, dnsLoopVars
  <2>2. CASE ~pending[d]
    BY <2>2, Zenon DEF DnsInv, DnsTypeOK, DnsFree, poolVars, workerVars, dnsLoopVars
  <2> QED BY <2>1, <2>2
<1>2. OnePlace'
  BY NoEventAssumption DEF DnsInv, DnsTypeOK, OnePlace, Queue, DnsFree,
         DnsUsable, poolVars,
         workerVars, dnsLoopVars
<1>3. Kept'
  BY NoEventAssumption DEF DnsInv, DnsTypeOK, OnePlace, Kept, DnsFree, DnsUsable,
         poolVars,
         workerVars,
         dnsLoopVars
<1>4. PoolSound'
  BY NoEventAssumption DEF DnsInv, DnsTypeOK, PoolSound, Stopping, DnsFree,
         DnsUsable,
         poolVars,
         workerVars, dnsLoopVars
<1> QED BY <1>1, <1>2, <1>3, <1>4 DEF DnsInv

\* dns_on_async() finds the answer stored and ends the request.
LEMMA OnAsyncInv ==
  ASSUME DnsInv, NEW l \in Loops, NEW d \in DnsEvents, OnAsync(l, d)
  PROVE  DnsInv'
<1>1. DnsTypeOK'
  <2>1. completed[d]
    BY DEF DnsInv, DnsTypeOK, Kept, OnAsync
  <2>2. CASE ddeleted[d]
    BY <2>1, <2>2, ZenonT(30) DEF DnsInv, DnsTypeOK, OnAsync, poolVars, workerVars,
           dnsLoopVars
  <2>3. CASE ~ddeleted[d]
    <3>1. /\ signal' = [signal EXCEPT ![d] = FALSE]
          /\ pending' = [pending EXCEPT ![d] = FALSE]
          /\ completed' = [completed EXCEPT ![d] = FALSE]
          /\ host' = [host EXCEPT ![d] = FALSE]
          /\ dlpc' = [dlpc EXCEPT ![l] = "callback"]
          /\ dself' = [dself EXCEPT ![l] = d]
          /\ UNCHANGED <<dstate, loop, ddeleted, requests, pool, started, starting, wpc, warg>>
      BY <2>1, <2>3 DEF OnAsync, poolVars, workerVars, dnsLoopVars
    <3> QED BY <3>1 DEF DnsInv, DnsTypeOK
  <2> QED BY <2>2, <2>3
<1>2. OnePlace'
  <2>1. /\ signal[d] /\ signal' = [signal EXCEPT ![d] = FALSE]
        /\ pending' = [pending EXCEPT ![d] = FALSE]
        /\ UNCHANGED <<requests, starting, warg>>
    BY DEF DnsInv, DnsTypeOK, Kept, OnAsync, poolVars, workerVars
  <2>2. /\ \A i \in Queue : requests[i] # d
        /\ \A w \in Workers : warg[w] # d
        /\ starting # d
    BY <2>1, NoEventAssumption DEF DnsInv, OnePlace
  <2>3. \A e \in DnsEvents : e # d => pending'[e] = pending[e] /\ signal'[e] = signal[e]
    BY <2>1 DEF DnsInv, DnsTypeOK
  <2>4. ~pending'[d] /\ ~signal'[d]
    BY <2>1 DEF DnsInv, DnsTypeOK
  <2>5. \A i \in Queue : requests[i] \in DnsEvents
    BY DEF DnsInv, DnsTypeOK, Queue
  <2> QED BY <2>1, <2>2, <2>3, <2>4, <2>5 DEF DnsInv, DnsTypeOK, OnePlace, Queue
<1>3. Kept'
  BY NoEventAssumption, SMTT(30) DEF DnsInv, DnsTypeOK, OnePlace, Kept, OnAsync, poolVars,
         workerVars,
         dnsLoopVars
<1>4. PoolSound'
  BY NoEventAssumption DEF DnsInv, DnsTypeOK, PoolSound, Stopping, OnAsync,
         poolVars,
         workerVars,
         dnsLoopVars
<1> QED BY <1>1, <1>2, <1>3, <1>4 DEF DnsInv

\* The end of a callback, and of a loop, touches no request.
LEMMA CallbackReturnInv ==
  ASSUME DnsInv, NEW l \in Loops, DnsCallbackReturn(l)
  PROVE  DnsInv'
<1>1. DnsTypeOK'
  BY NoEventAssumption DEF DnsInv, DnsTypeOK, DnsCallbackReturn, poolVars,
         workerVars,
         dnsLoopVars,
         eventVars
<1>2. OnePlace'
  BY NoEventAssumption, Zenon DEF DnsInv, DnsTypeOK, OnePlace, Queue, DnsCallbackReturn,
         poolVars,
         workerVars, dnsLoopVars, eventVars
<1>3. Kept'
  BY NoEventAssumption DEF DnsInv, DnsTypeOK, OnePlace, Kept, DnsCallbackReturn,
         poolVars,
         workerVars, dnsLoopVars, eventVars
<1>4. PoolSound'
  BY NoEventAssumption DEF DnsInv, DnsTypeOK, PoolSound, Stopping,
         DnsCallbackReturn,
         poolVars,
         workerVars, dnsLoopVars, eventVars
<1> QED BY <1>1, <1>2, <1>3, <1>4 DEF DnsInv

\* nanoev_loop_free()
LEMMA LoopFreeInv ==
  ASSUME DnsInv, NEW l \in Loops, DnsLoopFree(l)
  PROVE  DnsInv'
<1>1. DnsTypeOK'
  BY NoEventAssumption, Zenon DEF DnsInv, DnsTypeOK, DnsLoopFree, poolVars, workerVars,
         dnsLoopVars, eventVars
<1>2. OnePlace'
  BY NoEventAssumption, Zenon DEF DnsInv, DnsTypeOK, OnePlace, Queue, DnsLoopFree,
         poolVars,
         workerVars,
         dnsLoopVars, eventVars
<1>3. Kept'
  BY NoEventAssumption DEF DnsInv, DnsTypeOK, OnePlace, Kept, DnsLoopFree,
         poolVars,
         workerVars,
         dnsLoopVars, eventVars
<1>4. PoolSound'
  BY NoEventAssumption DEF DnsInv, DnsTypeOK, PoolSound, Stopping, DnsLoopFree,
         poolVars,
         workerVars,
         dnsLoopVars, eventVars
<1> QED BY <1>1, <1>2, <1>3, <1>4 DEF DnsInv

-----------------------------------------------------------------------------
(* The pool.                                                                *)

\* dns_term() wakes the workers.
LEMMA TermInv ==
  ASSUME DnsInv, Term
  PROVE  DnsInv'
<1>1. DnsTypeOK'
  BY NoEventAssumption DEF DnsInv, DnsTypeOK, Term, CanTerm, poolVars, workerVars,
         dnsLoopVars,
         eventVars
<1>2. OnePlace'
  BY NoEventAssumption, Zenon DEF DnsInv, DnsTypeOK, OnePlace, Queue, Term, CanTerm,
         poolVars,
         workerVars, dnsLoopVars, eventVars
<1>3. Kept'
  BY NoEventAssumption DEF DnsInv, DnsTypeOK, OnePlace, Kept, Term, CanTerm,
         poolVars,
         workerVars,
         dnsLoopVars, eventVars
<1>4. PoolSound'
  BY NoEventAssumption DEF DnsInv, DnsTypeOK, PoolSound, Stopping, Term, CanTerm,
         poolVars,
         workerVars, dnsLoopVars, eventVars
<1> QED BY <1>1, <1>2, <1>3, <1>4 DEF DnsInv

\* dns_term() clears a queue that is empty by then: a worker has returned, and it
\* returns only when the queue is empty.
LEMMA TermEndInv ==
  ASSUME DnsInv, TermEnd
  PROVE  DnsInv'
<1>1. DnsTypeOK'
  <2>1. <<>> \in Seq(DnsEvents)
    OBVIOUS
  <2> QED BY <2>1, ZenonT(30) DEF DnsInv, DnsTypeOK, TermEnd, eventVars, dnsLoopVars
<1>2. OnePlace'
  <2>1. PICK w \in Workers : TRUE
    BY WorkersExist
  <2>2. requests = <<>>
    BY <2>1 DEF DnsInv, DnsTypeOK, PoolSound, TermEnd
  <2> QED BY <2>2 DEF DnsInv, DnsTypeOK, OnePlace, Queue, TermEnd, eventVars
<1>3. Kept'
  BY NoEventAssumption DEF DnsInv, DnsTypeOK, OnePlace, Kept, TermEnd, poolVars,
         workerVars,
         dnsLoopVars, eventVars
<1>4. PoolSound'
  BY NoEventAssumption DEF DnsInv, DnsTypeOK, PoolSound, Stopping, TermEnd,
         poolVars,
         workerVars,
         dnsLoopVars, eventVars
<1> QED BY <1>1, <1>2, <1>3, <1>4 DEF DnsInv

\* nanoev_init() again
LEMMA InitAgainInv ==
  ASSUME DnsInv, InitAgain
  PROVE  DnsInv'
<1>1. DnsTypeOK'
  BY NoEventAssumption, Zenon DEF DnsInv, DnsTypeOK, InitAgain, poolVars, workerVars,
         dnsLoopVars,
         eventVars
<1>2. OnePlace'
  BY NoEventAssumption, Zenon DEF DnsInv, DnsTypeOK, OnePlace, Queue, InitAgain,
         poolVars,
         workerVars,
         dnsLoopVars, eventVars
<1>3. Kept'
  BY NoEventAssumption DEF DnsInv, DnsTypeOK, OnePlace, Kept, InitAgain, poolVars,
         workerVars,
         dnsLoopVars, eventVars
<1>4. PoolSound'
  BY NoEventAssumption DEF DnsInv, DnsTypeOK, PoolSound, Stopping, InitAgain,
         poolVars,
         workerVars, dnsLoopVars, eventVars
<1> QED BY <1>1, <1>2, <1>3, <1>4 DEF DnsInv

-----------------------------------------------------------------------------
(* dns_worker()                                                             *)

\* A worker that sleeps, wakes or returns holds no request.
LEMMA SleepInv ==
  ASSUME DnsInv, NEW w \in Workers, Sleep(w)
  PROVE  DnsInv'
<1>1. DnsTypeOK'
  BY NoEventAssumption DEF DnsInv, DnsTypeOK, Sleep, Stopping, poolVars,
         workerVars,
         dnsLoopVars,
         eventVars
<1>2. OnePlace'
  BY NoEventAssumption DEF DnsInv, DnsTypeOK, OnePlace, Queue, Sleep, Stopping,
         poolVars,
         workerVars, dnsLoopVars, eventVars
<1>3. Kept'
  BY NoEventAssumption DEF DnsInv, DnsTypeOK, OnePlace, Kept, Sleep, Stopping,
         poolVars,
         workerVars, dnsLoopVars, eventVars
<1>4. PoolSound'
  BY NoEventAssumption DEF DnsInv, DnsTypeOK, PoolSound, Stopping, Sleep,
         Stopping,
         poolVars,
         workerVars, dnsLoopVars, eventVars
<1> QED BY <1>1, <1>2, <1>3, <1>4 DEF DnsInv

\* cond_wait() may return by itself.
LEMMA SpuriousWakeupInv ==
  ASSUME DnsInv, NEW w \in Workers, SpuriousWakeup(w)
  PROVE  DnsInv'
<1>1. DnsTypeOK'
  BY NoEventAssumption DEF DnsInv, DnsTypeOK, SpuriousWakeup, Stopping, poolVars,
         workerVars,
         dnsLoopVars, eventVars
<1>2. OnePlace'
  <2>1. UNCHANGED <<requests, starting, warg, pending, signal>>
    BY DEF SpuriousWakeup, poolVars, eventVars
  <2> QED BY <2>1 DEF DnsInv, OnePlace, Queue
<1>3. Kept'
  BY NoEventAssumption DEF DnsInv, DnsTypeOK, OnePlace, Kept, SpuriousWakeup,
         Stopping,
         poolVars,
         workerVars, dnsLoopVars, eventVars
<1>4. PoolSound'
  BY NoEventAssumption DEF DnsInv, DnsTypeOK, PoolSound, Stopping,
         SpuriousWakeup, Stopping,
         poolVars, workerVars, dnsLoopVars, eventVars
<1> QED BY <1>1, <1>2, <1>3, <1>4 DEF DnsInv

\* A worker returns only when the queue is empty.
LEMMA ExitInv ==
  ASSUME DnsInv, NEW w \in Workers, Exit(w)
  PROVE  DnsInv'
<1>1. DnsTypeOK'
  BY NoEventAssumption DEF DnsInv, DnsTypeOK, Exit, Stopping, poolVars,
         workerVars,
         dnsLoopVars,
         eventVars
<1>2. OnePlace'
  <2>1. UNCHANGED <<requests, starting, warg, pending, signal>>
    BY DEF Exit, poolVars, eventVars
  <2> QED BY <2>1 DEF DnsInv, OnePlace, Queue
<1>3. Kept'
  BY NoEventAssumption DEF DnsInv, DnsTypeOK, OnePlace, Kept, Exit, Stopping,
         poolVars,
         workerVars, dnsLoopVars, eventVars
<1>4. PoolSound'
  BY NoEventAssumption DEF DnsInv, DnsTypeOK, PoolSound, Stopping, Exit,
         Stopping, poolVars,
         workerVars, dnsLoopVars, eventVars
<1> QED BY <1>1, <1>2, <1>3, <1>4 DEF DnsInv

\* The queue without its head.
LEMMA TailPlaces ==
  ASSUME NEW q \in Seq(DnsEvents), q # <<>>, NEW r, r = Tail(q)
  PROVE  /\ r \in Seq(DnsEvents) /\ Len(q) \in Nat \ {0} /\ Len(r) = Len(q) - 1
         /\ Head(q) = q[1] /\ q[1] \in DnsEvents
         /\ \A i \in 1 .. Len(r) : r[i] = q[i + 1] /\ i + 1 \in 1 .. Len(q)
         /\ \A i \in 1 .. Len(q) : q[i] \in DnsEvents /\ (i = 1 \/ i - 1 \in 1 .. Len(r))
OBVIOUS

\* A worker takes the head of the queue.
LEMMA PopInv ==
  ASSUME DnsInv, NEW w \in Workers, Pop(w)
  PROVE  DnsInv'
<1> DEFINE d == requests[1]
<1>1. /\ wpc[w] = "loop" /\ requests # <<>> /\ requests' = Tail(requests)
      /\ wpc' = [wpc EXCEPT ![w] = "popped"]
      /\ UNCHANGED <<loop, dstate, pending, completed, ddeleted, host, signal, pool, started,
                     starting, dlpc, dself>>
  BY DEF Pop, eventVars, poolVars, dnsLoopVars
<1>2. /\ requests' \in Seq(DnsEvents) /\ Len(requests) \in Nat \ {0} /\ Len(requests') = Len(requests) - 1
      /\ Head(requests) = d /\ d \in DnsEvents
      /\ \A i \in 1 .. Len(requests') : requests'[i] = requests[i + 1] /\ i + 1 \in 1 .. Len(requests)
      /\ \A i \in 1 .. Len(requests) : requests[i] \in DnsEvents /\ (i = 1 \/ i - 1 \in 1 .. Len(requests'))
  BY <1>1, TailPlaces DEF DnsInv, DnsTypeOK
<1>3. warg' = [warg EXCEPT ![w] = d]
  BY <1>2, Zenon DEF Pop
<1>4. warg[w] = NoEvent
  BY <1>1 DEF DnsInv, Kept
<1>5. DnsTypeOK'
  BY <1>1, <1>2, <1>3 DEF DnsInv, DnsTypeOK
<1>6. OnePlace'
  <2>1. 1 \in Queue
    BY <1>2, SMTT(30) DEF Queue
  <2>2. /\ pending[d] /\ ~signal[d] /\ starting # d /\ \A v \in Workers : warg[v] # d
        /\ \A i \in Queue : i # 1 => requests[i] # d
    BY <2>1 DEF DnsInv, OnePlace
  <2>3. \A v \in Workers : warg'[v] = (IF v = w THEN d ELSE warg[v])
    BY <1>3 DEF DnsInv, DnsTypeOK
  <2>4. \A i, j \in Queue' : requests'[i] = requests'[j] => i = j
    BY <1>2, SMTT(30) DEF DnsInv, OnePlace, Queue
  <2>5. \A i \in Queue' :
          /\ pending'[requests'[i]] /\ ~signal'[requests'[i]] /\ starting' # requests'[i]
          /\ \A v \in Workers : warg'[v] # requests'[i]
    BY <1>1, <1>2, <2>2, <2>3 DEF DnsInv, OnePlace, Queue
  <2>6. \A e \in DnsEvents : pending'[e] =>
          \/ \E i \in Queue' : requests'[i] = e
          \/ \E v \in Workers : warg'[v] = e
          \/ signal'[e]
          \/ starting' = e
    <3> SUFFICES ASSUME NEW e \in DnsEvents, pending[e], e # d, ~signal[e], starting # e,
                        \A v \in Workers : warg[v] # e
                 PROVE  \E i \in Queue' : requests'[i] = e
      BY <1>1, <1>4, <2>3, NoEventAssumption, ZenonT(30)
    <3>1. PICK i \in Queue : requests[i] = e
      BY DEF DnsInv, OnePlace
    <3>2. i - 1 \in Queue' /\ requests'[i - 1] = e
      BY <1>2, <3>1 DEF Queue
    <3> QED BY <3>2
  <2>7. \A v, u \in Workers : warg'[v] = warg'[u] /\ warg'[v] # NoEvent => v = u
    BY <2>2, <2>3, SMTT(30) DEF DnsInv, OnePlace
  <2>8. \A v \in Workers : warg'[v] # NoEvent =>
          pending'[warg'[v]] /\ ~signal'[warg'[v]] /\ starting' # warg'[v]
    BY <1>1, <2>2, <2>3 DEF DnsInv, OnePlace
  <2> QED BY <1>1, <2>4, <2>5, <2>6, <2>7, <2>8, Zenon DEF DnsInv, OnePlace
<1>7. Kept'
  BY <1>1, <1>2, <1>3, NoEventAssumption DEF DnsInv, DnsTypeOK, Kept
<1>8. PoolSound'
  BY <1>1, <1>2 DEF DnsInv, DnsTypeOK, PoolSound, Stopping
<1> QED BY <1>5, <1>6, <1>7, <1>8 DEF DnsInv

\* The worker keeps the request while it resolves the name.
LEMMA ReadHostInv ==
  ASSUME DnsInv, NEW w \in Workers, ReadHost(w)
  PROVE  DnsInv'
<1>1. DnsTypeOK'
  BY NoEventAssumption, Zenon DEF DnsInv, DnsTypeOK, ReadHost, poolVars, workerVars,
         dnsLoopVars,
         eventVars
<1>2. OnePlace'
  BY NoEventAssumption, Zenon DEF DnsInv, DnsTypeOK, OnePlace, Queue, ReadHost, poolVars,
         workerVars,
         dnsLoopVars, eventVars
<1>3. Kept'
  BY NoEventAssumption DEF DnsInv, DnsTypeOK, OnePlace, Kept, ReadHost, poolVars,
         workerVars,
         dnsLoopVars, eventVars
<1>4. PoolSound'
  BY NoEventAssumption DEF DnsInv, DnsTypeOK, PoolSound, Stopping, ReadHost,
         poolVars,
         workerVars,
         dnsLoopVars, eventVars
<1> QED BY <1>1, <1>2, <1>3, <1>4 DEF DnsInv

\* The answer is stored.
LEMMA StoreInv ==
  ASSUME DnsInv, NEW w \in Workers, Store(w)
  PROVE  DnsInv'
<1>1. DnsTypeOK'
  BY NoEventAssumption, Zenon DEF DnsInv, DnsTypeOK, Store, poolVars, dnsLoopVars
<1>2. OnePlace'
  BY NoEventAssumption, Zenon DEF DnsInv, DnsTypeOK, OnePlace, Queue, Store, poolVars,
         dnsLoopVars
<1>3. Kept'
  BY NoEventAssumption DEF DnsInv, DnsTypeOK, OnePlace, Kept, Store, poolVars,
         dnsLoopVars
<1>4. PoolSound'
  BY NoEventAssumption DEF DnsInv, DnsTypeOK, PoolSound, Stopping, Store,
         poolVars,
         dnsLoopVars
<1> QED BY <1>1, <1>2, <1>3, <1>4 DEF DnsInv

\* The request goes from the worker to the loop.
LEMMA SendInv ==
  ASSUME DnsInv, NEW w \in Workers, DnsSend(w)
  PROVE  DnsInv'
<1>1. DnsTypeOK'
  BY NoEventAssumption, Zenon DEF DnsInv, DnsTypeOK, DnsSend, poolVars, dnsLoopVars
<1>2. OnePlace'
  <2> DEFINE e == warg[w]
  <2>1. /\ e \in DnsEvents
        /\ signal' = [signal EXCEPT ![e] = TRUE] /\ warg' = [warg EXCEPT ![w] = NoEvent]
        /\ UNCHANGED <<requests, starting, pending>>
    BY DEF DnsInv, DnsTypeOK, Kept, DnsSend, poolVars
  <2>2. \A v \in Workers : warg'[v] = (IF v = w THEN NoEvent ELSE warg[v])
    BY <2>1 DEF DnsInv, DnsTypeOK
  <2>3. \A d \in DnsEvents : signal'[d] = (d = e \/ signal[d])
    BY <2>1, Zenon DEF DnsInv, DnsTypeOK
  <2>4. pending[e] /\ ~signal[e] /\ starting # e /\ \A i \in Queue : requests[i] # e
    BY <2>1, NoEventAssumption DEF DnsInv, DnsTypeOK, OnePlace
  <2>5. \A v \in Workers : v # w => warg[v] # e
    BY <2>1, NoEventAssumption, Zenon DEF DnsInv, OnePlace
  <2> QED BY <2>1, <2>2, <2>3, <2>4, <2>5, NoEventAssumption, SMTT(30) DEF DnsInv,
         DnsTypeOK,
         OnePlace,
         Queue
<1>3. Kept'
  BY NoEventAssumption, SMTT(30) DEF DnsInv, DnsTypeOK, OnePlace, Kept, DnsSend, poolVars,
         dnsLoopVars
<1>4. PoolSound'
  BY NoEventAssumption DEF DnsInv, DnsTypeOK, PoolSound, Stopping, DnsSend,
         poolVars,
         dnsLoopVars
<1> QED BY <1>1, <1>2, <1>3, <1>4 DEF DnsInv

-----------------------------------------------------------------------------
(* The theorems.                                                            *)

\* DnsInv holds in every reachable state.
THEOREM DnsInvariance == DnsSpec => []DnsInv
<1>1. DnsInit => DnsInv
  <2> SUFFICES ASSUME DnsInit PROVE DnsInv
    OBVIOUS
  <2>1. DnsTypeOK
    <3>1. <<>> \in Seq(DnsEvents)
      OBVIOUS
    <3> QED BY <3>1, Zenon DEF DnsInit, DnsTypeOK
  <2>2. OnePlace
    BY DEF DnsInit, OnePlace, Queue
  <2>3. Kept /\ PoolSound
    BY DEF DnsInit, Kept, PoolSound
  <2> QED BY <2>1, <2>2, <2>3 DEF DnsInv
<1>2. DnsInv /\ [DnsNext]_dnsVars => DnsInv'
  <2> SUFFICES ASSUME DnsInv, [DnsNext]_dnsVars PROVE DnsInv'
    BY Zenon
  <2>1. CASE UNCHANGED dnsVars
    BY <2>1, SMTT(30) DEF DnsInv, DnsTypeOK, OnePlace, Kept, PoolSound, Queue, Stopping,
           dnsVars,
           eventVars,
                poolVars, workerVars, dnsLoopVars
  <2>2. CASE DnsNext
    BY <2>2, NewInv, ResolveInv, StartFailsInv, StartFailedInv, FreeInv, OnAsyncInv,
       CallbackReturnInv, LoopFreeInv, TermInv, TermEndInv, InitAgainInv, SleepInv,
       SpuriousWakeupInv, ExitInv, PopInv, ReadHostInv, StoreInv, SendInv
       DEF DnsNext, WorkerStep
  <2> QED BY <2>1, <2>2
<1> QED BY <1>1, <1>2, PTL DEF DnsSpec

\* A pending request of nanoev_dns.c is in exactly one place.
THEOREM RequestsStayInOnePlace == DnsSpec => []RequestIsInOnePlace
<1>1. DnsInv => RequestIsInOnePlace
  <2> SUFFICES ASSUME DnsInv, NEW d \in DnsEvents
               PROVE  IF pending[d] THEN \E p \in Places(d) : Places(d) = {p}
                                    ELSE Places(d) = {}
    BY Zenon DEF RequestIsInOnePlace
  <2> DEFINE Q == {i \in 1 .. Len(requests) : requests[i] = d}
             A == {w \in Workers : warg[w] = d}
  <2>1. (\A x, y \in Q : x = y) /\ (\A x, y \in A : x = y)
    BY NoEventAssumption, SMTT(30) DEF DnsInv, OnePlace, Queue
  <2>2. /\ Q # {} => A = {} /\ ~signal[d] /\ starting # d /\ pending[d]
        /\ A # {} => ~signal[d] /\ starting # d /\ pending[d]
        /\ signal[d] => starting # d /\ pending[d]
        /\ starting = d => pending[d]
        /\ pending[d] => Q # {} \/ A # {} \/ signal[d] \/ starting = d
    BY NoEventAssumption DEF DnsInv, OnePlace, Queue
  <2>3. Places(d) = ({"queue"} \X Q) \cup ({"worker"} \X A)
                    \cup (IF signal[d] THEN {<<"signal", d>>} ELSE {})
                    \cup (IF starting = d THEN {<<"refused", d>>} ELSE {})
    BY DEF Places
  <2> HIDE DEF Q, A
  <2>4. CASE Q # {}
    <3>1. PICK i \in Q : Q = {i}
      BY <2>1, <2>4
    <3>2. Places(d) = {<<"queue", i>>} /\ pending[d]
      BY <2>2, <2>3, <2>4, <3>1
    <3> QED BY <3>2
  <2>5. CASE A # {}
    <3>1. PICK w \in A : A = {w}
      BY <2>1, <2>5
    <3>2. Places(d) = {<<"worker", w>>} /\ pending[d]
      BY <2>2, <2>3, <2>5, <3>1
    <3> QED BY <3>2
  <2>6. CASE Q = {} /\ A = {}
    <3>1. /\ signal[d] => Places(d) = {<<"signal", d>>}
          /\ starting = d => Places(d) = {<<"refused", d>>}
          /\ ~signal[d] /\ starting # d => Places(d) = {}
      BY <2>2, <2>3, <2>6, Zenon
    <3> QED BY <2>2, <2>6, <3>1, Zenon
  <2> QED BY <2>4, <2>5, <2>6
<1> QED BY <1>1, DnsInvariance, PTL

\* dns_worker() never touches an event that has been destroyed or a host name
\* that has been freed.
THEOREM WorkersAreSafe == DnsSpec => []WorkerIsSafe
<1>1. DnsInv => WorkerIsSafe
  BY DEF DnsInv, DnsTypeOK, OnePlace, Kept, WorkerIsSafe
<1> QED BY <1>1, DnsInvariance, PTL

\* After dns_term() every request that was taken in has been answered.
THEOREM TermAnswersAll == DnsSpec => []TermLosesNothing
<1>1. DnsInv => TermLosesNothing
  <2> SUFFICES ASSUME DnsInv, pool = "down", NEW d \in DnsEvents, pending[d] PROVE signal[d]
    BY DEF TermLosesNothing
  <2>1. requests = <<>> /\ starting = NoEvent /\ \A w \in Workers : warg[w] = NoEvent
    BY DEF DnsInv, PoolSound, Kept
  <2> QED BY <2>1, NoEventAssumption, SMTT(30) DEF DnsInv, OnePlace, Queue
<1> QED BY <1>1, DnsInvariance, PTL
-----------------------------------------------------------------------------
(* Async events, for any set of events and of senders.                      *)

\* Who holds the lock of an event: the sender between mutex_lock() and
\* mutex_unlock(), and nobody else.
LockInv ==
  /\ \A s \in Senders : spc[s] \in {"locked", "written"} => lock[sarg[s]] = s
  /\ \A a \in Asyncs : lock[a] # None =>
       sarg[lock[a]] = a /\ spc[lock[a]] \in {"locked", "written"}

\* A sender inside nanoev_async_send() uses an event that has not been freed,
\* and one that has written its byte has found async_sent clear.
SenderInv ==
  \A s \in Senders :
    /\ spc[s] = "idle" <=> sarg[s] = None
    /\ sarg[s] # None => Usable(sarg[s])
    /\ spc[s] = "written" => ~sent[sarg[s]]

\* Nothing is under way for an event that is not started.
ObjectInv ==
  \A a \in Asyncs :
    /\ state[a] # "started" => ~sent[a] /\ pipe[a] = 0 /\ a \notin batch
    /\ state[a] \in {"none", "created"} => posted[a] = {} /\ ~deleted[a]
    /\ a \in endgame => deleted[a] /\ state[a] = "started"

\* events[] is in use only while the loop processes it.
PhaseInv ==
  /\ batch # {} => lpc \in {"dispatch", "on_async", "taken"}
  /\ lpc \in {"on_async", "taken"} <=> self # None

\* The inductive invariant.
AsyncInv ==
  /\ TypeOK /\ LockInv /\ SenderInv /\ ObjectInv /\ PhaseInv
  /\ OneWakeupPerSend /\ NoLostItem

-----------------------------------------------------------------------------
\* Posting an item keeps the type of posted.
LEMMA PostedType ==
  ASSUME NEW P \in [Asyncs -> SUBSET Threads], NEW a \in Asyncs, NEW t \in Threads
  PROVE  [P EXCEPT ![a] = @ \cup {t}] \in [Asyncs -> SUBSET Threads]
OBVIOUS

\* The state nanoev_loop_new() leaves is well typed.
LEMMA InitType == Init => TypeOK
<1>1. Init => posted \in [Asyncs -> SUBSET Threads] /\ pipe \in [Asyncs -> 0 .. PipeCap]
  BY PipeCapAssumption DEF Init
<1> QED BY <1>1, ZenonT(30) DEF Init, TypeOK

\* Every variable of Async keeps its type; in particular no pipe ever holds
\* more than PipeCap bytes.
THEOREM AsyncTypes == Spec => []TypeOK
<1> USE NamesAreDistinct, PipeCapAssumption
<1>0. Senders \subseteq Threads /\ LoopThread \in Threads
  BY DEF Threads
<1>1. Init => TypeOK
  BY InitType
<1>2. TypeOK /\ [Next]_vars => TypeOK'
  <2> SUFFICES ASSUME TypeOK, [Next]_vars PROVE TypeOK'
    BY Zenon
  <2> USE DEF TypeOK, objVars, sendVars, loopVars
  <2>1. ASSUME NEW s \in Senders, NEW a \in Asyncs, Post(s, a) PROVE TypeOK'
    <3>1. posted' \in [Asyncs -> SUBSET Threads]
      BY <1>0, <2>1, PostedType, Zenon DEF Post
    <3> QED BY <2>1, <3>1 DEF Post
  <2>2. ASSUME NEW s \in Senders, Send(s), sarg[s] \in Asyncs PROVE TypeOK'
    <3>1. CASE SendLock(s)
      BY <2>2, <3>1 DEF SendLock
    <3>2. CASE SendNothing(s) \/ SendMark(s)
      <4>1. /\ lock' = [lock EXCEPT ![sarg[s]] = None]
            /\ spc' = [spc EXCEPT ![s] = "idle"] /\ sarg' = [sarg EXCEPT ![s] = None]
        BY <3>2 DEF SendNothing, SendMark, SendReturn
      <4>2. /\ lock' \in [Asyncs -> Senders \cup {None}]
            /\ spc' \in [Senders -> {"idle", "posted", "locked", "written"}]
            /\ sarg' \in [Senders -> Asyncs \cup {None}]
        BY <4>1, Zenon
      <4>3. sent' \in [Asyncs -> BOOLEAN]
        BY <2>2, <3>2, Zenon DEF SendNothing, SendMark
      <4> QED BY <3>2, <4>2, <4>3, Zenon DEF SendNothing, SendMark
    <3>3. CASE SendWrite(s)
      <4>1. pipe[sarg[s]] + 1 \in 0 .. PipeCap
        BY <2>2, <3>3, SMTT(30) DEF SendWrite
      <4>2. pipe' \in [Asyncs -> 0 .. PipeCap]
        BY <2>2, <3>3, <4>1, Zenon DEF SendWrite
      <4> QED BY <2>2, <3>3, <4>2 DEF SendWrite
    <3> QED BY <2>2, <3>1, <3>2, <3>3, Zenon DEF Send
  <2>3. ASSUME NEW s \in Senders, Send(s), sarg[s] \notin Asyncs PROVE TypeOK'
    BY <2>3, SMTT(30) DEF Send, SendLock, SendNothing, SendWrite, SendMark, SendReturn
  <2>4. ASSUME NEW a \in Asyncs, New(a) \/ Start(a) PROVE TypeOK'
    BY <2>4, Zenon DEF New, Start
  <2>5. ASSUME NEW a \in Asyncs, LoopSend(a) PROVE TypeOK'
    <3>1. posted' \in [Asyncs -> SUBSET Threads]
      BY <1>0, <2>5, PostedType DEF LoopSend
    <3>2. pipe' \in [Asyncs -> 0 .. PipeCap] /\ sent' \in [Asyncs -> BOOLEAN]
      <4>1. CASE sent[a] \/ pipe[a] = PipeCap
        BY <2>5, <4>1 DEF LoopSend
      <4>2. CASE ~(sent[a] \/ pipe[a] = PipeCap)
        <5>1. pipe[a] + 1 \in 0 .. PipeCap
          BY <4>2
        <5>2. /\ pipe' = [pipe EXCEPT ![a] = pipe[a] + 1]
              /\ sent' = [sent EXCEPT ![a] = TRUE]
          BY <2>5, <4>2, Zenon DEF LoopSend
        <5> QED BY <5>1, <5>2
      <4> QED BY <4>1, <4>2
    <3> QED BY <2>5, <3>1, <3>2 DEF LoopSend
  <2>6. ASSUME NEW a \in Asyncs, Free(a) PROVE TypeOK'
    <3>1. CASE sent[a]
      BY <2>6, <3>1, ZenonT(30) DEF Free
    <3>2. CASE ~sent[a]
      BY <2>6, <3>2 DEF Free
    <3> QED BY <3>1, <3>2
  <2>7. ASSUME NEW a \in Asyncs, EndgameFree(a) PROVE TypeOK'
    <3>1. CASE sent[a]
      BY <2>7, <3>1 DEF EndgameFree
    <3>2. CASE ~sent[a]
      BY <2>7, <3>2, SMTT(30) DEF EndgameFree
    <3> QED BY <3>1, <3>2
  <2>8. CASE Poll
    BY <2>8, SMTT(30) DEF Poll, Ready
  <2>9. ASSUME NEW a \in Asyncs, ProactorCallback(a) PROVE TypeOK'
    BY <2>9, Zenon DEF ProactorCallback
  <2>10. CASE LoopFree
    BY <2>10, SMTT(30) DEF LoopFree
  <2>11. CASE TimersDone \/ EndgameDone \/ Take \/ CallbackReturn \/ BatchDone
    BY <2>11, Zenon DEF TimersDone, EndgameDone, Take, CallbackReturn, BatchDone
  <2>12. CASE UNCHANGED vars
    BY <2>12 DEF vars
  <2> QED
    BY <2>1, <2>2, <2>3, <2>4, <2>5, <2>6, <2>7, <2>8, <2>9, <2>10, <2>11, <2>12, Zenon
    DEF Next, Application, LoopStep
<1> QED BY <1>1, <1>2, PTL DEF Spec

-----------------------------------------------------------------------------
(* What the invariant says where it matters.                               *)

\* A thread that holds the lock of an event and finds async_sent clear is
\* alone: no byte is under way, so its write() cannot find the pipe full.
LEMMA LockedAndClear ==
  ASSUME AsyncInv, NEW s \in Senders, spc[s] = "locked", ~sent[sarg[s]]
  PROVE  sarg[s] \in Asyncs /\ InFlight(sarg[s]) = 0 /\ pipe[sarg[s]] = 0
<1> DEFINE a == sarg[s]
<1>1. a \in Asyncs /\ state[a] = "started" /\ lock[a] = s
  BY NamesAreDistinct, SMTT(30) DEF AsyncInv, TypeOK, LockInv, SenderInv, Usable
<1>2. ~Announced(a)
  <2> SUFFICES ASSUME NEW t \in Senders, spc[t] = "written", sarg[t] = a
               PROVE  FALSE
    BY DEF Announced
  <2>1. lock[a] = t
    BY DEF AsyncInv, LockInv
  <2> QED BY <1>1, <2>1
<1>3. InFlight(a) = 0
  BY <1>1, <1>2 DEF AsyncInv, OneWakeupPerSend
<1> QED BY <1>1, <1>3, SMTT(30) DEF AsyncInv, TypeOK, InFlight

\* An event that is in events[] while nobody holds its lock has async_sent set.
LEMMA BatchIsSent ==
  ASSUME AsyncInv, NEW a \in Asyncs, a \in batch, lock[a] = None
  PROVE  sent[a] /\ pipe[a] = 0 /\ state[a] = "started"
<1>1. state[a] = "started"
  BY DEF AsyncInv, ObjectInv
<1>2. Announced(a) /\ pipe[a] = 0
  BY <1>1 DEF AsyncInv, TypeOK, OneWakeupPerSend, InFlight
<1>3. ASSUME NEW s \in Senders, spc[s] = "written", sarg[s] = a PROVE FALSE
  BY <1>3, NamesAreDistinct DEF AsyncInv, LockInv
<1> QED BY <1>1, <1>2, <1>3 DEF Announced

-----------------------------------------------------------------------------
(* What each conjunct depends on.                                          *)

\* What the steps of the proof use of the invariant: the types of what the
\* senders and the loop share, and the other conjuncts by name.
LEMMA AsyncFacts ==
  ASSUME AsyncInv
  PROVE  /\ state \in [Asyncs -> {"none", "created", "started", "freed"}]
         /\ deleted \in [Asyncs -> BOOLEAN] /\ sent \in [Asyncs -> BOOLEAN]
         /\ pipe \in [Asyncs -> 0 .. PipeCap]
         /\ lock \in [Asyncs -> Senders \cup {None}]
         /\ posted \in [Asyncs -> SUBSET Threads]
         /\ spc \in [Senders -> {"idle", "posted", "locked", "written"}]
         /\ sarg \in [Senders -> Asyncs \cup {None}]
         /\ LockInv /\ SenderInv /\ ObjectInv /\ PhaseInv
         /\ OneWakeupPerSend /\ NoLostItem
BY Zenon DEF AsyncInv, TypeOK

\* Who is on the way for an event is counted from these variables only.
LEMMA WakeupFrame ==
  ASSUME UNCHANGED <<sent, pipe, spc, sarg, batch>>, NEW a
  PROVE  (Announced(a)' <=> Announced(a)) /\ InFlight(a)' = InFlight(a)
BY DEF Announced, InFlight

\* A step that changes none of what a conjunct speaks of keeps it.
LEMMA LockFrame ==
  ASSUME LockInv, UNCHANGED <<spc, sarg, lock>>
  PROVE  LockInv'
BY DEF LockInv

LEMMA SenderFrame ==
  ASSUME SenderInv, UNCHANGED <<spc, sarg, state, deleted, sent>>
  PROVE  SenderInv'
BY Zenon DEF SenderInv, Usable

LEMMA ObjectFrame ==
  ASSUME ObjectInv, UNCHANGED <<state, deleted, sent, pipe, posted, batch, endgame>>
  PROVE  ObjectInv'
BY DEF ObjectInv

LEMMA PhaseFrame ==
  ASSUME PhaseInv, UNCHANGED <<lpc, batch, self>>
  PROVE  PhaseInv'
BY DEF PhaseInv

LEMMA CountFrame ==
  ASSUME OneWakeupPerSend, UNCHANGED <<state, sent, pipe, spc, sarg, batch>>
  PROVE  OneWakeupPerSend'
BY WakeupFrame DEF OneWakeupPerSend

-----------------------------------------------------------------------------
(* The invariant is inductive.                                             *)

\* mutex_lock(&async->lock) of a sender.
LEMMA SendLockPreserves ==
  ASSUME AsyncInv, TypeOK', NEW s \in Senders, SendLock(s)
  PROVE  AsyncInv'
<1> USE AsyncFacts
<1>1. /\ spc[s] = "posted" /\ lock[sarg[s]] = None
      /\ lock' = [lock EXCEPT ![sarg[s]] = s] /\ spc' = [spc EXCEPT ![s] = "locked"]
      /\ state' = state /\ deleted' = deleted /\ sent' = sent /\ pipe' = pipe
      /\ posted' = posted /\ sarg' = sarg /\ endgame' = endgame
      /\ lpc' = lpc /\ batch' = batch /\ self' = self
  BY DEF SendLock, loopVars
<1>2. sarg[s] \in Asyncs
  BY <1>1, Zenon DEF SenderInv
<1>3. LockInv'
  BY <1>1, <1>2, NamesAreDistinct DEF LockInv
<1>4. SenderInv'
  BY <1>1 DEF SenderInv, Usable
<1>5. ObjectInv' /\ PhaseInv'
  BY <1>1, ObjectFrame, PhaseFrame
<1>6. \A a : (Announced(a)' <=> Announced(a)) /\ InFlight(a)' = InFlight(a)
  BY <1>1 DEF Announced, InFlight
<1>7. OneWakeupPerSend'
  BY <1>1, <1>6 DEF OneWakeupPerSend
<1>8. NoLostItem'
  BY <1>1, <1>6 DEF NoLostItem, Usable
<1> QED BY <1>3, <1>4, <1>5, <1>7, <1>8, Zenon DEF AsyncInv

\* nanoev_async_send() returns without a write(): async_sent is set, for a
\* sender that finds it clear finds room in the pipe.
LEMMA SendNothingPreserves ==
  ASSUME AsyncInv, TypeOK', NEW s \in Senders, SendNothing(s)
  PROVE  AsyncInv'
<1> USE AsyncFacts
<1>1. /\ spc[s] = "locked"
      /\ lock' = [lock EXCEPT ![sarg[s]] = None]
      /\ spc' = [spc EXCEPT ![s] = "idle"] /\ sarg' = [sarg EXCEPT ![s] = None]
      /\ state' = state /\ deleted' = deleted /\ sent' = sent /\ pipe' = pipe
      /\ posted' = posted /\ endgame' = endgame
      /\ lpc' = lpc /\ batch' = batch /\ self' = self
  BY DEF SendNothing, SendReturn, loopVars
<1>2. sent[sarg[s]] \/ pipe[sarg[s]] = PipeCap
  BY Zenon DEF SendNothing
<1>3. sent[sarg[s]]
  BY <1>1, <1>2, LockedAndClear, PipeCapAssumption, Zenon
<1>4. sarg[s] \in Asyncs /\ lock[sarg[s]] = s /\ Usable(sarg[s])
  BY <1>1, SMTT(30) DEF SenderInv, LockInv
<1>5. LockInv'
  BY <1>1, <1>4, NamesAreDistinct, SMTT(30) DEF LockInv
<1>6. SenderInv'
  BY <1>1 DEF SenderInv, Usable
<1>7. ObjectInv' /\ PhaseInv'
  BY <1>1, ObjectFrame, PhaseFrame
<1>8. \A a \in Asyncs : (Announced(a)' <=> Announced(a)) /\ InFlight(a)' = InFlight(a)
  BY <1>1, NamesAreDistinct DEF Announced, InFlight
<1>9. OneWakeupPerSend'
  BY <1>1, <1>8 DEF OneWakeupPerSend
<1>10. InFlight(sarg[s]) = 1
  BY <1>3, <1>4, Zenon DEF OneWakeupPerSend, Announced, Usable
<1>11. NoLostItem'
  BY <1>1, <1>8, <1>10, Zenon DEF NoLostItem, Usable
<1> QED BY <1>5, <1>6, <1>7, <1>9, <1>11, Zenon DEF AsyncInv

\* write(async->pipe_w, buf, 1): no wakeup was under way, now one is.
LEMMA SendWritePreserves ==
  ASSUME AsyncInv, TypeOK', NEW s \in Senders, SendWrite(s)
  PROVE  AsyncInv'
<1> USE AsyncFacts
<1>1. /\ spc[s] = "locked" /\ ~sent[sarg[s]]
      /\ pipe' = [pipe EXCEPT ![sarg[s]] = @ + 1] /\ spc' = [spc EXCEPT ![s] = "written"]
      /\ state' = state /\ deleted' = deleted /\ sent' = sent /\ lock' = lock
      /\ posted' = posted /\ sarg' = sarg /\ endgame' = endgame
      /\ lpc' = lpc /\ batch' = batch /\ self' = self
  BY DEF SendWrite, loopVars
<1>2. sarg[s] \in Asyncs /\ pipe[sarg[s]] = 0 /\ InFlight(sarg[s]) = 0
  BY <1>1, LockedAndClear
<1>3. sarg[s] \notin batch /\ Usable(sarg[s])
  BY <1>1, <1>2 DEF InFlight, SenderInv
<1>4. LockInv'
  BY <1>1, SMTT(30) DEF LockInv
<1>5. SenderInv'
  BY <1>1, SMTT(30) DEF SenderInv, Usable
<1>6. ObjectInv' /\ PhaseInv'
  BY <1>1, <1>2, <1>3, PhaseFrame, Zenon DEF ObjectInv, Usable
<1>7. InFlight(sarg[s])' = 1 /\ Announced(sarg[s])'
  BY <1>1, <1>2, <1>3, SMTT(30) DEF InFlight, Announced
<1>8. \A a \in Asyncs : a # sarg[s] =>
        (Announced(a)' <=> Announced(a)) /\ InFlight(a)' = InFlight(a)
  BY <1>1, SMTT(30) DEF Announced, InFlight
<1>9. OneWakeupPerSend'
  BY <1>1, <1>7, <1>8, Zenon DEF OneWakeupPerSend
<1>10. NoLostItem'
  BY <1>1, <1>7, <1>8, Zenon DEF NoLostItem, Usable
<1> QED BY <1>4, <1>5, <1>6, <1>9, <1>10, Zenon DEF AsyncInv

\* async->async_sent = 1, and the send returns: its wakeup stays announced.
LEMMA SendMarkPreserves ==
  ASSUME AsyncInv, TypeOK', NEW s \in Senders, SendMark(s)
  PROVE  AsyncInv'
<1> USE AsyncFacts
<1>1. /\ spc[s] = "written" /\ sent' = [sent EXCEPT ![sarg[s]] = TRUE]
      /\ lock' = [lock EXCEPT ![sarg[s]] = None]
      /\ spc' = [spc EXCEPT ![s] = "idle"] /\ sarg' = [sarg EXCEPT ![s] = None]
      /\ state' = state /\ deleted' = deleted /\ pipe' = pipe
      /\ posted' = posted /\ endgame' = endgame
      /\ lpc' = lpc /\ batch' = batch /\ self' = self
  BY Zenon DEF SendMark, SendReturn, loopVars
<1>2. sarg[s] \in Asyncs /\ lock[sarg[s]] = s /\ Usable(sarg[s])
  BY <1>1 DEF SenderInv, LockInv
<1>3. \A t \in Senders : spc[t] = "written" /\ sarg[t] = sarg[s] => t = s
  BY <1>2, Zenon DEF LockInv
<1>4. LockInv'
  BY <1>1, <1>2, NamesAreDistinct, SMTT(30) DEF LockInv
<1>5. SenderInv'
  BY <1>1, <1>2, <1>3, NamesAreDistinct, SMTT(30) DEF SenderInv, Usable
<1>6. ObjectInv' /\ PhaseInv'
  BY <1>1, <1>2, PhaseFrame, Zenon DEF ObjectInv, Usable
<1>7. \A a \in Asyncs : (Announced(a)' <=> Announced(a)) /\ InFlight(a)' = InFlight(a)
  BY <1>1, <1>2, NamesAreDistinct, Zenon DEF Announced, InFlight
<1>8. OneWakeupPerSend'
  BY <1>1, <1>7, Zenon DEF OneWakeupPerSend
<1>9. InFlight(sarg[s]) = 1
  BY <1>1, <1>2, Zenon DEF OneWakeupPerSend, Announced, Usable
<1>10. NoLostItem'
  BY <1>1, <1>7, <1>9 DEF NoLostItem, Usable
<1> QED BY <1>4, <1>5, <1>6, <1>8, <1>10, Zenon DEF AsyncInv

\* async_new() and nanoev_async_start(): nothing is under way for the event.
LEMMA NewStartPreserves ==
  ASSUME AsyncInv, TypeOK', NEW a \in Asyncs, New(a) \/ Start(a)
  PROVE  AsyncInv'
<1> USE AsyncFacts
<1>1. /\ state[a] \in {"none", "created"}
      /\ \E x \in {"created", "started"} : state' = [state EXCEPT ![a] = x]
      /\ deleted' = deleted /\ sent' = sent /\ pipe' = pipe /\ lock' = lock
      /\ posted' = posted /\ spc' = spc /\ sarg' = sarg /\ endgame' = endgame
      /\ lpc' = lpc /\ batch' = batch /\ self' = self
  BY DEF New, Start, sendVars, loopVars
<1>2. \A b \in Asyncs : b # a => state'[b] = state[b]
  BY <1>1, Zenon
<1>3. ~sent[a] /\ pipe[a] = 0 /\ a \notin batch /\ posted[a] = {} /\ a \notin endgame
  BY <1>1, Zenon DEF ObjectInv
<1>4. \A s \in Senders : sarg[s] # a
  BY <1>1, NamesAreDistinct DEF SenderInv, Usable
<1>5. LockInv' /\ PhaseInv'
  BY <1>1, LockFrame, PhaseFrame, Zenon
<1>6. SenderInv'
  BY <1>1, <1>2, <1>4, SMTT(30) DEF SenderInv, Usable
<1>7. ObjectInv'
  BY <1>1, <1>2, <1>3, Zenon DEF ObjectInv
<1>8. \A b : (Announced(b)' <=> Announced(b)) /\ InFlight(b)' = InFlight(b)
  BY <1>1, WakeupFrame, Zenon
<1>9. ~Announced(a) /\ InFlight(a) = 0
  BY <1>3, <1>4, SMTT(30) DEF Announced, InFlight
<1>10. OneWakeupPerSend'
  BY <1>2, <1>8, <1>9, Zenon DEF OneWakeupPerSend
<1>11. NoLostItem'
  BY <1>1, <1>2, <1>3, <1>8 DEF NoLostItem, Usable
<1> QED BY <1>5, <1>6, <1>7, <1>10, <1>11, Zenon DEF AsyncInv

\* nanoev_async_send() called by the loop thread.
LEMMA LoopSendPreserves ==
  ASSUME AsyncInv, TypeOK', NEW a \in Asyncs, LoopSend(a)
  PROVE  AsyncInv'
<1> USE AsyncFacts
<1>1. /\ Usable(a) /\ lock[a] = None
      /\ posted' = [posted EXCEPT ![a] = @ \cup {LoopThread}]
      /\ state' = state /\ deleted' = deleted /\ lock' = lock
      /\ spc' = spc /\ sarg' = sarg /\ endgame' = endgame
      /\ lpc' = lpc /\ batch' = batch /\ self' = self
  BY Zenon DEF LoopSend, sendVars, loopVars
<1>2. \A s \in Senders : ~(spc[s] = "written" /\ sarg[s] = a)
  BY <1>1, NamesAreDistinct, SMTT(30) DEF LockInv
<1>3. InFlight(a) = IF sent[a] THEN 1 ELSE 0
  BY <1>1, <1>2, Zenon DEF OneWakeupPerSend, Announced, Usable
<1>4. /\ ~sent[a] => pipe[a] = 0 /\ a \notin batch
      /\ \A b \in Asyncs : b # a => sent'[b] = sent[b] /\ pipe'[b] = pipe[b]
      /\ sent'[a] /\ pipe'[a] = IF sent[a] THEN pipe[a] ELSE 1
  <2>1. ~sent[a] => pipe[a] = 0 /\ a \notin batch
    BY <1>3, SMTT(30) DEF InFlight
  <2>2. CASE sent[a]
    BY <2>2, Zenon DEF LoopSend
  <2>3. CASE ~sent[a]
    BY <2>1, <2>3, PipeCapAssumption, SMTT(30) DEF LoopSend
  <2> QED BY <2>1, <2>2, <2>3, Zenon
<1>5. LockInv' /\ PhaseInv'
  BY <1>1, LockFrame, PhaseFrame, Zenon
<1>6. SenderInv'
  BY <1>1, <1>2, <1>4, SMTT(30) DEF SenderInv, Usable
<1>7. ObjectInv'
  BY <1>1, <1>4 DEF ObjectInv, Usable
<1>8. InFlight(a)' = 1 /\ Announced(a)'
  <2>1. Announced(a)'
    BY <1>4, Zenon DEF Announced
  <2>2. CASE sent[a]
    <3>1. pipe'[a] = pipe[a] /\ batch' = batch /\ InFlight(a) = 1
      BY <1>1, <1>3, <1>4, <2>2, Zenon
    <3>2. InFlight(a)' = InFlight(a)
      BY <3>1, Zenon DEF InFlight
    <3> QED BY <2>1, <3>1, <3>2, Zenon
  <2>3. CASE ~sent[a]
    <3>1. pipe'[a] = 1 /\ a \notin batch'
      BY <1>1, <1>4, <2>3, Zenon
    <3>2. InFlight(a)' = 1
      BY <3>1, SMTT(30) DEF InFlight
    <3> QED BY <2>1, <3>2, Zenon
  <2> QED BY <2>2, <2>3, Zenon
<1>9. \A b \in Asyncs : b # a =>
        (Announced(b)' <=> Announced(b)) /\ InFlight(b)' = InFlight(b)
  BY <1>1, <1>4, Zenon DEF Announced, InFlight
<1>10. OneWakeupPerSend'
  BY <1>1, <1>8, <1>9, Zenon DEF OneWakeupPerSend
<1>11. NoLostItem'
  BY <1>1, <1>8, <1>9, Zenon DEF NoLostItem, Usable
<1> QED BY <1>5, <1>6, <1>7, <1>10, <1>11, Zenon DEF AsyncInv

\* nanoev_event_free(): an event whose wakeup is still to come stays where it
\* is, marked; one for which nothing is under way is released.
LEMMA FreePreserves ==
  ASSUME AsyncInv, TypeOK', NEW a \in Asyncs, Free(a)
  PROVE  AsyncInv'
<1> USE AsyncFacts
<1>1. /\ state[a] \in {"created", "started"} /\ ~deleted[a]
      /\ sent' = sent /\ lock' = lock /\ posted' = posted
      /\ spc' = spc /\ sarg' = sarg
      /\ lpc' = lpc /\ batch' = batch /\ self' = self
  BY Zenon DEF Free, sendVars, loopVars
<1>2. \A s \in Senders : sarg[s] # a
  BY DEF Free, Sending
<1>3. sent[a] => state[a] = "started"
  BY Zenon DEF ObjectInv
<1>4. ~sent[a] => InFlight(a) = 0
  BY <1>1, <1>2, SMTT(30) DEF OneWakeupPerSend, Announced, ObjectInv, InFlight
<1>5. /\ sent[a] =>
           /\ deleted' = [deleted EXCEPT ![a] = TRUE] /\ endgame' = endgame \cup {a}
           /\ state' = state /\ pipe' = pipe
      /\ ~sent[a] =>
           /\ state' = [state EXCEPT ![a] = "freed"] /\ pipe' = [pipe EXCEPT ![a] = 0]
           /\ deleted' = deleted /\ endgame' = endgame
  BY Zenon DEF Free
<1>6. /\ \A b \in Asyncs : b # a =>
           /\ state'[b] = state[b] /\ deleted'[b] = deleted[b] /\ pipe'[b] = pipe[b]
           /\ b \in endgame' <=> b \in endgame
      /\ ~Usable(a)'
  <2>1. CASE sent[a]
    BY <1>5, <2>1 DEF Usable
  <2>2. CASE ~sent[a]
    BY <1>5, <2>2 DEF Usable
  <2> QED BY <2>1, <2>2, Zenon
<1>7. LockInv' /\ PhaseInv'
  BY <1>1, LockFrame, PhaseFrame, Zenon
<1>8. SenderInv'
  BY <1>1, <1>2, <1>6, SMTT(30) DEF SenderInv, Usable
<1>9. ObjectInv'
  <2>1. CASE sent[a]
    BY <1>1, <1>3, <1>5, <2>1, SMTT(30) DEF ObjectInv
  <2>2. CASE ~sent[a]
    <3>1. a \notin batch
      BY <1>4, <2>2, SMTT(30) DEF InFlight
    <3>2. a \notin endgame
      BY <1>1, Zenon DEF ObjectInv
    <3> QED BY <1>1, <1>5, <2>2, <3>1, <3>2, SMTT(30) DEF ObjectInv
  <2> QED BY <2>1, <2>2, Zenon
<1>10. \A b \in Asyncs : b # a =>
         (Announced(b)' <=> Announced(b)) /\ InFlight(b)' = InFlight(b)
  BY <1>1, <1>6 DEF Announced, InFlight
<1>11. OneWakeupPerSend'
  <2>1. CASE sent[a]
    BY <1>1, <1>5, <2>1, CountFrame, Zenon
  <2>2. CASE ~sent[a]
    BY <1>5, <1>6, <1>10, <2>2, Zenon DEF OneWakeupPerSend
  <2> QED BY <2>1, <2>2, Zenon
<1>12. NoLostItem'
  BY <1>1, <1>6, <1>10 DEF NoLostItem, Usable
<1> QED BY <1>7, <1>8, <1>9, <1>11, <1>12, Zenon DEF AsyncInv

\* A sender queues its item and calls nanoev_async_send().
LEMMA PostPreserves ==
  ASSUME AsyncInv, TypeOK', NEW s \in Senders, NEW a \in Asyncs, Post(s, a)
  PROVE  AsyncInv'
<1> USE AsyncFacts
<1>1. /\ spc[s] = "idle" /\ Usable(a)
      /\ posted' = [posted EXCEPT ![a] = @ \cup {s}]
      /\ spc' = [spc EXCEPT ![s] = "posted"] /\ sarg' = [sarg EXCEPT ![s] = a]
      /\ state' = state /\ deleted' = deleted /\ sent' = sent /\ pipe' = pipe
      /\ lock' = lock /\ endgame' = endgame
      /\ lpc' = lpc /\ batch' = batch /\ self' = self
  BY Zenon DEF Post, objVars, loopVars
<1>2. LockInv'
  BY <1>1, NamesAreDistinct, SMTT(30) DEF LockInv
<1>3. SenderInv'
  BY <1>1, NamesAreDistinct, Zenon DEF SenderInv, Usable
<1>4. ObjectInv' /\ PhaseInv'
  BY <1>1, PhaseFrame, Zenon DEF ObjectInv, Usable
<1>5. \A b \in Asyncs : (Announced(b)' <=> Announced(b)) /\ InFlight(b)' = InFlight(b)
  BY <1>1, Zenon DEF Announced, InFlight
<1>6. OneWakeupPerSend'
  BY <1>1, <1>5, Zenon DEF OneWakeupPerSend
<1>7. sarg[s] = None
  BY <1>1, Zenon DEF SenderInv
<1>8. NoLostItem'
  BY <1>1, <1>5, <1>7, NamesAreDistinct DEF NoLostItem, Usable
<1> QED BY <1>2, <1>3, <1>4, <1>6, <1>8, Zenon DEF AsyncInv

\* nanoev_loop_free(), when every event has been freed by the application.
LEMMA LoopFreePreserves ==
  ASSUME AsyncInv, TypeOK', LoopFree
  PROVE  AsyncInv'
<1> USE AsyncFacts
<1>1. /\ lpc = "user" /\ lpc' = "gone" /\ endgame' = {}
      /\ deleted' = deleted /\ sent' = sent /\ lock' = lock /\ posted' = posted
      /\ spc' = spc /\ sarg' = sarg /\ batch' = batch /\ self' = self
  BY Zenon DEF LoopFree, sendVars
<1>2. \A a \in Asyncs :
        /\ state'[a] = IF a \in endgame /\ ~sent[a] THEN "freed" ELSE state[a]
        /\ pipe'[a] = IF a \in endgame /\ ~sent[a] THEN 0 ELSE pipe[a]
  BY Zenon DEF LoopFree
<1>3. batch = {} /\ \A a \in Asyncs : ~Usable(a)
  BY <1>1, Zenon DEF PhaseInv, LoopFree, UserFreed, Usable
<1>4. \A s \in Senders : sarg[s] = None
  BY <1>3, Zenon DEF SenderInv
<1>5. LockInv' /\ PhaseInv'
  BY <1>1, <1>3, LockFrame, Zenon DEF PhaseInv
<1>6. SenderInv'
  BY <1>1, <1>4, NamesAreDistinct, Zenon DEF SenderInv
<1>7. ObjectInv'
  BY <1>1, <1>2, <1>3, Zenon DEF ObjectInv
<1>8. OneWakeupPerSend'
  <2>1. \A a \in Asyncs : state'[a] = "started" => state[a] = "started" /\ pipe'[a] = pipe[a]
    BY <1>2, Zenon
  <2> QED BY <1>1, <2>1, Zenon DEF OneWakeupPerSend, Announced, InFlight
<1>9. NoLostItem'
  BY <1>1, <1>2, <1>3 DEF NoLostItem, Usable
<1> QED BY <1>5, <1>6, <1>7, <1>8, <1>9, Zenon DEF AsyncInv

\* The loop moves on between its phases and on_async() returns.
LEMMA PhasePreserves ==
  ASSUME AsyncInv, TypeOK',
         TimersDone \/ EndgameDone \/ BatchDone \/ CallbackReturn
  PROVE  AsyncInv'
<1> USE AsyncFacts
<1>1. /\ state' = state /\ deleted' = deleted /\ sent' = sent /\ pipe' = pipe
      /\ lock' = lock /\ posted' = posted /\ spc' = spc /\ sarg' = sarg
      /\ endgame' = endgame /\ batch' = batch /\ lpc # "on_async"
  BY Zenon DEF TimersDone, EndgameDone, BatchDone, CallbackReturn, objVars, sendVars
<1>2. LockInv' /\ SenderInv' /\ ObjectInv' /\ OneWakeupPerSend'
  BY <1>1, LockFrame, SenderFrame, ObjectFrame, CountFrame, Zenon
<1>3. PhaseInv'
  BY <1>1, Zenon DEF PhaseInv, TimersDone, EndgameDone, BatchDone, CallbackReturn
<1>4. NoLostItem'
  BY <1>1, WakeupFrame DEF NoLostItem, Usable
<1> QED BY <1>2, <1>3, <1>4, Zenon DEF AsyncInv

\* poller_poll(): a wakeup moves from the pipe to events[].
LEMMA PollPreserves ==
  ASSUME AsyncInv, TypeOK', Poll
  PROVE  AsyncInv'
<1> USE AsyncFacts
<1>1. /\ lpc = "poll" /\ lpc' = "dispatch" /\ self' = self
      /\ state' = state /\ deleted' = deleted /\ sent' = sent /\ lock' = lock
      /\ posted' = posted /\ spc' = spc /\ sarg' = sarg /\ endgame' = endgame
  BY Zenon DEF Poll, sendVars
<1>2. batch = {} /\ self = None
  BY <1>1, Zenon DEF PhaseInv
<1>3. \A a \in Asyncs :
        /\ a \in batch' <=> state[a] = "started" /\ pipe[a] > 0
        /\ pipe'[a] = IF a \in batch' THEN pipe[a] - 1 ELSE pipe[a]
  BY Zenon DEF Poll, Ready
<1>4. LockInv' /\ SenderInv' /\ PhaseInv'
  BY <1>1, <1>2, LockFrame, SenderFrame, Zenon DEF PhaseInv
<1>5. ObjectInv'
  BY <1>1, <1>3, Zenon DEF ObjectInv
<1>6. \A a \in Asyncs : (Announced(a)' <=> Announced(a)) /\ InFlight(a)' = InFlight(a)
  BY <1>1, <1>2, <1>3, SMTT(30) DEF Announced, InFlight
<1>7. OneWakeupPerSend'
  BY <1>1, <1>6, Zenon DEF OneWakeupPerSend
<1>8. NoLostItem'
  BY <1>1, <1>6 DEF NoLostItem, Usable
<1> QED BY <1>4, <1>5, <1>7, <1>8, Zenon DEF AsyncInv

\* __async_proactor_callback(): async_sent is cleared with the one wakeup that
\* was under way, and on_async() is about to take what was posted.
LEMMA ProactorCallbackPreserves ==
  ASSUME AsyncInv, TypeOK', NEW a \in Asyncs, ProactorCallback(a)
  PROVE  AsyncInv'
<1> USE AsyncFacts
<1>1. /\ lpc = "dispatch" /\ a \in batch /\ lock[a] = None
      /\ batch' = batch \ {a} /\ sent' = [sent EXCEPT ![a] = FALSE]
      /\ state' = state /\ deleted' = deleted /\ pipe' = pipe /\ lock' = lock
      /\ posted' = posted /\ spc' = spc /\ sarg' = sarg /\ endgame' = endgame
  BY Zenon DEF ProactorCallback, sendVars
<1>2. sent[a] /\ pipe[a] = 0 /\ state[a] = "started"
  BY <1>1, BatchIsSent, Zenon
<1>3. /\ deleted[a] => lpc' = lpc /\ self' = self
      /\ ~deleted[a] => lpc' = "on_async" /\ self' = a
  BY <1>2, Zenon DEF ProactorCallback
<1>4. \A s \in Senders : ~(spc[s] = "written" /\ sarg[s] = a)
  BY <1>1, NamesAreDistinct, SMTT(30) DEF LockInv
<1>5. LockInv'
  BY <1>1, LockFrame, Zenon
<1>6. SenderInv'
  BY <1>1, Zenon DEF SenderInv, Usable
<1>7. ObjectInv'
  BY <1>1, <1>2, Zenon DEF ObjectInv
<1>8. PhaseInv'
  BY <1>1, <1>3, NamesAreDistinct, Zenon DEF PhaseInv
<1>9. ~Announced(a)' /\ InFlight(a)' = 0
  BY <1>1, <1>2, <1>4, SMTT(30) DEF Announced, InFlight
<1>10. \A b \in Asyncs : b # a =>
         (Announced(b)' <=> Announced(b)) /\ InFlight(b)' = InFlight(b)
  BY <1>1, Zenon DEF Announced, InFlight
<1>11. OneWakeupPerSend'
  BY <1>1, <1>9, <1>10, Zenon DEF OneWakeupPerSend
<1>12. NoLostItem'
  BY <1>1, <1>3, <1>10 DEF NoLostItem, Usable
<1> QED BY <1>5, <1>6, <1>7, <1>8, <1>11, <1>12, Zenon DEF AsyncInv

\* on_async() takes the items.
LEMMA TakePreserves ==
  ASSUME AsyncInv, TypeOK', Take
  PROVE  AsyncInv'
<1> USE AsyncFacts
<1>1. /\ lpc = "on_async" /\ lpc' = "taken" /\ posted' = [posted EXCEPT ![self] = {}]
      /\ state' = state /\ deleted' = deleted /\ sent' = sent /\ pipe' = pipe
      /\ lock' = lock /\ spc' = spc /\ sarg' = sarg
      /\ endgame' = endgame /\ batch' = batch /\ self' = self
  BY DEF Take, objVars, sendVars
<1>2. \A a \in Asyncs : posted'[a] = IF a = self THEN {} ELSE posted[a]
  BY <1>1, Zenon
<1>3. LockInv' /\ SenderInv' /\ OneWakeupPerSend'
  BY <1>1, LockFrame, SenderFrame, CountFrame, Zenon
<1>4. ObjectInv' /\ PhaseInv'
  BY <1>1, <1>2, Zenon DEF ObjectInv, PhaseInv
<1>5. NoLostItem'
  BY <1>1, <1>2, WakeupFrame DEF NoLostItem, Usable
<1> QED BY <1>3, <1>4, <1>5, Zenon DEF AsyncInv

\* An event leaves the endgame list: it is released only when nothing is under
\* way for it.
LEMMA EndgameFreePreserves ==
  ASSUME AsyncInv, TypeOK', NEW a \in Asyncs, EndgameFree(a)
  PROVE  AsyncInv'
<1> USE AsyncFacts
<1>1. /\ a \in endgame /\ endgame' = endgame \ {a}
      /\ deleted' = deleted /\ sent' = sent /\ lock' = lock /\ posted' = posted
      /\ spc' = spc /\ sarg' = sarg /\ lpc' = lpc /\ batch' = batch /\ self' = self
  BY Zenon DEF EndgameFree, sendVars, loopVars
<1>2. deleted[a] /\ state[a] = "started"
  BY <1>1, Zenon DEF ObjectInv
<1>3. \A s \in Senders : sarg[s] # a
  BY <1>2, NamesAreDistinct, SMTT(30) DEF SenderInv, Usable
<1>4. LockInv' /\ PhaseInv'
  BY <1>1, LockFrame, PhaseFrame
<1>5. CASE sent[a]
  <2>1. state' = state /\ pipe' = pipe
    BY <1>5, Zenon DEF EndgameFree
  <2>2. SenderInv' /\ OneWakeupPerSend'
    BY <1>1, <2>1, SenderFrame, CountFrame, Zenon
  <2>3. ObjectInv'
    BY <1>1, <2>1, Zenon DEF ObjectInv
  <2>4. NoLostItem'
    BY <1>1, <2>1, WakeupFrame, Zenon DEF NoLostItem, Usable
  <2> QED BY <1>4, <2>2, <2>3, <2>4, Zenon DEF AsyncInv
<1>6. CASE ~sent[a]
  <2>1. state' = [state EXCEPT ![a] = "freed"] /\ pipe' = [pipe EXCEPT ![a] = 0]
    BY <1>6 DEF EndgameFree
  <2>2. InFlight(a) = 0
    BY <1>2, <1>3, <1>6 DEF OneWakeupPerSend, Announced
  <2>3. a \notin batch
    BY <2>2, SMTT(30) DEF InFlight
  <2>4. SenderInv'
    BY <1>1, <1>3, <2>1, SMTT(30) DEF SenderInv, Usable
  <2>5. ObjectInv'
    BY <1>1, <1>6, <2>1, <2>3, Zenon DEF ObjectInv
  <2>6. \A b \in Asyncs : b # a =>
          (Announced(b)' <=> Announced(b)) /\ InFlight(b)' = InFlight(b)
    BY <1>1, <2>1, Zenon DEF Announced, InFlight
  <2>7. OneWakeupPerSend'
    BY <2>1, <2>6, Zenon DEF OneWakeupPerSend
  <2>8. NoLostItem'
    BY <1>1, <2>1, <2>6 DEF NoLostItem, Usable
  <2> QED BY <1>4, <2>4, <2>5, <2>7, <2>8, Zenon DEF AsyncInv
<1> QED BY <1>5, <1>6, Zenon

\* Every step of Async keeps the invariant.
LEMMA AsyncStep ==
  ASSUME AsyncInv, TypeOK', Next
  PROVE  AsyncInv'
<1>1. CASE Application
  BY <1>1, NewStartPreserves, LoopSendPreserves, FreePreserves, PostPreserves,
     LoopFreePreserves DEF Application
<1>2. CASE LoopStep
  BY <1>2, PhasePreserves, PollPreserves, ProactorCallbackPreserves, TakePreserves,
     EndgameFreePreserves DEF LoopStep
<1>3. ASSUME NEW s \in Senders, Send(s) PROVE AsyncInv'
  BY <1>3, SendLockPreserves, SendNothingPreserves, SendWritePreserves,
     SendMarkPreserves DEF Send
<1> QED BY <1>1, <1>2, <1>3, Zenon DEF Next

\* The inductive invariant holds in every reachable state.
THEOREM AsyncInvariance == Spec => []AsyncInv
<1>1. Init => AsyncInv
  <2> SUFFICES ASSUME Init PROVE AsyncInv
    OBVIOUS
  <2>1. LockInv /\ SenderInv
    BY NamesAreDistinct, Zenon DEF Init, LockInv, SenderInv
  <2>2. ObjectInv /\ PhaseInv
    BY Zenon DEF Init, ObjectInv, PhaseInv
  <2>3. OneWakeupPerSend /\ NoLostItem
    BY DEF Init, OneWakeupPerSend, NoLostItem, Usable
  <2> QED BY <2>1, <2>2, <2>3, InitType, Zenon DEF AsyncInv
<1>2. AsyncInv /\ TypeOK' /\ [Next]_vars => AsyncInv'
  <2> SUFFICES ASSUME AsyncInv, TypeOK', [Next]_vars PROVE AsyncInv'
    OBVIOUS
  <2>1. CASE UNCHANGED vars
    <3>1. /\ state' = state /\ deleted' = deleted /\ sent' = sent /\ pipe' = pipe
          /\ lock' = lock /\ posted' = posted /\ spc' = spc /\ sarg' = sarg
          /\ endgame' = endgame /\ lpc' = lpc /\ batch' = batch /\ self' = self
      BY <2>1, Zenon DEF vars, objVars, sendVars, loopVars
    <3>2. LockInv' /\ SenderInv' /\ ObjectInv' /\ PhaseInv' /\ OneWakeupPerSend'
      BY <3>1, AsyncFacts, LockFrame, SenderFrame, ObjectFrame, PhaseFrame, CountFrame, Zenon
    <3>3. NoLostItem'
      BY <3>1, AsyncFacts, WakeupFrame DEF NoLostItem, Usable
    <3> QED BY <3>2, <3>3, Zenon DEF AsyncInv
  <2> QED BY <2>1, AsyncStep
<1> QED BY <1>1, <1>2, AsyncTypes, PTL DEF Spec

\* async_sent and the pipe agree: one wakeup is under way while a send is
\* announced and none otherwise, for any number of events and threads.
THEOREM WakeupPerSend == Spec => []OneWakeupPerSend
<1>1. AsyncInv => OneWakeupPerSend
  BY DEF AsyncInv
<1> QED BY <1>1, AsyncInvariance, PTL

\* Coalescing in nanoev_async_send() loses no wakeup.
THEOREM NothingIsLost == Spec => []NoLostItem
<1>1. AsyncInv => NoLostItem
  BY DEF AsyncInv
<1> QED BY <1>1, AsyncInvariance, PTL

\* The loop does not call the cb of a released event, whatever the callbacks
\* of a batch free.
THEOREM BatchIsAllocated == Spec => []NoUseAfterFree
<1>1. AsyncInv => NoUseAfterFree
  BY Zenon DEF AsyncInv, TypeOK, ObjectInv, NoUseAfterFree
<1> QED BY <1>1, AsyncInvariance, PTL

=============================================================================

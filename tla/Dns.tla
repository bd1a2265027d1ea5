--------------------------------- MODULE Dns ---------------------------------
(***************************************************************************)
(* nanoev_dns.c: DNS events, the queue of requests and the pool of worker  *)
(* threads that call the system resolver.  The pool belongs to the         *)
(* process: the events of every loop, each with a thread of its own, share *)
(* it.                                                                     *)
(*                                                                         *)
(* A request passes from the loop thread through the queue to a worker and *)
(* back through the async event of the DNS event.  The application may     *)
(* free the event, or resolve again from the callback, at any time.  What  *)
(* is done under dns->lock or under dns_pool.lock is one step; the async   *)
(* event is used as the module Async shows it to work: a send is followed  *)
(* by one call of dns_on_async().                                          *)
(***************************************************************************)
EXTENDS Integers, Sequences

CONSTANTS
  Loops,      \* the loops, each run by a thread of its own
  DnsEvents,  \* DNS events that may be created
  Workers,    \* the threads of the pool (DNS_THREAD_COUNT)
  NoEvent     \* no event

ASSUME NoEventAssumption == NoEvent \notin DnsEvents
ASSUME WorkersExist == Workers # {}

VARIABLES
  loop,       \* dns->loop, NoEvent before the event is created
  dstate,     \* "none", "live" or "freed" for each event
  pending,    \* dns->pending
  completed,  \* dns->completed
  ddeleted,   \* NANOEV_DNS_FLAG_DELETED
  host,       \* dns->host is a string that has not been freed
  signal,     \* nanoev_async_send() has been called, dns_on_async() has not
  requests,   \* dns_pool.head ... dns_pool.tail
  pool,       \* "up", "halting" (in dns_start_workers_locked()), "stopping" (in
              \* dns_term()) or "down"
  starting,   \* the event whose resolve could not start the workers and joins
              \* those that run
  started,    \* dns_pool.started is not zero
  wpc,        \* where each worker is
  warg,       \* the event it works on
  dlpc,       \* each loop thread: "user", "callback" or "gone"
  dself       \* the event whose callback it is running

eventVars == <<loop, dstate, pending, completed, ddeleted, host, signal>>
workerVars == <<wpc, warg>>
dnsLoopVars == <<dlpc, dself>>
poolVars == <<pool, started, starting>>
dnsVars == <<eventVars, requests, poolVars, workerVars, dnsLoopVars>>

DnsTypeOK ==
  /\ loop \in [DnsEvents -> Loops \cup {NoEvent}]
  /\ dstate \in [DnsEvents -> {"none", "live", "freed"}]
  /\ pending \in [DnsEvents -> BOOLEAN]
  /\ completed \in [DnsEvents -> BOOLEAN]
  /\ ddeleted \in [DnsEvents -> BOOLEAN]
  /\ host \in [DnsEvents -> BOOLEAN]
  /\ signal \in [DnsEvents -> BOOLEAN]
  /\ requests \in Seq(DnsEvents)
  /\ pool \in {"up", "halting", "stopping", "down"}
  /\ starting \in DnsEvents \cup {NoEvent}
  /\ started \in BOOLEAN
  /\ wpc \in [Workers -> {"none", "loop", "asleep", "popped", "resolving", "resolved",
                          "exited"}]
  /\ warg \in [Workers -> DnsEvents \cup {NoEvent}]
  /\ dlpc \in [Loops -> {"user", "callback", "gone"}]
  /\ dself \in [Loops -> DnsEvents \cup {NoEvent}]

DnsInit ==
  /\ loop = [d \in DnsEvents |-> NoEvent]
  /\ dstate = [d \in DnsEvents |-> "none"]
  /\ pending = [d \in DnsEvents |-> FALSE]
  /\ completed = [d \in DnsEvents |-> FALSE]
  /\ ddeleted = [d \in DnsEvents |-> FALSE]
  /\ host = [d \in DnsEvents |-> FALSE]
  /\ signal = [d \in DnsEvents |-> FALSE]
  /\ requests = <<>>
  /\ pool = "up"
  /\ starting = NoEvent
  /\ started = FALSE
  /\ wpc = [w \in Workers |-> "none"]
  /\ warg = [w \in Workers |-> NoEvent]
  /\ dlpc = [l \in Loops |-> "user"]
  /\ dself = [l \in Loops |-> NoEvent]

-----------------------------------------------------------------------------
(* The loop threads.  A thread is blocked while it joins workers; dns_term() *)
(* is called when no loop is running, and the application waits for it.      *)

Blocked(l) == pool = "stopping" \/ (starting # NoEvent /\ loop[starting] = l)
DnsUserCode(l) == dlpc[l] \in {"user", "callback"} /\ ~Blocked(l)
DnsUsable(l, d) == loop[d] = l /\ dstate[d] = "live" /\ ~ddeleted[d]

\* dns_new()
DnsNew(l, d) ==
  /\ DnsUserCode(l)
  /\ dstate[d] = "none"
  /\ loop' = [loop EXCEPT ![d] = l]
  /\ dstate' = [dstate EXCEPT ![d] = "live"]
  /\ UNCHANGED <<pending, completed, ddeleted, host, signal, requests, poolVars, workerVars,
                 dnsLoopVars>>

\* cond_signal(): one of the sleeping workers, if there is one, wakes.
CondSignal ==
  \/ \E w \in Workers : wpc[w] = "asleep" /\ wpc' = [wpc EXCEPT ![w] = "loop"]
  \/ (\A w \in Workers : wpc[w] # "asleep") /\ UNCHANGED wpc

\* Mutant: an enqueue that wakes nobody.
EnqueueSilently(d) ==
  /\ requests' = Append(requests, d)
  /\ started' = TRUE
  /\ IF started THEN UNCHANGED wpc ELSE wpc' = [w \in Workers |-> "loop"]

\* dns_enqueue(), with dns_start_workers_locked() the first time
Enqueue(d) ==
  /\ requests' = Append(requests, d)
  /\ started' = TRUE
  /\ IF started THEN CondSignal ELSE wpc' = [w \in Workers |-> "loop"]

\* nanoev_dns_resolve() up to dns_enqueue()
Requested(l, d) ==
  /\ DnsUserCode(l)
  /\ DnsUsable(l, d)
  /\ ~pending[d]
  /\ pool = "up"
  /\ pending' = [pending EXCEPT ![d] = TRUE]
  /\ completed' = [completed EXCEPT ![d] = FALSE]
  /\ host' = [host EXCEPT ![d] = TRUE]
  /\ UNCHANGED <<loop, dstate, ddeleted, signal, warg, dnsLoopVars>>

\* nanoev_dns_resolve() that succeeds.  One that is refused, or that finds the
\* pool halting, stopping or down, leaves everything as it was.
Resolve(l, d) ==
  /\ Requested(l, d)
  /\ Enqueue(d)
  /\ UNCHANGED <<pool, starting>>

\* A resolve that has to start the workers and cannot create one of them: those
\* of W run.  They waited for dns_pool.lock, and it is released for them to see
\* dns_pool.stopping.
StartFails(l, d) ==
  /\ Requested(l, d)
  /\ ~started
  /\ \E W \in SUBSET Workers \ {Workers} :
       wpc' = [w \in Workers |-> IF w \in W THEN "loop" ELSE "none"]
  /\ pool' = "halting"
  /\ starting' = d
  /\ UNCHANGED <<requests, started>>

\* They are joined, the pool may be started again and the resolve fails.
StartFailed(d) ==
  /\ starting = d
  /\ \A w \in Workers : wpc[w] \in {"none", "exited"}
  /\ pool' = "up"
  /\ starting' = NoEvent
  /\ wpc' = [w \in Workers |-> "none"]
  /\ pending' = [pending EXCEPT ![d] = FALSE]
  /\ host' = [host EXCEPT ![d] = FALSE]
  /\ UNCHANGED <<loop, dstate, completed, ddeleted, signal, requests, started, warg, dnsLoopVars>>

\* Mutant: a dns_free() that does not look at pending.
DnsFreeAtOnce(l, d) ==
  /\ DnsUserCode(l)
  /\ DnsUsable(l, d)
  /\ dstate' = [dstate EXCEPT ![d] = "freed"]
  /\ host' = [host EXCEPT ![d] = FALSE]
  /\ UNCHANGED <<loop, pending, completed, ddeleted, signal, requests, poolVars, workerVars,
                 dnsLoopVars>>

\* nanoev_event_free(d), that is dns_free(d), with dns_destroy()
DnsFree(l, d) ==
  /\ DnsUserCode(l)
  /\ DnsUsable(l, d)
  /\ IF pending[d]
       THEN /\ ddeleted' = [ddeleted EXCEPT ![d] = TRUE]
            /\ UNCHANGED <<dstate, host>>
       ELSE /\ dstate' = [dstate EXCEPT ![d] = "freed"]
            /\ host' = [host EXCEPT ![d] = FALSE]
            /\ UNCHANGED ddeleted
  /\ UNCHANGED <<loop, pending, completed, signal, requests, poolVars, workerVars, dnsLoopVars>>

\* dns_on_async() up to the callback; an event that has been freed meanwhile is
\* destroyed instead.
OnAsync(l, d) ==
  /\ dlpc[l] = "user" /\ ~Blocked(l)
  /\ loop[d] = l
  /\ signal[d]
  /\ signal' = [signal EXCEPT ![d] = FALSE]
  /\ IF ~completed[d]
       THEN UNCHANGED <<dstate, pending, completed, host, dnsLoopVars>>
       ELSE /\ pending' = [pending EXCEPT ![d] = FALSE]
            /\ completed' = [completed EXCEPT ![d] = FALSE]
            /\ host' = [host EXCEPT ![d] = FALSE]
            /\ IF ddeleted[d]
                 THEN /\ dstate' = [dstate EXCEPT ![d] = "freed"]
                      /\ UNCHANGED dnsLoopVars
                 ELSE /\ dlpc' = [dlpc EXCEPT ![l] = "callback"]
                      /\ dself' = [dself EXCEPT ![l] = d]
                      /\ UNCHANGED dstate
  /\ UNCHANGED <<loop, ddeleted, requests, poolVars, workerVars>>

\* The callback returns; the event may be gone by now and is not touched.
DnsCallbackReturn(l) ==
  /\ dlpc[l] = "callback" /\ ~Blocked(l)
  /\ dlpc' = [dlpc EXCEPT ![l] = "user"]
  /\ dself' = [dself EXCEPT ![l] = NoEvent]
  /\ UNCHANGED <<eventVars, requests, poolVars, workerVars>>

\* nanoev_loop_free(), after the application has freed every event of the loop
DnsLoopFree(l) ==
  /\ dlpc[l] = "user" /\ ~Blocked(l)
  /\ \A d \in DnsEvents : ~DnsUsable(l, d)
  /\ dlpc' = [dlpc EXCEPT ![l] = "gone"]
  /\ UNCHANGED <<eventVars, requests, poolVars, workerVars, dself>>

CanTerm == pool = "up" /\ \A l \in Loops : dlpc[l] \in {"user", "gone"}

\* Mutant: the sleeping workers are not woken.
TermSilent ==
  /\ CanTerm
  /\ pool' = "stopping"
  /\ UNCHANGED <<eventVars, requests, started, starting, workerVars, dnsLoopVars>>

\* nanoev_term(): dns_term() up to the first thread_join(), with cond_broadcast()
Term ==
  /\ CanTerm
  /\ pool' = "stopping"
  /\ wpc' = [w \in Workers |-> IF wpc[w] = "asleep" THEN "loop" ELSE wpc[w]]
  /\ UNCHANGED <<eventVars, requests, started, starting, warg, dnsLoopVars>>

\* All threads are joined; the pool is cleared.
TermEnd ==
  /\ pool = "stopping"
  /\ \A w \in Workers : wpc[w] \in {"none", "exited"}
  /\ pool' = "down"
  /\ started' = FALSE
  /\ requests' = <<>>
  /\ wpc' = [w \in Workers |-> "none"]
  /\ UNCHANGED <<eventVars, starting, warg, dnsLoopVars>>

\* nanoev_init() again
InitAgain ==
  /\ pool = "down"
  /\ pool' = "up"
  /\ UNCHANGED <<eventVars, requests, started, starting, workerVars, dnsLoopVars>>

-----------------------------------------------------------------------------
(* dns_worker()                                                             *)

Stopping == pool \in {"halting", "stopping"}    \* dns_pool.stopping

\* The queue is empty: cond_wait().
Sleep(w) ==
  /\ wpc[w] = "loop"
  /\ requests = <<>>
  /\ ~Stopping
  /\ wpc' = [wpc EXCEPT ![w] = "asleep"]
  /\ UNCHANGED <<eventVars, requests, poolVars, warg, dnsLoopVars>>

\* cond_wait() may return by itself.
SpuriousWakeup(w) ==
  /\ wpc[w] = "asleep"
  /\ wpc' = [wpc EXCEPT ![w] = "loop"]
  /\ UNCHANGED <<eventVars, requests, poolVars, warg, dnsLoopVars>>

\* Mutant: a worker that returns as soon as the pool is stopping.
ExitEarly(w) ==
  /\ wpc[w] = "loop"
  /\ Stopping
  /\ wpc' = [wpc EXCEPT ![w] = "exited"]
  /\ UNCHANGED <<eventVars, requests, poolVars, warg, dnsLoopVars>>

\* The queue is empty and the pool is stopping: the worker returns.
Exit(w) ==
  /\ wpc[w] = "loop"
  /\ requests = <<>>
  /\ Stopping
  /\ wpc' = [wpc EXCEPT ![w] = "exited"]
  /\ UNCHANGED <<eventVars, requests, poolVars, warg, dnsLoopVars>>

\* Mutant: a worker that looks at the head of the queue and leaves it there.
PopPeek(w) ==
  /\ wpc[w] = "loop"
  /\ requests # <<>>
  /\ warg' = [warg EXCEPT ![w] = Head(requests)]
  /\ wpc' = [wpc EXCEPT ![w] = "popped"]
  /\ UNCHANGED <<eventVars, requests, poolVars, dnsLoopVars>>

\* The worker takes the head of the queue.
Pop(w) ==
  /\ wpc[w] = "loop"
  /\ requests # <<>>
  /\ warg' = [warg EXCEPT ![w] = Head(requests)]
  /\ requests' = Tail(requests)
  /\ wpc' = [wpc EXCEPT ![w] = "popped"]
  /\ UNCHANGED <<eventVars, poolVars, dnsLoopVars>>

\* dns->host is read under the lock; getaddrinfo() uses it after the unlock.
ReadHost(w) ==
  /\ wpc[w] = "popped"
  /\ wpc' = [wpc EXCEPT ![w] = "resolving"]
  /\ UNCHANGED <<eventVars, requests, poolVars, warg, dnsLoopVars>>

\* getaddrinfo() has returned, and so has dns_copy_results(): the result, good
\* or bad, is stored.
Store(w) ==
  /\ wpc[w] = "resolving"
  /\ completed' = [completed EXCEPT ![warg[w]] = TRUE]
  /\ wpc' = [wpc EXCEPT ![w] = "resolved"]
  /\ UNCHANGED <<loop, dstate, pending, ddeleted, host, signal, requests, poolVars, warg,
                 dnsLoopVars>>

\* nanoev_async_send(dns->async), outside the lock
DnsSend(w) ==
  /\ wpc[w] = "resolved"
  /\ signal' = [signal EXCEPT ![warg[w]] = TRUE]
  /\ wpc' = [wpc EXCEPT ![w] = "loop"]
  /\ warg' = [warg EXCEPT ![w] = NoEvent]
  /\ UNCHANGED <<loop, dstate, pending, completed, ddeleted, host, requests, poolVars,
                 dnsLoopVars>>

-----------------------------------------------------------------------------
WorkerStep(w) ==
  Sleep(w) \/ Exit(w) \/ Pop(w) \/ ReadHost(w) \/ Store(w) \/ DnsSend(w)

DnsNext ==
  \/ \E l \in Loops :
       \/ \E d \in DnsEvents :
            DnsNew(l, d) \/ Resolve(l, d) \/ StartFails(l, d) \/ DnsFree(l, d) \/ OnAsync(l, d)
       \/ DnsCallbackReturn(l)
       \/ DnsLoopFree(l)
  \/ \E d \in DnsEvents : StartFailed(d)
  \/ Term \/ TermEnd \/ InitAgain
  \/ \E w \in Workers : WorkerStep(w) \/ SpuriousWakeup(w)

DnsSpec == DnsInit /\ [][DnsNext]_dnsVars

\* Workers run, the system resolver returns, a join of threads that have
\* returned returns, a callback returns however many requests it makes, and
\* every loop runs and serves the async event of each of its DNS events.
DnsFairSpec ==
  /\ DnsSpec
  /\ \A w \in Workers : WF_dnsVars(WorkerStep(w))
  /\ WF_dnsVars(TermEnd)
  /\ \A l \in Loops : SF_dnsVars(DnsCallbackReturn(l))
  /\ \A d \in DnsEvents : WF_dnsVars(StartFailed(d)) /\ SF_dnsVars(\E l \in Loops : OnAsync(l, d))

-----------------------------------------------------------------------------
(* Properties.                                                              *)

\* Where the request of an event is
Places(d) ==
  ({"queue"} \X {i \in 1 .. Len(requests) : requests[i] = d})
  \cup ({"worker"} \X {w \in Workers : warg[w] = d})
  \cup (IF signal[d] THEN {<<"signal", d>>} ELSE {})
  \cup (IF starting = d THEN {<<"refused", d>>} ELSE {})

\* A pending request is in exactly one place: with the resolve that is about to
\* refuse it, once in the queue, with one worker, or answered and signalled to
\* its loop.  An event without a request is in none, so that dns_destroy() never
\* frees an async event on its way to the loop or about to be sent to, and
\* queue_next links one list.
RequestIsInOnePlace ==
  \A d \in DnsEvents :
    IF pending[d] THEN \E p \in Places(d) : Places(d) = {p} ELSE Places(d) = {}

\* No worker touches an event that has been destroyed or a host name that has
\* been freed, whenever the application frees the event.
WorkerIsSafe ==
  \A w \in Workers : warg[w] # NoEvent =>
    /\ dstate[warg[w]] = "live"
    /\ wpc[w] \in {"popped", "resolving"} => host[warg[w]]

\* Once nanoev_term() has returned every request taken in has been answered.
TermLosesNothing ==
  pool = "down" => \A d \in DnsEvents : pending[d] => signal[d]

\* A request that has been taken in is answered by its callback, unless the
\* event is freed first, and then the event is destroyed; neither happens once
\* the loop is gone.
RequestIsAnswered ==
  \A d \in DnsEvents :
    (pending[d] /\ starting # d) ~>
      \/ \E l \in Loops : dlpc[l] = "callback" /\ dself[l] = d
      \/ dstate[d] = "freed"
      \/ \E l \in Loops : dlpc[l] = "gone" /\ loop[d] = l

\* Nobody waits for the workers for ever: dns_term() returns, and so does the
\* resolve that could start only some of the threads, after which another
\* resolve may start them all.
JoinsEnd == Stopping ~> ~Stopping
=============================================================================

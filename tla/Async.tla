-------------------------------- MODULE Async --------------------------------
(***************************************************************************)
(* nanoev_async.c on the reactor back ends, together with the part of      *)
(* nanoev_loop.c that serves it.                                           *)
(*                                                                         *)
(* Any thread may call nanoev_async_send(); the thread that runs the loop  *)
(* turns the byte found in the pipe into one call of on_async().  Senders  *)
(* run under async->lock, but the loop reads the pipe without it           *)
(* (reactor_cb), so a send is three steps here: take the lock, write the   *)
(* byte, set async_sent and unlock.  What the loop thread does under the   *)
(* lock touches nothing that is also read outside it and is one step.      *)
(*                                                                         *)
(* A sender posts a work item before it calls nanoev_async_send() and      *)
(* on_async() takes all the items that have been posted: the use for which *)
(* coalescing notifications has to be harmless.                            *)
(*                                                                         *)
(* NANOEV_ASYNC_FLAG_READING is never set on these back ends and is left   *)
(* out; the loop holds at most as many events as events[256] of            *)
(* nanoev_loop_run(), so one epoll_wait() reports all that are ready.      *)
(***************************************************************************)
EXTENDS Integers

CONSTANTS
  Asyncs,      \* async events that may be created on the loop
  Senders,     \* threads other than the one running the loop
  LoopThread,  \* the thread running the loop
  None,        \* no thread (an unlocked mutex), no event
  PipeCap      \* bytes a pipe holds before write() fails with EAGAIN

ASSUME NamesAreDistinct ==
  /\ LoopThread \notin Senders
  /\ None \notin Senders \cup Asyncs
ASSUME PipeCapAssumption == PipeCap \in Nat \ {0}

Threads == Senders \cup {LoopThread}

VARIABLES
  state,        \* "none", "created", "started" or "freed" for each event
  deleted,      \* NANOEV_ASYNC_FLAG_DELETED
  sent,         \* async_sent
  pipe,         \* bytes in the pipe
  lock,         \* holder of async->lock
  posted,       \* threads whose work item on_async() has not taken yet
  spc,          \* where each sender is in nanoev_async_send()
  sarg,         \* the event that call is about
  endgame,      \* the events on loop->endgame_proactor_listhead
  lpc,          \* what the loop thread is doing
  batch,        \* events[] of nanoev_loop_run(): contexts whose cb has not run
  self,         \* the event whose on_async() is running
  assertFailed  \* ASSERT(!DELETED) of add_endgame_proactor() has failed

objVars  == <<state, deleted, sent, pipe, lock>>
sendVars == <<spc, sarg>>
loopVars == <<lpc, batch, self>>
vars     == <<objVars, posted, sendVars, endgame, loopVars, assertFailed>>

TypeOK ==
  /\ state \in [Asyncs -> {"none", "created", "started", "freed"}]
  /\ deleted \in [Asyncs -> BOOLEAN]
  /\ sent \in [Asyncs -> BOOLEAN]
  /\ pipe \in [Asyncs -> 0 .. PipeCap]
  /\ lock \in [Asyncs -> Senders \cup {None}]
  /\ posted \in [Asyncs -> SUBSET Threads]
  /\ spc \in [Senders -> {"idle", "posted", "locked", "written"}]
  /\ sarg \in [Senders -> Asyncs \cup {None}]
  /\ endgame \in SUBSET Asyncs
  /\ lpc \in {"user", "endgame", "poll", "dispatch", "on_async", "taken", "gone"}
  /\ batch \in SUBSET Asyncs
  /\ self \in Asyncs \cup {None}
  /\ assertFailed \in BOOLEAN

Init ==
  /\ state = [a \in Asyncs |-> "none"]
  /\ deleted = [a \in Asyncs |-> FALSE]
  /\ sent = [a \in Asyncs |-> FALSE]
  /\ pipe = [a \in Asyncs |-> 0]
  /\ lock = [a \in Asyncs |-> None]
  /\ posted = [a \in Asyncs |-> {}]
  /\ spc = [s \in Senders |-> "idle"]
  /\ sarg = [s \in Senders |-> None]
  /\ endgame = {}
  /\ lpc = "user"
  /\ batch = {}
  /\ self = None
  /\ assertFailed = FALSE

\* The application has called nanoev_event_free(a).
UserFreed(a) == deleted[a] \/ state[a] = "freed"

\* The application may use a: it is started and has not been freed.
Usable(a) == state[a] = "started" /\ ~deleted[a]

\* Some thread is inside nanoev_async_send(a).
Sending(a) == \E s \in Senders : sarg[s] = a

-----------------------------------------------------------------------------
(* nanoev_async_send() in a thread other than the loop's.                  *)

\* The thread queues its work item and calls nanoev_async_send(a).  An event
\* must not be used once it has been freed.
Post(s, a) ==
  /\ spc[s] = "idle"
  /\ Usable(a)
  /\ posted' = [posted EXCEPT ![a] = @ \cup {s}]
  /\ spc' = [spc EXCEPT ![s] = "posted"]
  /\ sarg' = [sarg EXCEPT ![s] = a]
  /\ UNCHANGED <<objVars, endgame, loopVars, assertFailed>>

\* mutex_lock(&async->lock)
SendLock(s) ==
  /\ spc[s] = "posted"
  /\ lock[sarg[s]] = None
  /\ lock' = [lock EXCEPT ![sarg[s]] = s]
  /\ spc' = [spc EXCEPT ![s] = "locked"]
  /\ UNCHANGED <<state, deleted, sent, pipe, posted, sarg, endgame, loopVars,
                 assertFailed>>

\* mutex_unlock(&async->lock); return
SendReturn(s) ==
  /\ lock' = [lock EXCEPT ![sarg[s]] = None]
  /\ spc' = [spc EXCEPT ![s] = "idle"]
  /\ sarg' = [sarg EXCEPT ![s] = None]

\* Mutant: a send while on_async() is running counts as coalesced.
SendNothingInCallback(s) ==
  /\ spc[s] = "locked"
  /\ sent[sarg[s]] \/ pipe[sarg[s]] = PipeCap \/ (lpc = "taken" /\ self = sarg[s])
  /\ SendReturn(s)
  /\ UNCHANGED <<state, deleted, sent, pipe, posted, endgame, loopVars,
                 assertFailed>>

\* async_sent is set (the call is coalesced), or write() fails on a full pipe.
SendNothing(s) ==
  /\ spc[s] = "locked"
  /\ sent[sarg[s]] \/ pipe[sarg[s]] = PipeCap
  /\ SendReturn(s)
  /\ UNCHANGED <<state, deleted, sent, pipe, posted, endgame, loopVars,
                 assertFailed>>

\* Mutant: the byte is written whether or not async_sent is set.
SendWriteAlways(s) ==
  /\ spc[s] = "locked"
  /\ pipe[sarg[s]] < PipeCap
  /\ pipe' = [pipe EXCEPT ![sarg[s]] = @ + 1]
  /\ spc' = [spc EXCEPT ![s] = "written"]
  /\ UNCHANGED <<state, deleted, sent, lock, posted, sarg, endgame, loopVars,
                 assertFailed>>

\* write(async->pipe_w, buf, 1)
SendWrite(s) ==
  /\ spc[s] = "locked"
  /\ ~sent[sarg[s]]
  /\ pipe[sarg[s]] < PipeCap
  /\ pipe' = [pipe EXCEPT ![sarg[s]] = @ + 1]
  /\ spc' = [spc EXCEPT ![s] = "written"]
  /\ UNCHANGED <<state, deleted, sent, lock, posted, sarg, endgame, loopVars,
                 assertFailed>>

\* async->async_sent = 1
SendMark(s) ==
  /\ spc[s] = "written"
  /\ sent' = [sent EXCEPT ![sarg[s]] = TRUE]
  /\ SendReturn(s)
  /\ UNCHANGED <<state, deleted, pipe, posted, endgame, loopVars, assertFailed>>

-----------------------------------------------------------------------------
(* Application code on the loop thread: outside nanoev_loop_run(), in timer *)
(* callbacks, and in the callbacks of this or any other event of a batch.   *)

UserCode == lpc \in {"user", "dispatch", "on_async", "taken"}

\* async_new()
New(a) ==
  /\ UserCode
  /\ state[a] = "none"
  /\ state' = [state EXCEPT ![a] = "created"]
  /\ UNCHANGED <<deleted, sent, pipe, lock, posted, sendVars, endgame, loopVars,
                 assertFailed>>

\* nanoev_async_start() that succeeds; one that fails changes nothing.
Start(a) ==
  /\ UserCode
  /\ state[a] = "created"
  /\ state' = [state EXCEPT ![a] = "started"]
  /\ UNCHANGED <<deleted, sent, pipe, lock, posted, sendVars, endgame, loopVars,
                 assertFailed>>

\* nanoev_async_send() called by the loop thread itself, which is the only
\* reader of the pipe: the three steps of a sender at once.
LoopSend(a) ==
  /\ UserCode
  /\ Usable(a)
  /\ lock[a] = None
  /\ posted' = [posted EXCEPT ![a] = @ \cup {LoopThread}]
  /\ IF sent[a] \/ pipe[a] = PipeCap
       THEN UNCHANGED <<pipe, sent>>
       ELSE /\ pipe' = [pipe EXCEPT ![a] = @ + 1]
            /\ sent' = [sent EXCEPT ![a] = TRUE]
  /\ UNCHANGED <<state, deleted, lock, sendVars, endgame, loopVars, assertFailed>>

\* Mutant: an async_free() that does not look at async_sent.
FreeAtOnce(a) ==
  /\ UserCode
  /\ state[a] \in {"created", "started"}
  /\ ~deleted[a]
  /\ ~Sending(a)
  /\ state' = [state EXCEPT ![a] = "freed"]
  /\ pipe' = [pipe EXCEPT ![a] = 0]
  /\ UNCHANGED <<deleted, sent, lock, posted, sendVars, endgame, loopVars, assertFailed>>

\* nanoev_event_free(a), that is async_free(a).  The application must know
\* that no other thread is still inside nanoev_async_send(a); a send that has
\* returned may not have been delivered yet.
Free(a) ==
  /\ UserCode
  /\ state[a] \in {"created", "started"}
  /\ ~deleted[a]
  /\ ~Sending(a)
  /\ IF sent[a]
       THEN /\ deleted' = [deleted EXCEPT ![a] = TRUE]
            /\ endgame' = endgame \cup {a}
            /\ UNCHANGED <<state, pipe>>
       ELSE /\ state' = [state EXCEPT ![a] = "freed"]
            /\ pipe' = [pipe EXCEPT ![a] = 0]
            /\ UNCHANGED <<deleted, endgame>>
  /\ UNCHANGED <<sent, lock, posted, sendVars, loopVars, assertFailed>>

-----------------------------------------------------------------------------
(* nanoev_loop_run().                                                       *)

\* The timers have been processed: on to __process_endgame_proactor().
TimersDone ==
  /\ lpc = "user"
  /\ lpc' = "endgame"
  /\ UNCHANGED <<objVars, posted, sendVars, endgame, batch, self, assertFailed>>

\* One event of the endgame list.  READING and WRITING are clear, so
\* async_free() is called again; it puts the event back on the list when
\* async_sent is still set, where ASSERT(!DELETED) fails.  A build without
\* assertions goes on, and `*cur = next' takes the event off the list for good.
EndgameFree(a) ==
  /\ lpc = "endgame"
  /\ a \in endgame
  /\ endgame' = endgame \ {a}
  /\ IF sent[a]
       THEN /\ assertFailed' = TRUE
            /\ UNCHANGED <<state, pipe>>
       ELSE /\ state' = [state EXCEPT ![a] = "freed"]
            /\ pipe' = [pipe EXCEPT ![a] = 0]
            /\ UNCHANGED assertFailed
  /\ UNCHANGED <<deleted, sent, lock, posted, sendVars, loopVars>>

EndgameDone ==
  /\ lpc = "endgame"
  /\ endgame = {}
  /\ lpc' = "poll"
  /\ UNCHANGED <<objVars, posted, sendVars, endgame, batch, self, assertFailed>>

\* Events that epoll_wait() reports: registered, and with a byte to read.
Ready == {a \in Asyncs : state[a] = "started" /\ pipe[a] > 0}

\* Mutant: reactor_cb() counts a byte whether or not there was one to read.
PollBlind ==
  /\ lpc = "poll"
  /\ pipe' = [a \in Asyncs |-> IF state[a] = "started" THEN pipe[a] - 1 ELSE pipe[a]]
  /\ batch' = {a \in Asyncs : state[a] = "started"}
  /\ lpc' = "dispatch"
  /\ UNCHANGED <<state, deleted, sent, lock, posted, sendVars, endgame, self,
                 assertFailed>>

\* Mutant: one event is reported at a time, the first that is ready.
PollOne ==
  /\ lpc = "poll"
  /\ batch' = IF Ready = {} THEN {} ELSE {CHOOSE a \in Ready : TRUE}
  /\ pipe' = [a \in Asyncs |-> IF a \in batch' THEN pipe[a] - 1 ELSE pipe[a]]
  /\ lpc' = "dispatch"
  /\ UNCHANGED <<state, deleted, sent, lock, posted, sendVars, endgame, self,
                 assertFailed>>

\* poller_poll(): epoll_wait() returns and reactor_cb() reads one byte from the
\* pipe of every event reported.  Nothing is ready when the wait times out.
Poll ==
  /\ lpc = "poll"
  /\ pipe' = [a \in Asyncs |-> IF a \in Ready THEN pipe[a] - 1 ELSE pipe[a]]
  /\ batch' = Ready
  /\ lpc' = "dispatch"
  /\ UNCHANGED <<state, deleted, sent, lock, posted, sendVars, endgame, self,
                 assertFailed>>

\* __async_proactor_callback() up to the call of on_async().
ProactorCallback(a) ==
  /\ lpc = "dispatch"
  /\ a \in batch
  /\ lock[a] = None
  /\ batch' = batch \ {a}
  /\ sent' = [sent EXCEPT ![a] = FALSE]
  /\ IF sent[a] /\ ~deleted[a]
       THEN lpc' = "on_async" /\ self' = a
       ELSE UNCHANGED <<lpc, self>>
  /\ UNCHANGED <<state, deleted, pipe, lock, posted, sendVars, endgame,
                 assertFailed>>

\* on_async() takes the work items posted so far.
Take ==
  /\ lpc = "on_async"
  /\ posted' = [posted EXCEPT ![self] = {}]
  /\ lpc' = "taken"
  /\ UNCHANGED <<objVars, sendVars, endgame, batch, self, assertFailed>>

\* on_async() returns.
CallbackReturn ==
  /\ lpc = "taken"
  /\ lpc' = "dispatch"
  /\ self' = None
  /\ UNCHANGED <<objVars, posted, sendVars, endgame, batch, assertFailed>>

\* All of events[] has been processed: check is_break and go round, or return
\* from nanoev_loop_run() and perhaps run the loop again.
BatchDone ==
  /\ lpc = "dispatch"
  /\ batch = {}
  /\ lpc' = "user"
  /\ UNCHANGED <<objVars, posted, sendVars, endgame, batch, self, assertFailed>>

\* nanoev_loop_free(), after every event of the loop has been freed:
\* __process_endgame_proactor(loop, 1) clears DELETED and calls async_free(),
\* which does not free an event whose async_sent is set.
LoopFree ==
  /\ lpc = "user"
  /\ \A a \in Asyncs : state[a] = "none" \/ UserFreed(a)
  /\ state' = [a \in Asyncs |-> IF a \in endgame /\ ~sent[a] THEN "freed" ELSE state[a]]
  /\ pipe' = [a \in Asyncs |-> IF a \in endgame /\ ~sent[a] THEN 0 ELSE pipe[a]]
  /\ endgame' = {}
  /\ lpc' = "gone"
  /\ UNCHANGED <<deleted, sent, lock, posted, sendVars, batch, self, assertFailed>>

-----------------------------------------------------------------------------
Send(s) == SendLock(s) \/ SendNothing(s) \/ SendWrite(s) \/ SendMark(s)

\* What the loop thread does by itself, callbacks returning included.
LoopStep ==
  \/ TimersDone \/ EndgameDone \/ Poll \/ Take \/ CallbackReturn \/ BatchDone
  \/ \E a \in Asyncs : EndgameFree(a) \/ ProactorCallback(a)

Application ==
  \/ \E a \in Asyncs : New(a) \/ Start(a) \/ LoopSend(a) \/ Free(a)
  \/ \E s \in Senders, a \in Asyncs : Post(s, a)
  \/ LoopFree

Next == Application \/ LoopStep \/ \E s \in Senders : Send(s)

Spec == Init /\ [][Next]_vars

\* The loop keeps running and callbacks return; a thread that waits for a mutex
\* which is released again and again gets it.
Fairness ==
  /\ WF_vars(LoopStep)
  /\ \A a \in Asyncs : SF_vars(ProactorCallback(a))
  /\ \A s \in Senders : SF_vars(Send(s))

FairSpec == Spec /\ Fairness

-----------------------------------------------------------------------------
(* Properties.                                                              *)

\* A byte has been written for a and the matching on_async() has not begun:
\* async_sent is set, or the sender has yet to set it.
Announced(a) == sent[a] \/ \E s \in Senders : spc[s] = "written" /\ sarg[s] = a

\* Wakeups for a on their way: bytes in the pipe and contexts in events[].
InFlight(a) == pipe[a] + (IF a \in batch THEN 1 ELSE 0)

\* async_sent and the pipe agree although the loop reads the pipe without the
\* lock: an event has exactly one wakeup under way while a send is announced
\* and none otherwise.  So a pipe never holds two bytes, write() never finds it
\* full, and the one io_context of the event is never in use twice.
OneWakeupPerSend ==
  \A a \in Asyncs : state[a] = "started" =>
    InFlight(a) = IF Announced(a) THEN 1 ELSE 0

\* No wakeup is lost by coalescing: a work item that on_async() has not taken
\* belongs to a thread still inside nanoev_async_send(), or a wakeup for its
\* event is in the pipe or in events[], or on_async() is about to take it.
NoLostItem ==
  \A a \in Asyncs : Usable(a) /\ posted[a] # {} =>
    \/ \E s \in posted[a] \cap Senders : sarg[s] = a
    \/ InFlight(a) = 1
    \/ lpc = "on_async" /\ self = a

\* The loop never calls the cb of an event whose memory has been released: an
\* event in events[] is allocated, whichever callbacks of the batch free events.
NoUseAfterFree == \A a \in batch : state[a] = "started"

\* Every work item is taken by on_async(), unless the event is freed first.
ItemsAreTaken ==
  \A a \in Asyncs : \A t \in Threads :
    t \in posted[a] ~> (t \notin posted[a] \/ UserFreed(a))

\* ASSERT(!(proactor->flags & NANOEV_PROACTOR_FLAG_DELETED)) of
\* add_endgame_proactor() holds.
AddEndgameAssertion == ~assertFailed
=============================================================================

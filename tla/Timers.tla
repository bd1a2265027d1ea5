------------------------------- MODULE Timers --------------------------------
(***************************************************************************)
(* Timer events (nanoev_timer.c) and the loop that runs them               *)
(* (nanoev_loop.c).                                                        *)
(*                                                                         *)
(* Everything happens on the loop thread; what makes it hard is that the   *)
(* application may add, delete and free any timer, the running one         *)
(* included, inside a timer callback, in the middle of timers_process().   *)
(* The program computes with time values; clock is the system clock in     *)
(* microseconds and may be set back.                                       *)
(***************************************************************************)
EXTENDS HeapMachine

CONSTANTS
  None,         \* no timer
  Delays,       \* values of `after' passed to nanoev_timer_add(), in microseconds
  MinClock,     \* the clock stays between this and MaxClock, and further from the
                \* epoch than it can be set back
  HeapChunk     \* what min_heap_reserve() grows the array by (64)

ASSUME NoneIsNoTimer == None \notin Timers
ASSUME DelaysAreValid == Delays \subseteq Nat
ASSUME ClockAssumption ==
  /\ MinClock \in Nat \ {0} /\ MaxClock \in Nat
  /\ MinClock <= MaxClock /\ MaxClock - MinClock <= MinClock
ASSUME HeapChunkAssumption == HeapChunk \in Nat \ {0}

VARIABLES
  tstate,     \* "none", "live" or "freed" for each timer
  after,      \* timer->after
  repeat,     \* timer->repeat
  deleted,    \* NANOEV_TIMER_FLAG_DELETED
  capacity,   \* loop->timers.capacity
  lpc,        \* "out", "update", "timers", "callback", "poll" or "batch"
  self,       \* the timer whose callback runs (FLAG_INVOKING_CALLBACK)
  now,        \* loop->now
  clock,      \* the system clock, in microseconds
  isBreak,    \* loop->is_break
  stopped     \* timers that were never added, or were stopped since: deleted
              \* or freed, or out of memory when added again

timerVars == <<tstate, after, repeat, deleted>>
heapVars  == <<heap, due, capacity>>
loopVars  == <<lpc, self, now, isBreak>>
vars      == <<timerVars, heapVars, loopVars, clock, stopped>>

TypeOK ==
  /\ tstate \in [Timers -> {"none", "live", "freed"}]
  /\ after \in [Timers -> Normal]
  /\ repeat \in [Timers -> BOOLEAN]
  /\ deleted \in [Timers -> BOOLEAN]
  /\ heap.events \in Seq(Timers)
  /\ heap.idx \in [Timers -> {Absent} \cup Nat]
  /\ due \in [Timers -> Normal]
  /\ capacity \in Nat
  /\ lpc \in {"out", "update", "timers", "callback", "poll", "batch"}
  /\ self \in Timers \cup {None}
  /\ now \in Normal
  /\ clock \in MinClock .. MaxClock
  /\ isBreak \in BOOLEAN
  /\ stopped \in SUBSET Timers

Init ==
  /\ tstate = [t \in Timers |-> "none"]
  /\ after = [t \in Timers |-> Zero]
  /\ repeat = [t \in Timers |-> FALSE]
  /\ deleted = [t \in Timers |-> FALSE]
  /\ heap = EmptyHeap(Timers)
  /\ due = [t \in Timers |-> Zero]
  /\ capacity = 0
  /\ lpc = "out"
  /\ self = None
  /\ now = Zero
  /\ clock = MinClock
  /\ isBreak = FALSE
  /\ stopped = Timers

\* nanoev_loop_now()
LoopNow == IF now.sec # 0 \/ now.usec # 0 THEN now ELSE TimeNow(clock)

\* min_heap_reserve(): the capacity once there is room for size nodes
Reserve(size) ==
  IF capacity >= size
    THEN capacity
    ELSE capacity + HeapChunk * ((size - capacity + HeapChunk - 1) \div HeapChunk)

-----------------------------------------------------------------------------
(* Application code: outside nanoev_loop_run(), in timer callbacks and in   *)
(* the callbacks of other events.                                           *)

UserCode == lpc \in {"out", "callback", "batch"}
Usable(t) == tstate[t] = "live" /\ ~deleted[t]

\* timer_new()
New(t) ==
  /\ UserCode
  /\ tstate[t] = "none"
  /\ tstate' = [tstate EXCEPT ![t] = "live"]
  /\ UNCHANGED <<after, repeat, deleted, heapVars, loopVars, clock, stopped>>

\* nanoev_timer_add(); it is refused while the node is in the heap.  The fields
\* are assigned before min_heap_reserve() may run out of memory.
Add(t, d, r) ==
  /\ UserCode
  /\ Usable(t)
  /\ ~Active(heap, t)
  /\ after' = [after EXCEPT ![t] = TimeNow(d)]
  /\ repeat' = [repeat EXCEPT ![t] = r]
  /\ due' = [due EXCEPT ![t] = TimeAdd(LoopNow, TimeNow(d))]
  /\ \/ /\ capacity' = Reserve(Size(heap) + 1)
        /\ heap' = Insert(heap, due', t)
        /\ stopped' = stopped \ {t}
     \/ /\ capacity < Size(heap) + 1
        /\ stopped' = IF self = t THEN stopped ELSE stopped \cup {t}
        /\ UNCHANGED <<heap, capacity>>
  /\ UNCHANGED <<tstate, deleted, loopVars, clock>>

\* nanoev_timer_del(): from the callback of the timer itself it only clears
\* repeat; otherwise it is refused unless the node is in the heap.
Del(t) ==
  /\ UserCode
  /\ Usable(t)
  /\ IF self = t
       THEN /\ repeat' = [repeat EXCEPT ![t] = FALSE]
            /\ UNCHANGED heap
       ELSE /\ Active(heap, t)
            /\ heap' = Erase(heap, due, t)
            /\ UNCHANGED repeat
  /\ stopped' = stopped \cup {t}
  /\ UNCHANGED <<tstate, after, deleted, due, capacity, loopVars, clock>>

\* Mutant: a timer_free() that leaves the running timer in the heap when its
\* callback has armed it again.
FreeKeepsNode(t) ==
  /\ UserCode
  /\ Usable(t)
  /\ IF self # t
       THEN /\ heap' = Erase(heap, due, t)
            /\ tstate' = [tstate EXCEPT ![t] = "freed"]
            /\ UNCHANGED <<repeat, deleted>>
       ELSE /\ repeat' = [repeat EXCEPT ![t] = FALSE]
            /\ deleted' = [deleted EXCEPT ![t] = TRUE]
            /\ UNCHANGED <<tstate, heap>>
  /\ stopped' = stopped \cup {t}
  /\ UNCHANGED <<after, due, capacity, loopVars, clock>>

\* nanoev_event_free(t), that is timer_free(t)
Free(t) ==
  /\ UserCode
  /\ Usable(t)
  /\ heap' = Erase(heap, due, t)
  /\ IF self # t
       THEN /\ tstate' = [tstate EXCEPT ![t] = "freed"]
            /\ UNCHANGED <<repeat, deleted>>
       ELSE /\ repeat' = [repeat EXCEPT ![t] = FALSE]
            /\ deleted' = [deleted EXCEPT ![t] = TRUE]
            /\ UNCHANGED tstate
  /\ stopped' = stopped \cup {t}
  /\ UNCHANGED <<after, due, capacity, loopVars, clock>>

\* nanoev_loop_break(), from a callback or from another thread
Break ==
  /\ isBreak' = TRUE
  /\ UNCHANGED <<timerVars, heapVars, lpc, self, now, clock, stopped>>

-----------------------------------------------------------------------------
(* nanoev_loop_run().                                                       *)

\* Up to the loop: `make sure we have a valid time'.  A clock set back since the
\* last run is not noticed: the deadlines stay.
RunStart ==
  /\ lpc = "out"
  /\ isBreak' = FALSE
  /\ now' = TimeNow(clock)
  /\ lpc' = "update"
  /\ UNCHANGED <<timerVars, heapVars, self, clock, stopped>>

\* Mutant: an __update_time() that adjusts nothing when the clock is set back.
UpdateTimeOnly ==
  /\ lpc = "update"
  /\ now' = TimeNow(clock)
  /\ lpc' = "timers"
  /\ UNCHANGED <<timerVars, heapVars, self, isBreak, clock, stopped>>

\* Mutant: is_break is reset in every round of the loop.
UpdateTimeResets ==
  /\ lpc = "update"
  /\ now' = TimeNow(clock)
  /\ due' = [t \in Timers |-> IF TimeCmp(now', now) < 0 /\ Active(heap, t)
                                THEN TimeSub(due[t], TimeSub(now, now'))
                                ELSE due[t]]
  /\ lpc' = "timers"
  /\ isBreak' = FALSE
  /\ UNCHANGED <<timerVars, heap, capacity, self, clock, stopped>>

\* __update_time(), with timers_adjust_backward() when the clock was set back
UpdateTime ==
  /\ lpc = "update"
  /\ now' = TimeNow(clock)
  /\ due' = [t \in Timers |-> IF TimeCmp(now', now) < 0 /\ Active(heap, t)
                                THEN TimeSub(due[t], TimeSub(now, now'))
                                ELSE due[t]]
  /\ lpc' = "timers"
  /\ UNCHANGED <<timerVars, heap, capacity, self, isBreak, clock, stopped>>

\* The top of the heap is due.
TopIsDue == Size(heap) > 0 /\ TimeCmp(due[At(heap, 0)], now) <= 0

\* timers_process() takes the top out of the heap and invokes its callback.
Fire ==
  /\ lpc = "timers"
  /\ TopIsDue
  /\ heap' = Erase(heap, due, At(heap, 0))
  /\ self' = At(heap, 0)
  /\ lpc' = "callback"
  /\ UNCHANGED <<timerVars, due, capacity, now, isBreak, clock, stopped>>

\* Mutant: a timer_event_node_callback() that never reinserts the timer.
CallbackReturnOnce ==
  /\ lpc = "callback"
  /\ tstate' = IF deleted[self] THEN [tstate EXCEPT ![self] = "freed"] ELSE tstate
  /\ lpc' = "timers"
  /\ self' = None
  /\ UNCHANGED <<after, repeat, deleted, heapVars, now, isBreak, clock, stopped>>

\* The callback returns: the rest of timer_event_node_callback().  A timer that
\* repeats goes back into the heap without min_heap_reserve().
CallbackReturn ==
  /\ lpc = "callback"
  /\ tstate' = IF deleted[self] THEN [tstate EXCEPT ![self] = "freed"] ELSE tstate
  /\ IF ~deleted[self] /\ repeat[self] /\ ~Active(heap, self)
       THEN /\ due' = [due EXCEPT ![self] = TimeAdd(LoopNow, after[self])]
            /\ heap' = Insert(heap, due', self)
       ELSE UNCHANGED <<heap, due>>
  /\ lpc' = "timers"
  /\ self' = None
  /\ UNCHANGED <<after, repeat, deleted, capacity, now, isBreak, clock, stopped>>

\* timers_process() is done; the poller waits for what timers_timeout() says.
TimersDone ==
  /\ lpc = "timers"
  /\ ~TopIsDue
  /\ lpc' = "poll"
  /\ UNCHANGED <<timerVars, heapVars, self, now, isBreak, clock, stopped>>

\* poller_poll() returns; callbacks of other events may run.  The run ends with an
\* error when it fails.
Poll ==
  /\ lpc = "poll"
  /\ lpc' \in {"batch", "out"}
  /\ UNCHANGED <<timerVars, heapVars, self, now, isBreak, clock, stopped>>

\* All of events[] has been processed: check is_break.
BatchDone ==
  /\ lpc = "batch"
  /\ lpc' = IF isBreak THEN "out" ELSE "update"
  /\ UNCHANGED <<timerVars, heapVars, self, now, isBreak, clock, stopped>>

-----------------------------------------------------------------------------
\* The system clock advances, or is set back.
Tick ==
  /\ clock < MaxClock
  /\ clock' = clock + 1
  /\ UNCHANGED <<timerVars, heapVars, loopVars, stopped>>

SetBack ==
  /\ clock' \in MinClock .. clock - 1
  /\ UNCHANGED <<timerVars, heapVars, loopVars, stopped>>

LoopStep ==
  UpdateTime \/ Fire \/ CallbackReturn \/ TimersDone \/ Poll \/ BatchDone

Next ==
  \/ \E t \in Timers : New(t) \/ Del(t) \/ Free(t)
  \/ \E t \in Timers, d \in Delays, r \in BOOLEAN : Add(t, d, r)
  \/ Break \/ RunStart \/ LoopStep
  \/ Tick \/ SetBack

Spec == Init /\ [][Next]_vars

\* The loop keeps running and callbacks return.
FairSpec == Spec /\ WF_vars(LoopStep)

-----------------------------------------------------------------------------
(* Properties.                                                              *)

\* The heap stays ordered and indexed although callbacks change it between
\* min_heap_erase() of the running timer and its reinsertion.
HeapSound == Ordered(heap, due) /\ Indexed(heap)

\* No released timer is in the heap, nor is one whose free is put off to the
\* end of its callback; the running timer is still allocated.
NoDanglingTimer ==
  /\ \A t \in Timers : Active(heap, t) => Usable(t)
  /\ self # None => tstate[self] = "live"

\* A repeating timer stays armed: unless its callback is running, it is in the
\* heap until the application stops it.
RepeatStaysArmed ==
  \A t \in Timers :
    Usable(t) /\ repeat[t] /\ t \notin stopped /\ self # t => Active(heap, t)

\* The poller is not asked to wait past the deadline of the first timer, and not
\* for ever (a negative number) once there is one.
PollWakesInTime ==
  lpc = "poll" /\ Size(heap) > 0 =>
    LET wait == PollMilliseconds(TimersTimeout(due[At(heap, 0)], now))
    IN wait >= 0 /\ Value(now) + wait * UMilli <= Value(due[At(heap, 0)])

\* nanoev_loop_run() returns after nanoev_loop_break(): no callback keeps
\* timers_process() from ending.
BreakEndsRun == isBreak /\ lpc # "out" ~> lpc = "out"

\* The timers of the loop are a TimerSet: a timer is armed for exactly the time
\* it was added with, fires only when it is due and no armed timer is due before
\* it, and setting the clock back during a run changes no wait.
NotArmed == -1
TS == INSTANCE TimerSet WITH
        due <- [t \in Timers |-> IF Active(heap, t) THEN Value(due[t]) ELSE NotArmed],
        now <- Value(now), running <- self, inRun <- (lpc # "out")
ImplementsTimerSet == TS!Spec

\* The places of the heap in use are within the array, as min_heap_insert() makes
\* sure with min_heap_reserve() before it stores a node.
HeapWithinCapacity == Size(heap) <= capacity
=============================================================================

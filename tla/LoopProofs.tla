----------------------------- MODULE LoopProofs ------------------------------
(***************************************************************************)
(* Proofs about the loop of nanoev_loop.c: the timers that it runs, for    *)
(* any units, any number of timers and any clock; and nanoev_loop_break()  *)
(* and the poller it wakes, for any number of threads and of completions.  *)
(***************************************************************************)
EXTENDS Timers, Poller, HeapProofs

-----------------------------------------------------------------------------
(* The timers: the inductive invariant.                                     *)

\* FLAG_INVOKING_CALLBACK is set in callbacks only.
CallbackRuns == self # None <=> lpc = "callback"

\* A timer is stopped until it is added.
NewIsStopped == \A t \in Timers : tstate[t] = "none" => t \in stopped

\* loop->now is a time of the clock, or zero before the first run.
NowSound ==
  /\ Value(now) <= MaxClock
  /\ Value(now) >= MinClock \/ (lpc = "out" /\ Value(now) = 0)

\* A timer repeats with a delay it was added with.
RepeatsDelay == \A t \in Timers : repeat[t] => \E d \in Delays : Value(after[t]) = d

\* Deadlines: none that is not late when __update_time() may take the offset of a clock
\* set back from it, none that has passed while the poller waits, and none further off
\* than a delay from a time of the clock.
DueSound ==
  \A t \in Timers : Active(heap, t) =>
    /\ lpc \in {"timers", "callback"} \/ Value(due[t]) >= MinClock
    /\ lpc = "poll" => Value(due[t]) > Value(now)
    /\ \E d \in Delays : Value(due[t]) <= MaxClock + d

TimersInv ==
  /\ TypeOK /\ HeapIs(heap, due)
  /\ NoDanglingTimer /\ RepeatStaysArmed
  /\ CallbackRuns /\ NewIsStopped /\ NowSound /\ RepeatsDelay /\ DueSound

\* TypeOK without the heap, which HeapIs() types
LoopVarsOK ==
  /\ tstate \in [Timers -> {"none", "live", "freed"}]
  /\ after \in [Timers -> Normal]
  /\ repeat \in [Timers -> BOOLEAN]
  /\ deleted \in [Timers -> BOOLEAN]
  /\ due \in [Timers -> Normal]
  /\ capacity \in Nat
  /\ lpc \in {"out", "update", "timers", "callback", "poll", "batch"}
  /\ self \in Timers \cup {None}
  /\ now \in Normal
  /\ clock \in MinClock .. MaxClock
  /\ isBreak \in BOOLEAN
  /\ stopped \in SUBSET Timers

LEMMA TypeIs == HeapIs(heap, due) => (TypeOK <=> LoopVarsOK)
BY DEF HeapIs, HeapOf, TypeOK, LoopVarsOK

LEMMA InvIs ==
  TimersInv <=> /\ LoopVarsOK /\ HeapIs(heap, due) /\ NoDanglingTimer /\ RepeatStaysArmed
                /\ CallbackRuns /\ NewIsStopped /\ NowSound /\ RepeatsDelay /\ DueSound
BY TypeIs DEF TimersInv

\* The same in the next state
LEMMA InvIsNext ==
  /\ LoopVarsOK' /\ HeapIs(heap, due)' /\ NoDanglingTimer' /\ RepeatStaysArmed'
  /\ CallbackRuns' /\ NewIsStopped' /\ NowSound' /\ RepeatsDelay' /\ DueSound'
  => TimersInv'
<1>1. HeapIs(heap, due)' => (TypeOK' <=> LoopVarsOK')
  BY TypeIs, PTL
<1> QED BY <1>1 DEF TimersInv

\* nanoev_loop_now() is a time of the clock.
LEMMA LoopNowIs ==
  ASSUME LoopVarsOK, NowSound
  PROVE  /\ LoopNow \in Normal
         /\ Value(LoopNow) \in Nat /\ Value(LoopNow) >= MinClock /\ Value(LoopNow) <= MaxClock
         /\ Value(now) # 0 => LoopNow = now
<1>1. Value(now) # 0 <=> now.sec # 0 \/ now.usec # 0
  BY ZeroIs DEF LoopVarsOK
<1>2. now \in Normal /\ Value(now) \in Nat /\ clock \in Nat /\ clock >= MinClock /\ clock <= MaxClock
  BY ValueType, ClockAssumption DEF LoopVarsOK
<1>3. TimeNow(clock) \in Normal /\ Value(TimeNow(clock)) = clock
  BY <1>2, NowExact
<1> QED BY <1>1, <1>2, <1>3 DEF LoopNow, NowSound

LEMMA InitSound == Init => TimersInv
<1> SUFFICES ASSUME Init PROVE TimersInv
  OBVIOUS
<1>1. HeapIs(heap, due) /\ \A t \in Timers : ~Active(heap, t)
  BY EmptyHeapSound DEF Init, HeapIs
<1>2. Zero \in Normal /\ Value(Zero) = 0
  BY ZeroIs
<1>3. LoopVarsOK
  <2>1. MinClock \in MinClock .. MaxClock
    BY ClockAssumption
  <2> QED BY <1>2, <2>1, Zenon DEF Init, LoopVarsOK
<1>4. NoDanglingTimer /\ RepeatStaysArmed /\ RepeatsDelay /\ DueSound
  BY <1>1 DEF Init, NoDanglingTimer, RepeatStaysArmed, RepeatsDelay, DueSound
<1>5. CallbackRuns /\ NewIsStopped
  BY DEF Init, CallbackRuns, NewIsStopped
<1>6. NowSound
  BY <1>2, ClockAssumption DEF Init, NowSound
<1> QED BY <1>1, <1>3, <1>4, <1>5, <1>6, InvIs

-----------------------------------------------------------------------------
(* The actions of the application.                                          *)

LEMMA NewKeeps == ASSUME TimersInv, NEW t \in Timers, New(t) PROVE TimersInv'
<1> USE DEF New
<1>1. /\ LoopVarsOK /\ HeapIs(heap, due) /\ NoDanglingTimer /\ RepeatStaysArmed
      /\ CallbackRuns /\ NewIsStopped /\ NowSound /\ RepeatsDelay /\ DueSound
  BY InvIs
<1>2. UNCHANGED <<after, repeat, deleted, heap, due, capacity, lpc, self, now, isBreak, clock, stopped>>
  BY DEF heapVars, loopVars
<1>3. LoopVarsOK'
  BY <1>1, <1>2 DEF LoopVarsOK
<1>4. HeapIs(heap, due)' /\ NowSound' /\ RepeatsDelay' /\ DueSound' /\ CallbackRuns'
  BY <1>1, <1>2 DEF NowSound, RepeatsDelay, DueSound, CallbackRuns
<1>5. t \in stopped /\ ~Usable(t)
  BY <1>1 DEF NewIsStopped, Usable
<1>6. \A u \in Timers : u # t => tstate'[u] = tstate[u]
  BY <1>1 DEF LoopVarsOK
<1>7. tstate'[t] = "live"
  BY <1>1 DEF LoopVarsOK
<1>8. NoDanglingTimer'
  BY <1>1, <1>2, <1>5, <1>6, <1>7, Zenon DEF NoDanglingTimer, Usable, LoopVarsOK
<1>9. RepeatStaysArmed'
  BY <1>1, <1>2, <1>5, <1>6, Zenon DEF RepeatStaysArmed, Usable
<1>10. NewIsStopped'
  BY <1>1, <1>2, <1>5, <1>6 DEF NewIsStopped
<1> QED BY <1>3, <1>4, <1>8, <1>9, <1>10, InvIsNext, Zenon

\* min_heap_reserve() leaves a capacity.
LEMMA ReserveType == ASSUME capacity \in Nat, NEW size \in Nat PROVE Reserve(size) \in Nat
<1> DEFINE n == size - capacity + HeapChunk - 1
<1>1. CASE capacity >= size
  BY <1>1 DEF Reserve
<1>2. CASE ~(capacity >= size)
  <2>1. n \in Nat
    BY <1>2, HeapChunkAssumption
  <2>2. PICK q \in Nat : q = n \div HeapChunk
    BY <2>1, HeapChunkAssumption
  <2>3. HeapChunk * q \in Nat
    BY HeapChunkAssumption
  <2> QED BY <1>2, <2>2, <2>3 DEF Reserve
<1> QED BY <1>1, <1>2

LEMMA AddKeeps ==
  ASSUME TimersInv, NEW t \in Timers, NEW d \in Delays, NEW r \in BOOLEAN, Add(t, d, r)
  PROVE  TimersInv'
<1>1. /\ LoopVarsOK /\ HeapIs(heap, due) /\ NoDanglingTimer /\ RepeatStaysArmed
      /\ CallbackRuns /\ NewIsStopped /\ NowSound /\ RepeatsDelay /\ DueSound
  BY InvIs
<1> DEFINE v == TimeAdd(LoopNow, TimeNow(d))
<1>2. d \in Nat /\ TimeNow(d) \in Normal /\ Value(TimeNow(d)) = d
  BY NowExact, DelaysAreValid
<1>3. /\ LoopNow \in Normal /\ Value(LoopNow) \in Nat
      /\ Value(LoopNow) >= MinClock /\ Value(LoopNow) <= MaxClock
  BY <1>1, LoopNowIs
<1>4. v \in Normal /\ Value(v) = Value(LoopNow) + d
  BY <1>2, <1>3, AddExact
<1>5. /\ UserCode /\ Usable(t) /\ ~Active(heap, t)
      /\ after' = [after EXCEPT ![t] = TimeNow(d)]
      /\ repeat' = [repeat EXCEPT ![t] = r]
      /\ due' = [due EXCEPT ![t] = v]
      /\ UNCHANGED <<tstate, deleted, lpc, self, now, isBreak, clock>>
  BY DEF Add, loopVars
<1>6. \/ /\ capacity' = Reserve(Size(heap) + 1) /\ heap' = Insert(heap, due', t)
         /\ stopped' = stopped \ {t}
      \/ /\ stopped' = (IF self = t THEN stopped ELSE stopped \cup {t})
         /\ UNCHANGED <<heap, capacity>>
  BY DEF Add
<1> HIDE DEF v
<1>7. due' \in [Timers -> Normal] /\ due'[t] = v /\ \A u \in Timers : u # t => due'[u] = due[u]
  BY <1>1, <1>4, <1>5 DEF LoopVarsOK
<1>8. capacity' \in Nat
  <2>1. Size(heap) + 1 \in Nat /\ capacity \in Nat
    BY <1>1, HeapFacts, SMTT(30) DEF HeapIs, LoopVarsOK
  <2> QED BY <1>6, <2>1, ReserveType, Zenon
<1>9. LoopVarsOK'
  BY <1>1, <1>2, <1>5, <1>6, <1>7, <1>8, Zenon DEF LoopVarsOK
<1>10. /\ HeapIs(heap, due)'
       /\ \A u \in Timers : u # t => (Active(heap', u) <=> Active(heap, u))
       /\ \A u \in Timers : u # t => (u \in stopped' <=> u \in stopped)
       /\ Active(heap', t) \/ self = t \/ t \in stopped'
  <2>1. CASE heap' = Insert(heap, due', t) /\ stopped' = stopped \ {t}
    <3>1. due \in [Timers -> Normal]
      BY <1>1 DEF LoopVarsOK
    <3>2. Inserted(Insert(heap, due', t), due', heap, t)
      BY <1>1, <1>4, <1>5, <3>1, InsertIs, Zenon
    <3> QED BY <2>1, <3>2 DEF Inserted
  <2>2. CASE stopped' = (IF self = t THEN stopped ELSE stopped \cup {t}) /\ UNCHANGED heap
    <3>1. Recounted(due', due, heap, Timers, 0)
      <4> SUFFICES ASSUME NEW m \in Timers, Active(heap, m)
                   PROVE  Value(due'[m]) = Value(due[m]) - 0
        BY DEF Recounted
      <4>1. due'[m] = due[m] /\ Value(due[m]) \in Nat
        BY <1>1, <1>5, <1>7, ValueType DEF LoopVarsOK
      <4> QED BY <4>1
    <3>2. HeapOf(heap, Timers) /\ Ordered(heap, due) /\ 0 \in Int /\ due \in [Timers -> Normal]
      BY <1>1 DEF HeapIs, LoopVarsOK
    <3>3. Ordered(heap, due')
      BY <1>7, <3>1, <3>2, OrderKept
    <3> QED BY <2>2, <3>2, <3>3 DEF HeapIs
  <2> QED BY <1>6, <2>1, <2>2
<1>11. NoDanglingTimer'
  <2>1. \A u \in Timers : Usable(u)' <=> Usable(u)
    BY <1>5 DEF Usable
  <2> QED BY <1>1, <1>5, <1>10, <2>1, Zenon DEF NoDanglingTimer
<1>12. RepeatStaysArmed'
  <2> SUFFICES ASSUME NEW u \in Timers, Usable(u)', repeat'[u], u \notin stopped', self' # u
               PROVE  Active(heap', u)
    BY DEF RepeatStaysArmed
  <2>1. CASE u = t
    BY <1>5, <1>10, <2>1, Zenon
  <2>2. CASE u # t
    <3>1. Usable(u) /\ repeat[u] /\ u \notin stopped /\ self # u
      BY <1>1, <1>5, <1>10, <2>2, Zenon DEF Usable, LoopVarsOK
    <3> QED BY <1>1, <1>10, <2>2, <3>1, Zenon DEF RepeatStaysArmed
  <2> QED BY <2>1, <2>2
<1>13. CallbackRuns' /\ NowSound'
  BY <1>1, <1>5, Zenon DEF CallbackRuns, NowSound
<1>14. NewIsStopped'
  BY <1>1, <1>5, <1>10, Zenon DEF NewIsStopped, Usable
<1>15. RepeatsDelay'
  <2> SUFFICES ASSUME NEW u \in Timers, repeat'[u] PROVE \E e \in Delays : Value(after'[u]) = e
    BY DEF RepeatsDelay
  <2>1. CASE u = t
    BY <1>1, <1>2, <1>5, <2>1, Zenon DEF LoopVarsOK
  <2>2. CASE u # t
    BY <1>1, <1>5, <2>2, Zenon DEF RepeatsDelay, LoopVarsOK
  <2> QED BY <2>1, <2>2
<1>16. DueSound'
  <2> SUFFICES ASSUME NEW u \in Timers, Active(heap', u)
               PROVE  /\ lpc' \in {"timers", "callback"} \/ Value(due'[u]) >= MinClock
                      /\ lpc' = "poll" => Value(due'[u]) > Value(now')
                      /\ \E e \in Delays : Value(due'[u]) <= MaxClock + e
    BY DEF DueSound
  <2>1. CASE u = t
    <3>1. due'[u] = v /\ Value(v) >= MinClock /\ Value(v) <= MaxClock + d
      BY <1>2, <1>3, <1>4, <1>7, <2>1, ClockAssumption, SMTT(30)
    <3> QED BY <1>5, <3>1 DEF UserCode
  <2>2. CASE u # t
    <3>1. Active(heap, u) /\ due'[u] = due[u]
      BY <1>7, <1>10, <2>2, Zenon
    <3> QED BY <1>1, <1>5, <3>1 DEF DueSound
  <2> QED BY <2>1, <2>2
<1> QED BY <1>9, <1>10, <1>11, <1>12, <1>13, <1>14, <1>15, <1>16, InvIsNext, Zenon

LEMMA DelKeeps == ASSUME TimersInv, NEW t \in Timers, Del(t) PROVE TimersInv'
<1>1. /\ LoopVarsOK /\ HeapIs(heap, due) /\ NoDanglingTimer /\ RepeatStaysArmed
      /\ CallbackRuns /\ NewIsStopped /\ NowSound /\ RepeatsDelay /\ DueSound
  BY InvIs
<1>2. /\ stopped' = stopped \cup {t}
      /\ UNCHANGED <<tstate, after, deleted, due, capacity, lpc, self, now, isBreak, clock>>
  BY DEF Del, loopVars
<1>3. \/ repeat' = [repeat EXCEPT ![t] = FALSE] /\ UNCHANGED heap
      \/ heap' = Erase(heap, due, t) /\ UNCHANGED repeat
  BY DEF Del
<1>4. LoopVarsOK' /\ \A u \in Timers : repeat'[u] => repeat[u]
  BY <1>1, <1>2, <1>3, Zenon DEF LoopVarsOK
<1>5. /\ HeapIs(heap, due)'
      /\ \A u \in Timers : Active(heap', u) => Active(heap, u)
      /\ \A u \in Timers : u # t /\ Active(heap, u) => Active(heap', u)
  <2>1. due \in [Timers -> Normal]
    BY <1>1 DEF LoopVarsOK
  <2>2. Erased(Erase(heap, due, t), due, heap, t)
    BY <1>1, <2>1, EraseIs, Zenon
  <2> QED BY <1>1, <1>2, <1>3, <2>2 DEF Erased
<1>6. \A u \in Timers : Usable(u)' <=> Usable(u)
  BY <1>2, Zenon DEF Usable
<1>7. NoDanglingTimer' /\ RepeatStaysArmed'
  BY <1>1, <1>2, <1>4, <1>5, <1>6, Zenon DEF NoDanglingTimer, RepeatStaysArmed
<1>8. CallbackRuns' /\ NowSound' /\ NewIsStopped' /\ RepeatsDelay' /\ DueSound'
  BY <1>1, <1>2, <1>4, <1>5, Zenon DEF CallbackRuns, NowSound, NewIsStopped, RepeatsDelay, DueSound
<1> QED BY <1>4, <1>5, <1>7, <1>8, InvIsNext

LEMMA FreeKeeps == ASSUME TimersInv, NEW t \in Timers, Free(t) PROVE TimersInv'
<1>1. /\ LoopVarsOK /\ HeapIs(heap, due) /\ NoDanglingTimer /\ RepeatStaysArmed
      /\ CallbackRuns /\ NewIsStopped /\ NowSound /\ RepeatsDelay /\ DueSound
  BY InvIs
<1>2. /\ stopped' = stopped \cup {t} /\ heap' = Erase(heap, due, t) /\ Usable(t)
      /\ UNCHANGED <<after, due, capacity, lpc, self, now, isBreak, clock>>
  BY DEF Free, loopVars
<1>3. \/ /\ self # t /\ tstate' = [tstate EXCEPT ![t] = "freed"]
         /\ UNCHANGED <<repeat, deleted>>
      \/ /\ self = t /\ repeat' = [repeat EXCEPT ![t] = FALSE]
         /\ deleted' = [deleted EXCEPT ![t] = TRUE]
         /\ UNCHANGED tstate
  BY DEF Free
<1>4. /\ LoopVarsOK' /\ \A u \in Timers : repeat'[u] => repeat[u]
      /\ \A u \in Timers : u # t => tstate'[u] = tstate[u] /\ deleted'[u] = deleted[u]
      /\ tstate'[t] # "none" /\ (self = t => tstate'[t] = tstate[t])
  BY <1>1, <1>2, <1>3, Zenon DEF LoopVarsOK, Usable
<1>5. HeapIs(heap, due)' /\ \A u \in Timers : Active(heap', u) <=> Active(heap, u) /\ u # t
  <2>1. due \in [Timers -> Normal]
    BY <1>1 DEF LoopVarsOK
  <2>2. Erased(Erase(heap, due, t), due, heap, t)
    BY <1>1, <2>1, EraseIs
  <2> QED BY <1>2, <2>2, Zenon DEF Erased
<1>6. \A u \in Timers : u # t => (Usable(u)' <=> Usable(u))
  BY <1>4, Zenon DEF Usable
<1>7. NoDanglingTimer'
  <2>1. self # None => self \in Timers
    BY <1>1, Zenon DEF LoopVarsOK
  <2> QED BY <1>1, <1>2, <1>4, <1>5, <1>6, <2>1, Zenon DEF NoDanglingTimer
<1>8. RepeatStaysArmed'
  BY <1>1, <1>2, <1>4, <1>5, <1>6, Zenon DEF RepeatStaysArmed
<1>9. CallbackRuns' /\ NowSound' /\ NewIsStopped' /\ RepeatsDelay' /\ DueSound'
  BY <1>1, <1>2, <1>4, <1>5, Zenon DEF CallbackRuns, NowSound, NewIsStopped, RepeatsDelay, DueSound
<1> QED BY <1>4, <1>5, <1>7, <1>8, <1>9, InvIsNext, SMTT(30)

-----------------------------------------------------------------------------
(* The actions of the loop.                                                 *)

\* The system clock, nanoev_loop_break(), and the steps that only move the loop on
LEMMA MovesOn ==
  ASSUME TimersInv, UNCHANGED <<timerVars, heapVars, self, now, stopped>>,
         clock' \in MinClock .. MaxClock, isBreak' \in BOOLEAN,
         \/ lpc' = lpc
         \/ lpc = "timers" /\ ~TopIsDue /\ lpc' = "poll"
         \/ lpc = "poll" /\ lpc' \in {"batch", "out"}
         \/ lpc = "batch" /\ lpc' \in {"out", "update"}
  PROVE  TimersInv'
<1>1. /\ LoopVarsOK /\ HeapIs(heap, due) /\ NoDanglingTimer /\ RepeatStaysArmed
      /\ CallbackRuns /\ NewIsStopped /\ NowSound /\ RepeatsDelay /\ DueSound
  BY InvIs
<1>2. UNCHANGED <<tstate, after, repeat, deleted, heap, due, capacity, self, now, stopped>>
  BY DEF timerVars, heapVars
<1>3. LoopVarsOK'
  BY <1>1, <1>2, Zenon DEF LoopVarsOK
<1>4. /\ HeapIs(heap, due)' /\ NoDanglingTimer' /\ RepeatStaysArmed' /\ NewIsStopped'
      /\ RepeatsDelay'
  BY <1>1, <1>2, Zenon DEF NoDanglingTimer, RepeatStaysArmed, NewIsStopped, RepeatsDelay, Usable
<1>5. CallbackRuns' /\ NowSound'
  BY <1>1, <1>2 DEF CallbackRuns, NowSound
<1>6. DueSound'
  <2>1. CASE lpc = "timers" /\ ~TopIsDue /\ lpc' = "poll"
    <3> SUFFICES ASSUME NEW t \in Timers, Active(heap, t)
                 PROVE  Value(due[t]) > Value(now) /\ Value(due[t]) >= MinClock
      BY <1>1, <1>2, <2>1 DEF DueSound
    <3> DEFINE top == At(heap, 0)
    <3>1. due \in [Timers -> Normal] /\ now \in Normal
      BY <1>1 DEF LoopVarsOK
    <3>2. HeapOf(heap, Timers) /\ Ordered(heap, due)
      BY <1>1 DEF HeapIs
    <3>3. Size(heap) > 0 /\ top \in Timers /\ Value(due[top]) <= Value(due[t])
      BY <3>1, <3>2, TopIsFirst, Zenon
    <3>4. ~(TimeCmp(due[top], now) <= 0)
      BY <2>1, <3>3 DEF TopIsDue
    <3>5. due[top] \in Normal /\ due[t] \in Normal
      BY <3>1, <3>3, Zenon
    <3>6. /\ TimeCmp(due[top], now) > 0 <=> Value(due[top]) > Value(now)
          /\ TimeCmp(due[top], now) \in {-1, 0, 1}
      BY <3>1, <3>5, CmpExact, Zenon
    <3>7. Value(due[top]) > Value(now)
      BY <3>4, <3>6
    <3>8. Value(due[top]) \in Nat /\ Value(due[t]) \in Nat /\ Value(now) \in Nat
      BY <3>1, <3>5, ValueType
    <3>9. Value(now) >= MinClock
      BY <1>1, <2>1, Zenon DEF NowSound
    <3> HIDE DEF top
    <3> QED BY <3>3, <3>7, <3>8, <3>9, ClockAssumption, SMTT(30)
  <2>2. CASE ~(lpc = "timers" /\ lpc' = "poll")
    BY <1>1, <1>2, <2>2 DEF DueSound
  <2> QED BY <2>1, <2>2
<1> QED BY <1>3, <1>4, <1>5, <1>6, InvIsNext, Zenon

LEMMA RunStartKeeps == ASSUME TimersInv, RunStart PROVE TimersInv'
<1>1. /\ LoopVarsOK /\ HeapIs(heap, due) /\ NoDanglingTimer /\ RepeatStaysArmed
      /\ CallbackRuns /\ NewIsStopped /\ NowSound /\ RepeatsDelay /\ DueSound
  BY InvIs
<1>2. /\ lpc = "out" /\ lpc' = "update" /\ now' = TimeNow(clock) /\ isBreak' = FALSE
      /\ UNCHANGED <<tstate, after, repeat, deleted, heap, due, capacity, self, clock, stopped>>
  BY DEF RunStart, timerVars, heapVars
<1>3. clock \in Nat /\ clock >= MinClock /\ clock <= MaxClock
  BY <1>1, ClockAssumption DEF LoopVarsOK
<1>4. now' \in Normal /\ Value(now') = clock
  BY <1>2, <1>3, NowExact
<1>5. LoopVarsOK' /\ CallbackRuns'
  BY <1>1, <1>2, <1>4, ZenonT(30) DEF LoopVarsOK, CallbackRuns
<1>6. /\ HeapIs(heap, due)' /\ NoDanglingTimer' /\ RepeatStaysArmed' /\ NewIsStopped'
      /\ RepeatsDelay'
  BY <1>1, <1>2 DEF NoDanglingTimer, RepeatStaysArmed, NewIsStopped, RepeatsDelay, Usable
<1>7. NowSound'
  BY <1>3, <1>4, Zenon DEF NowSound
<1>8. DueSound'
  BY <1>1, <1>2 DEF DueSound
<1> QED BY <1>5, <1>6, <1>7, <1>8, InvIsNext, Zenon

\* __update_time(): when the clock was set back, every timer in the heap is due that much
\* earlier, and none before the epoch.
LEMMA UpdateIs ==
  ASSUME TimersInv, UpdateTime
  PROVE  LET k == IF Value(now') < Value(now) THEN Value(now) - Value(now') ELSE 0
         IN /\ now' \in Normal /\ Value(now') = clock /\ k \in Nat
            /\ due' \in [Timers -> Normal] /\ Recounted(due', due, heap, Timers, k)
<1> DEFINE k == IF Value(now') < Value(now) THEN Value(now) - Value(now') ELSE 0
           off == TimeSub(now, now')
<1>1. LoopVarsOK /\ NowSound /\ DueSound
  BY InvIs
<1>2. /\ lpc = "update" /\ now' = TimeNow(clock)
      /\ due' = [t \in Timers |-> IF TimeCmp(now', now) < 0 /\ Active(heap, t)
                                    THEN TimeSub(due[t], off) ELSE due[t]]
  BY DEF UpdateTime
<1>3. clock \in Nat /\ clock >= MinClock /\ clock <= MaxClock
  BY <1>1, ClockAssumption, SMTT(30) DEF LoopVarsOK
<1>4. now' \in Normal /\ Value(now') = clock
  BY <1>2, <1>3, NowExact
<1>5. now \in Normal /\ Value(now) \in Nat /\ due \in [Timers -> Normal]
  BY <1>1, ValueType DEF LoopVarsOK
<1>6. Value(now) >= MinClock /\ Value(now) <= MaxClock
  BY <1>1, <1>2 DEF NowSound
<1>7. k \in Nat
  BY <1>3, <1>4, <1>5
<1>8. TimeCmp(now', now) < 0 <=> Value(now') < Value(now)
  BY <1>4, <1>5, CmpExact
<1>9. Value(now') < Value(now) => off \in Normal /\ Value(off) = k
  <2> SUFFICES ASSUME Value(now') < Value(now) PROVE off \in Normal /\ Value(off) = k
    OBVIOUS
  <2>1. TimeCmp(now, now') > 0
    BY <1>4, <1>5, CmpExact
  <2>2. TimeCmp(now, now') >= 0
    BY <1>4, <1>5, <2>1, CmpExact, SMTT(30)
  <2> QED BY <1>4, <1>5, <2>2, SubExact, Zenon
<1>10. k <= MinClock
  BY <1>3, <1>4, <1>5, <1>6, ClockAssumption, SMTT(30)
<1> HIDE DEF off, k
<1>11. ASSUME NEW t \in Timers
       PROVE  /\ due'[t] \in Normal
              /\ Active(heap, t) => Value(due'[t]) = Value(due[t]) - k
  <2>1. CASE Value(now') < Value(now) /\ Active(heap, t)
    <3>1. due'[t] = TimeSub(due[t], off) /\ due[t] \in Normal
      BY <1>2, <1>5, <1>8, <2>1, Zenon
    <3>2. off \in Normal /\ Value(off) = k
      BY <1>9, <2>1, Zenon
    <3>3. Value(due[t]) >= MinClock /\ Value(due[t]) \in Nat
      BY <1>1, <1>2, <2>1, <3>1, ValueType, Zenon DEF DueSound
    <3>4. ~(Value(due[t]) < Value(off))
      BY <1>7, <1>10, <3>2, <3>3, ClockAssumption, SMTT(30)
    <3>5. TimeCmp(due[t], off) >= 0
      <4>1. /\ TimeCmp(due[t], off) < 0 <=> Value(due[t]) < Value(off)
            /\ TimeCmp(due[t], off) \in {-1, 0, 1}
        BY <3>1, <3>2, CmpExact, Zenon
      <4> QED BY <3>4, <4>1, SMTT(30)
    <3>6. TimeSub(due[t], off) \in Normal /\ Value(TimeSub(due[t], off)) = Value(due[t]) - Value(off)
      BY <3>1, <3>2, <3>5, SubExact, Zenon
    <3> QED BY <3>1, <3>2, <3>6, Zenon
  <2>2. CASE ~(Value(now') < Value(now) /\ Active(heap, t))
    <3>1. due'[t] = due[t] /\ due[t] \in Normal /\ Value(due[t]) \in Nat
      BY <1>2, <1>5, <1>8, <2>2, ValueType, Zenon
    <3>2. Active(heap, t) => k = 0
      BY <2>2 DEF k
    <3> QED BY <3>1, <3>2, SMTT(30)
  <2> QED BY <2>1, <2>2, Zenon
<1>12. due' \in [Timers -> Normal]
  BY <1>2, <1>11, Zenon
<1>13. Recounted(due', due, heap, Timers, k)
  BY <1>11 DEF Recounted
<1> QED BY <1>4, <1>7, <1>12, <1>13 DEF k

LEMMA UpdateTimeKeeps == ASSUME TimersInv, UpdateTime PROVE TimersInv'
<1>1. /\ LoopVarsOK /\ HeapIs(heap, due) /\ NoDanglingTimer /\ RepeatStaysArmed
      /\ CallbackRuns /\ NewIsStopped /\ NowSound /\ RepeatsDelay /\ DueSound
  BY InvIs
<1>2. /\ lpc = "update" /\ lpc' = "timers"
      /\ UNCHANGED <<tstate, after, repeat, deleted, heap, capacity, self, isBreak, clock, stopped>>
  BY DEF UpdateTime, timerVars
<1>3. PICK k \in Nat : /\ now' \in Normal /\ Value(now') = clock
                       /\ due' \in [Timers -> Normal] /\ Recounted(due', due, heap, Timers, k)
  BY UpdateIs, Zenon
<1>4. LoopVarsOK' /\ CallbackRuns'
  BY <1>1, <1>2, <1>3, Zenon DEF LoopVarsOK, CallbackRuns
<1>5. HeapIs(heap, due)'
  <2>1. HeapOf(heap, Timers) /\ Ordered(heap, due) /\ due \in [Timers -> Normal] /\ k \in Int
    BY <1>1 DEF HeapIs, LoopVarsOK
  <2>2. Ordered(heap, due')
    BY <1>3, <2>1, OrderKept, Zenon
  <2> QED BY <1>2, <2>1, <2>2, Zenon DEF HeapIs
<1>6. NoDanglingTimer' /\ RepeatStaysArmed' /\ NewIsStopped' /\ RepeatsDelay'
  BY <1>1, <1>2, Zenon DEF NoDanglingTimer, RepeatStaysArmed, NewIsStopped, RepeatsDelay, Usable
<1>7. NowSound'
  BY <1>1, <1>3, ClockAssumption, SMTT(30) DEF NowSound, LoopVarsOK
<1>8. DueSound'
  <2> SUFFICES ASSUME NEW t \in Timers, Active(heap, t)
               PROVE  \E d \in Delays : Value(due'[t]) <= MaxClock + d
    BY <1>2, Zenon DEF DueSound
  <2>1. PICK d \in Delays : Value(due[t]) <= MaxClock + d
    BY <1>1, Zenon DEF DueSound
  <2>2. Value(due'[t]) = Value(due[t]) - k /\ Value(due[t]) \in Nat
    BY <1>1, <1>3, ValueType, Zenon DEF Recounted, LoopVarsOK
  <2>3. Value(due'[t]) <= MaxClock + d
    BY <2>1, <2>2, ClockAssumption, DelaysAreValid, SMTT(30)
  <2> QED BY <2>3
<1> QED BY <1>4, <1>5, <1>6, <1>7, <1>8, InvIsNext, SMTT(30)

LEMMA FireKeeps == ASSUME TimersInv, Fire PROVE TimersInv'
<1> DEFINE top == At(heap, 0)
<1>1. /\ LoopVarsOK /\ HeapIs(heap, due) /\ NoDanglingTimer /\ RepeatStaysArmed
      /\ CallbackRuns /\ NewIsStopped /\ NowSound /\ RepeatsDelay /\ DueSound
  BY InvIs
<1>2. /\ lpc = "timers" /\ lpc' = "callback" /\ heap' = Erase(heap, due, top) /\ self' = top
      /\ Size(heap) > 0
      /\ UNCHANGED <<tstate, after, repeat, deleted, due, capacity, now, isBreak, clock, stopped>>
  BY DEF Fire, TopIsDue, timerVars
<1>3. top \in Timers /\ Active(heap, top)
  <2>1. Size(heap) \in Nat /\ \A i \in 0 .. Size(heap) - 1 : At(heap, i) \in Timers
        /\ heap.idx[At(heap, i)] = i
    BY <1>1, HeapFacts, Zenon DEF HeapIs
  <2>2. 0 \in 0 .. Size(heap) - 1
    BY <1>2, <2>1, SMTT(30)
  <2> QED BY <2>1, <2>2, SMTT(30) DEF Active, Absent
<1> HIDE DEF top
<1>4. HeapIs(heap, due)' /\ \A u \in Timers : Active(heap', u) <=> Active(heap, u) /\ u # top
  <2>1. due \in [Timers -> Normal]
    BY <1>1 DEF LoopVarsOK
  <2>2. Erased(Erase(heap, due, top), due, heap, top)
    BY <1>1, <1>3, <2>1, EraseIs, Zenon
  <2> QED BY <1>2, <2>2 DEF Erased
<1>5. LoopVarsOK' /\ CallbackRuns'
  BY <1>1, <1>2, <1>3, NoneIsNoTimer, Zenon DEF LoopVarsOK, CallbackRuns
<1>6. self = None
  BY <1>1, <1>2, Zenon DEF CallbackRuns
<1>7. \A u \in Timers : Usable(u)' <=> Usable(u)
  BY <1>2, Zenon DEF Usable
<1>8. NoDanglingTimer'
  BY <1>1, <1>2, <1>3, <1>4, <1>7, Zenon DEF NoDanglingTimer, Usable
<1>9. RepeatStaysArmed'
  BY <1>1, <1>2, <1>4, <1>6, <1>7, NoneIsNoTimer, Zenon DEF RepeatStaysArmed
<1>10. NewIsStopped' /\ NowSound' /\ RepeatsDelay' /\ DueSound'
  BY <1>1, <1>2, <1>4, SMTT(30) DEF NewIsStopped, NowSound, RepeatsDelay, DueSound
<1> QED BY <1>4, <1>5, <1>8, <1>9, <1>10, InvIsNext, Zenon

\* A repeating timer goes back into the heap at the time of the loop and its delay.
LEMMA ReturnIs ==
  ASSUME TimersInv, CallbackReturn
  PROVE  /\ self \in Timers /\ due' \in [Timers -> Normal] /\ HeapIs(heap, due)'
         /\ LET again == ~deleted[self] /\ repeat[self] /\ ~Active(heap, self)
            IN IF again
                 THEN /\ \A u \in Timers : Active(heap', u) <=> Active(heap, u) \/ u = self
                      /\ \A u \in Timers : u # self => due'[u] = due[u]
                      /\ \E d \in Delays : Value(due'[self]) = Value(LoopNow) + d
                 ELSE UNCHANGED <<heap, due>>
<1> DEFINE again == ~deleted[self] /\ repeat[self] /\ ~Active(heap, self)
           v == TimeAdd(LoopNow, after[self])
<1>1. LoopVarsOK /\ HeapIs(heap, due) /\ CallbackRuns /\ NowSound /\ RepeatsDelay
  BY InvIs, Zenon
<1>2. /\ lpc = "callback"
      /\ IF again THEN due' = [due EXCEPT ![self] = v] /\ heap' = Insert(heap, due', self)
                  ELSE UNCHANGED <<heap, due>>
  BY Zenon DEF CallbackReturn
<1>3. self \in Timers
  BY <1>1, <1>2 DEF CallbackRuns, LoopVarsOK
<1>4. due \in [Timers -> Normal] /\ after[self] \in Normal
  BY <1>1, <1>3 DEF LoopVarsOK
<1>5. LoopNow \in Normal
  BY <1>1, LoopNowIs
<1>6. v \in Normal /\ Value(v) = Value(LoopNow) + Value(after[self])
  BY <1>4, <1>5, AddExact, Zenon
<1> HIDE DEF v
<1>7. CASE again
  <2>1. due' = [due EXCEPT ![self] = v] /\ heap' = Insert(heap, due', self)
    BY <1>2, <1>7
  <2>2. Inserted(Insert(heap, due', self), due', heap, self)
    BY <1>1, <1>3, <1>4, <1>6, <1>7, <2>1, InsertIs, ZenonT(30)
  <2>3. HeapIs(heap', due') /\ \A u \in Timers : Active(heap', u) <=> Active(heap, u) \/ u = self
    BY <2>1, <2>2, Zenon DEF Inserted
  <2>4. /\ due' \in [Timers -> Normal] /\ due'[self] = v
        /\ \A u \in Timers : u # self => due'[u] = due[u]
    BY <1>3, <1>4, <1>6, <2>1, Zenon
  <2>5. PICK d \in Delays : Value(after[self]) = d
    BY <1>1, <1>3, <1>7, Zenon DEF RepeatsDelay
  <2>6. Value(due'[self]) = Value(LoopNow) + d
    BY <1>6, <2>4, <2>5, Zenon
  <2> QED BY <1>3, <1>7, <2>3, <2>4, <2>6, Zenon
<1>8. CASE ~again
  BY <1>1, <1>2, <1>3, <1>4, <1>8, Zenon
<1> QED BY <1>7, <1>8

LEMMA CallbackReturnKeeps == ASSUME TimersInv, CallbackReturn PROVE TimersInv'
<1> DEFINE again == ~deleted[self] /\ repeat[self] /\ ~Active(heap, self)
<1>1. /\ LoopVarsOK /\ HeapIs(heap, due) /\ NoDanglingTimer /\ RepeatStaysArmed
      /\ CallbackRuns /\ NewIsStopped /\ NowSound /\ RepeatsDelay /\ DueSound
  BY InvIs
<1>2. /\ lpc = "callback" /\ lpc' = "timers" /\ self' = None
      /\ tstate' = (IF deleted[self] THEN [tstate EXCEPT ![self] = "freed"] ELSE tstate)
      /\ UNCHANGED <<after, repeat, deleted, capacity, now, isBreak, clock, stopped>>
  BY Zenon DEF CallbackReturn
<1>3. /\ self \in Timers /\ due' \in [Timers -> Normal] /\ HeapIs(heap, due)'
      /\ again => /\ \A u \in Timers : Active(heap', u) <=> Active(heap, u) \/ u = self
                  /\ \A u \in Timers : u # self => due'[u] = due[u]
                  /\ \E d \in Delays : Value(due'[self]) = Value(LoopNow) + d
      /\ ~again => UNCHANGED <<heap, due>>
  BY ReturnIs, Zenon
<1>4. tstate[self] = "live"
  BY <1>1, <1>3, NoneIsNoTimer, Zenon DEF NoDanglingTimer
<1>5. /\ tstate' \in [Timers -> {"none", "live", "freed"}]
      /\ \A u \in Timers : u # self => tstate'[u] = tstate[u]
      /\ tstate'[self] = IF deleted[self] THEN "freed" ELSE "live"
  BY <1>1, <1>2, <1>3, <1>4, Zenon DEF LoopVarsOK
<1>6. LoopVarsOK' /\ CallbackRuns'
  BY <1>1, <1>2, <1>3, <1>5, Zenon DEF LoopVarsOK, CallbackRuns
<1>7. /\ \A u \in Timers : Usable(u)' <=> Usable(u)
      /\ Usable(self) <=> ~deleted[self]
  BY <1>2, <1>3, <1>4, <1>5, Zenon DEF Usable
<1>8. \A u \in Timers : u # self => (Active(heap', u) <=> Active(heap, u))
  BY <1>3, Zenon
<1>9. Active(heap', self) <=> again \/ Active(heap, self)
  BY <1>3
<1>10. NoDanglingTimer'
  <2>1. \A u \in Timers : Active(heap', u) => Usable(u)'
    BY <1>1, <1>3, <1>7, <1>8, <1>9, Zenon DEF NoDanglingTimer
  <2> QED BY <1>2, <2>1, Zenon DEF NoDanglingTimer
<1>11. RepeatStaysArmed'
  <2> SUFFICES ASSUME NEW u \in Timers, Usable(u)', repeat'[u], u \notin stopped'
               PROVE  Active(heap', u)
    BY Zenon DEF RepeatStaysArmed
  <2>1. CASE u = self
    BY <1>2, <1>7, <1>9, <2>1, Zenon
  <2>2. CASE u # self
    BY <1>1, <1>2, <1>7, <1>8, <2>2, Zenon DEF RepeatStaysArmed
  <2> QED BY <2>1, <2>2
<1>12. NewIsStopped' /\ NowSound' /\ RepeatsDelay'
  BY <1>1, <1>2, <1>5, Zenon DEF NewIsStopped, NowSound, RepeatsDelay
<1>13. DueSound'
  <2> SUFFICES ASSUME NEW u \in Timers, Active(heap', u)
               PROVE  \E d \in Delays : Value(due'[u]) <= MaxClock + d
    BY <1>2, Zenon DEF DueSound
  <2>1. CASE again /\ u = self
    <3>1. PICK d \in Delays : Value(due'[self]) = Value(LoopNow) + d
      BY <1>3, <2>1, Zenon
    <3>2. Value(LoopNow) \in Nat /\ Value(LoopNow) <= MaxClock
      BY <1>1, LoopNowIs
    <3>3. d \in Nat /\ MaxClock \in Nat
      BY ClockAssumption, DelaysAreValid, Zenon
    <3>4. Value(due'[self]) <= MaxClock + d
      BY <3>1, <3>2, <3>3, SMTT(30)
    <3> QED BY <2>1, <3>4, Zenon
  <2>2. CASE ~(again /\ u = self)
    <3>1. due'[u] = due[u] /\ Active(heap, u)
      BY <1>3, <1>8, <1>9, <2>2, Zenon
    <3> QED BY <1>1, <3>1, Zenon DEF DueSound
  <2> QED BY <2>1, <2>2, Zenon
<1> QED BY <1>3, <1>6, <1>10, <1>11, <1>12, <1>13, InvIsNext, Zenon

-----------------------------------------------------------------------------
(* The theorems.                                                            *)

\* A step that changes nothing
LEMMA TimersStutterKeeps == ASSUME TimersInv, UNCHANGED vars PROVE TimersInv'
<1>1. clock \in MinClock .. MaxClock /\ isBreak \in BOOLEAN
  BY InvIs DEF LoopVarsOK
<1>2. UNCHANGED <<timerVars, heapVars, lpc, self, now, isBreak, clock, stopped>>
  BY DEF vars, loopVars
<1> QED BY <1>1, <1>2, MovesOn, Zenon

LEMMA TimersStepKeeps == ASSUME TimersInv, Next PROVE TimersInv'
<1>1. clock \in MinClock .. MaxClock /\ isBreak \in BOOLEAN /\ MinClock \in Nat /\ MaxClock \in Nat
  BY InvIs, ClockAssumption, Zenon DEF LoopVarsOK
<1>2. ASSUME NEW t \in Timers, New(t) \/ Del(t) \/ Free(t) PROVE TimersInv'
  BY <1>2, NewKeeps, DelKeeps, FreeKeeps, Zenon
<1>3. ASSUME NEW t \in Timers, NEW d \in Delays, NEW r \in BOOLEAN, Add(t, d, r) PROVE TimersInv'
  BY <1>3, AddKeeps, Zenon
<1>4. CASE Break
  BY <1>1, <1>4, MovesOn DEF Break
<1>5. CASE RunStart
  BY <1>5, RunStartKeeps
<1>6. CASE UpdateTime \/ Fire \/ CallbackReturn
  BY <1>6, UpdateTimeKeeps, FireKeeps, CallbackReturnKeeps, Zenon
<1>7. CASE TimersDone
  BY <1>1, <1>7, MovesOn, Zenon DEF TimersDone
<1>8. CASE Poll
  BY <1>1, <1>8, MovesOn, Zenon DEF Poll
<1>9. CASE BatchDone
  <2>1. lpc' \in {"out", "update"}
    BY <1>9 DEF BatchDone
  <2> QED BY <1>1, <1>9, <2>1, MovesOn, Zenon DEF BatchDone
<1>10. CASE Tick \/ SetBack
  <2>1. clock' \in MinClock .. MaxClock
    BY <1>1, <1>10, SMTT(30) DEF Tick, SetBack
  <2>2. UNCHANGED <<timerVars, heapVars, self, now, stopped, lpc, isBreak>>
    BY <1>10 DEF Tick, SetBack, loopVars
  <2> QED BY <1>1, <2>1, <2>2, MovesOn, Zenon
<1> QED BY <1>2, <1>3, <1>4, <1>5, <1>6, <1>7, <1>8, <1>9, <1>10, Zenon DEF Next,
       LoopStep

\* TimersInv is an inductive invariant of the timers.
THEOREM TimersInvariance == Spec => []TimersInv
<1>1. Init => TimersInv
  BY InitSound
<1>2. TimersInv /\ [Next]_vars => TimersInv'
  BY TimersStepKeeps, TimersStutterKeeps
<1> QED BY <1>1, <1>2, PTL DEF Spec

\* The heap stays ordered and indexed whatever callbacks do to it in the middle of
\* timers_process(), and when the clock is set back.
THEOREM TimersHeapSound == Spec => []HeapSound
<1>1. TimersInv => HeapSound
  BY DEF TimersInv, HeapIs, HeapOf, HeapSound
<1> QED BY <1>1, TimersInvariance, PTL

\* No timer in the heap has been freed, and the running timer is still allocated.
THEOREM TimersDoNotDangle == Spec => []NoDanglingTimer
<1>1. TimersInv => NoDanglingTimer
  BY Zenon DEF TimersInv
<1> QED BY <1>1, TimersInvariance, PTL

\* A repeating timer is in the heap until the application stops it.
THEOREM RepeatingTimersStayArmed == Spec => []RepeatStaysArmed
<1>1. TimersInv => RepeatStaysArmed
  BY DEF TimersInv
<1> QED BY <1>1, TimersInvariance, PTL

\* The milliseconds of every wait fit an int: a delay and all that the clock can be set
\* back by between two runs.
DelaysFit == \A d \in Delays : d + (MaxClock - MinClock) < IntLimit * UMilli

\* A number of milliseconds below the limit
LEMMA FitsInt ==
  ASSUME NEW n \in Nat, n * UMilli < IntLimit * UMilli
  PROVE  n < IntLimit
<1> SUFFICES ASSUME ~(n < IntLimit) PROVE FALSE
  OBVIOUS
<1>1. PICK k \in Nat : n = IntLimit + k
  <2>1. n - IntLimit \in Nat /\ n = IntLimit + (n - IntLimit)
    BY UnitsAssumption
  <2> QED BY <2>1
<1>2. n * UMilli = IntLimit * UMilli + k * UMilli
  BY <1>1, UnitsAssumption
<1>3. k * UMilli \in Nat /\ IntLimit * UMilli \in Nat
  BY UnitsAssumption
<1> QED BY <1>2, <1>3

\* The poller is not asked to wait past the first deadline, nor for ever, when delays fit.
THEOREM TimersPollWakes == DelaysFit /\ Spec => []PollWakesInTime
<1> SUFFICES ASSUME DelaysFit PROVE Spec => []PollWakesInTime
  OBVIOUS
<1>1. TimersInv => PollWakesInTime
  <2> HAVE TimersInv
  <2> SUFFICES ASSUME lpc = "poll", Size(heap) > 0
               PROVE  LET wait == PollMilliseconds(TimersTimeout(due[At(heap, 0)], now))
                      IN wait >= 0 /\ Value(now) + wait * UMilli <= Value(due[At(heap, 0)])
    BY DEF PollWakesInTime
  <2> DEFINE top == due[At(heap, 0)]
             left == TimeSub(top, now)
  <2>1. LoopVarsOK /\ HeapIs(heap, due) /\ NowSound /\ DueSound
    BY InvIs, Zenon
  <2>2. At(heap, 0) \in Timers /\ Active(heap, At(heap, 0))
    <3>1. Size(heap) \in Nat /\ \A i \in 0 .. Size(heap) - 1 : At(heap, i) \in Timers
          /\ heap.idx[At(heap, i)] = i
      BY <2>1, HeapFacts, Zenon DEF HeapIs
    <3>2. 0 \in 0 .. Size(heap) - 1
      BY <3>1, SMTT(30)
    <3> QED BY <3>1, <3>2, SMTT(30) DEF Active, Absent
  <2>3. top \in Normal /\ now \in Normal /\ Value(top) \in Nat /\ Value(now) \in Nat
    BY <2>1, <2>2, ValueType, Zenon DEF LoopVarsOK
  <2>4. Value(top) > Value(now) /\ Value(now) >= MinClock
    BY <2>1, <2>2, Zenon DEF DueSound, NowSound
  <2>5. PICK d \in Delays : Value(top) <= MaxClock + d
    BY <2>1, <2>2, Zenon DEF DueSound
  <2> HIDE DEF top
  <2>6. TimeCmp(top, now) > 0
    BY <2>3, <2>4, CmpExact, Zenon
  <2>7. left \in Normal /\ Value(left) = Value(top) - Value(now)
    <3>1. TimeCmp(top, now) >= 0
      BY <2>3, <2>6, CmpExact, SMTT(30)
    <3> QED BY <2>3, <3>1, SubExact, Zenon
  <2>8. Milliseconds(left) \in Nat /\ Milliseconds(left) * UMilli <= Value(left)
    BY <2>7, MillisecondsShort, Zenon
  <2> HIDE DEF left
  <2>9. Value(left) < IntLimit * UMilli
    <3>1. d \in Nat /\ d + (MaxClock - MinClock) < IntLimit * UMilli /\ IntLimit * UMilli \in Nat
      BY DelaysAreValid, UnitsAssumption DEF DelaysFit
    <3> QED BY <2>3, <2>4, <2>5, <2>7, <3>1, ClockAssumption, SMTT(30)
  <2>10. Milliseconds(left) < IntLimit
    <3>1. Milliseconds(left) * UMilli \in Nat /\ IntLimit * UMilli \in Nat /\ Value(left) \in Nat
      BY <2>7, <2>8, ValueType, UnitsAssumption, SMTT(30)
    <3>2. Milliseconds(left) * UMilli < IntLimit * UMilli
      BY <2>8, <2>9, <3>1, SMTT(30)
    <3> QED BY <2>8, <3>2, FitsInt, Zenon
  <2>11. LET wait == PollMilliseconds(TimersTimeout(top, now))
         IN wait \in Nat /\ Value(now) + wait * UMilli <= Value(top)
    BY <2>3, <2>6, <2>10, WaitEndsInTime, Zenon DEF left
  <2> QED BY <2>11 DEF top
<1> QED BY <1>1, TimersInvariance, PTL

-----------------------------------------------------------------------------
(* The timers implement a TimerSet.                                         *)

\* The deadlines of the timers, as a TimerSet has them
Deadlines == [t \in Timers |-> IF Active(heap, t) THEN Value(due[t]) ELSE NotArmed]

\* A timer is armed while its node is in the heap.
LEMMA DeadlinesAre ==
  ASSUME due \in [Timers -> Normal]
  PROVE  /\ TS!Armed = {t \in Timers : Active(heap, t)}
         /\ \A t \in Timers : Deadlines[t] = IF Active(heap, t) THEN Value(due[t]) ELSE NotArmed
<1>1. \A t \in Timers : Value(due[t]) \in Nat /\ Value(due[t]) # NotArmed
  BY ValueType DEF NotArmed
<1> QED BY <1>1 DEF TS!Armed, Deadlines

\* One timer gets a deadline.
LEMMA ArmedOne ==
  ASSUME NEW t \in Timers, NEW d \in Delays, Active(heap', t),
         \A u \in Timers : u # t => /\ Active(heap', u) <=> Active(heap, u)
                                    /\ Active(heap, u) => due'[u] = due[u],
         IF Value(now) # 0 THEN Value(due'[t]) = Value(now) + d ELSE Value(due'[t]) >= d
  PROVE  TS!SetDue(t)
<1>1. Deadlines' = [Deadlines EXCEPT ![t] = Deadlines'[t]]
  <2>1. \A u \in Timers : u # t => Deadlines'[u] = Deadlines[u]
    BY Zenon DEF Deadlines
  <2>2. DOMAIN Deadlines = Timers /\ DOMAIN Deadlines' = Timers
    BY Zenon DEF Deadlines
  <2>3. Deadlines' = [u \in Timers |-> Deadlines'[u]] /\ Deadlines = [u \in Timers |-> Deadlines[u]]
    BY Zenon DEF Deadlines
  <2> HIDE DEF Deadlines
  <2> QED BY <2>1, <2>2, <2>3, Zenon
<1>2. Deadlines'[t] = Value(due'[t])
  BY Zenon DEF Deadlines
<1>3. /\ Deadlines' = [Deadlines EXCEPT ![t] = Deadlines'[t]]
      /\ IF Value(now) # 0 THEN Deadlines'[t] = Value(now) + d ELSE Deadlines'[t] >= d
  BY <1>1, <1>2
<1> QED BY <1>3, Zenon DEF TS!SetDue, Deadlines

\* One timer loses its deadline, or had none.
LEMMA DisarmedOne ==
  ASSUME NEW t \in Timers, UNCHANGED due,
         \A u \in Timers : Active(heap', u) <=> Active(heap, u) /\ u # t
  PROVE  /\ Deadlines' = [Deadlines EXCEPT ![t] = NotArmed]
         /\ ~Active(heap, t) => Deadlines' = Deadlines
BY Zenon DEF Deadlines

\* No deadline changes.
LEMMA DeadlinesStay ==
  ASSUME \A u \in Timers : /\ Active(heap', u) <=> Active(heap, u)
                           /\ Active(heap, u) => due'[u] = due[u]
  PROVE  Deadlines' = Deadlines
BY DEF Deadlines

\* What the application does to a timer arms it, disarms it or changes nothing.
LEMMA ApplicationArms ==
  ASSUME TimersInv, NEW t \in Timers,
         New(t) \/ Del(t) \/ Free(t) \/ \E d \in Delays, r \in BOOLEAN : Add(t, d, r)
  PROVE  [TS!Next]_TS!vars
<1>1. LoopVarsOK /\ HeapIs(heap, due) /\ NowSound
  BY InvIs, Zenon
<1>2. due \in [Timers -> Normal]
  BY <1>1, Zenon DEF LoopVarsOK
<1>3. TS!Armed = {u \in Timers : Active(heap, u)}
  BY <1>2, DeadlinesAre, Zenon
<1>4. UNCHANGED <<now, self, lpc>>
  BY DEF New, Del, Free, Add, loopVars
<1>5. CASE UNCHANGED <<heap, due>>
  BY <1>4, <1>5, Zenon DEF TS!vars
<1>6. CASE heap' = Erase(heap, due, t) /\ UNCHANGED due
  <2>1. Erased(Erase(heap, due, t), due, heap, t)
    BY <1>1, <1>2, EraseIs, Zenon
  <2>2. \A u \in Timers : Active(heap', u) <=> Active(heap, u) /\ u # t
    BY <1>6, <2>1, Zenon DEF Erased
  <2>3. /\ Deadlines' = [Deadlines EXCEPT ![t] = NotArmed]
        /\ ~Active(heap, t) => Deadlines' = Deadlines
    BY <1>6, <2>2, DisarmedOne, Zenon
  <2>4. CASE Active(heap, t)
    <3>1. TS!Disarm(t)
      BY <1>3, <1>4, <2>3, <2>4, Zenon DEF TS!Disarm, Deadlines
    <3> QED BY <3>1, Zenon DEF TS!Next
  <2>5. CASE ~Active(heap, t)
    BY <1>4, <2>3, <2>5, Zenon DEF TS!vars, Deadlines
  <2> QED BY <2>4, <2>5, Zenon
<1>7. ASSUME NEW d \in Delays, NEW r \in BOOLEAN, Add(t, d, r) PROVE [TS!Next]_TS!vars
  <2> DEFINE v == TimeAdd(LoopNow, TimeNow(d))
  <2>1. d \in Nat /\ TimeNow(d) \in Normal /\ Value(TimeNow(d)) = d
    BY NowExact, DelaysAreValid, Zenon
  <2>2. LoopNow \in Normal /\ Value(LoopNow) \in Nat /\ (Value(now) # 0 => LoopNow = now)
    BY <1>1, LoopNowIs, Zenon
  <2>3. v \in Normal /\ Value(v) = Value(LoopNow) + d
    BY <2>1, <2>2, AddExact, SMTT(30)
  <2>4. ~Active(heap, t) /\ due' = [due EXCEPT ![t] = v]
    BY <1>7 DEF Add
  <2>5. heap' = Insert(heap, due', t) \/ UNCHANGED heap
    BY <1>7, Zenon DEF Add
  <2> HIDE DEF v
  <2>6. due'[t] = v /\ \A u \in Timers : u # t => due'[u] = due[u]
    BY <1>2, <2>4, Zenon
  <2>7. CASE UNCHANGED heap
    <3>1. \A u \in Timers : /\ Active(heap', u) <=> Active(heap, u)
                            /\ Active(heap, u) => due'[u] = due[u]
      BY <2>4, <2>6, <2>7, Zenon
    <3>2. Deadlines' = Deadlines
      BY <3>1, DeadlinesStay, Zenon
    <3> QED BY <1>4, <3>2, Zenon DEF TS!vars, Deadlines
  <2>8. CASE heap' = Insert(heap, due', t)
    <3>1. Inserted(Insert(heap, due', t), due', heap, t)
      BY <1>1, <1>2, <2>3, <2>4, InsertIs, ZenonT(30)
    <3>2. \A u \in Timers : Active(heap', u) <=> Active(heap, u) \/ u = t
      BY <2>8, <3>1, Zenon DEF Inserted
    <3>3. /\ Active(heap', t)
          /\ \A u \in Timers : u # t => /\ Active(heap', u) <=> Active(heap, u)
                                        /\ Active(heap, u) => due'[u] = due[u]
      BY <2>6, <3>2, Zenon
    <3>4. IF Value(now) # 0 THEN Value(due'[t]) = Value(now) + d ELSE Value(due'[t]) >= d
      BY <2>1, <2>2, <2>3, <2>6, SMTT(30)
    <3>5. TS!SetDue(t)
      BY <3>3, <3>4, ArmedOne, Zenon
    <3>6. TS!Arm(t)
      BY <1>3, <1>4, <2>4, <3>5, Zenon DEF TS!Arm
    <3> QED BY <3>6 DEF TS!Next
  <2> QED BY <2>5, <2>7, <2>8, Zenon
<1>8. New(t) => UNCHANGED <<heap, due>>
  BY Zenon DEF New, heapVars
<1>9. Del(t) => UNCHANGED <<heap, due>> \/ (heap' = Erase(heap, due, t) /\ UNCHANGED due)
  BY Zenon DEF Del
<1>10. Free(t) => heap' = Erase(heap, due, t) /\ UNCHANGED due
  BY DEF Free
<1> QED BY <1>5, <1>6, <1>7, <1>8, <1>9, <1>10, Zenon

\* __update_time() lets time pass, or takes the offset from every deadline.
LEMMA UpdateAdvances == ASSUME TimersInv, UpdateTime PROVE [TS!Next]_TS!vars
<1> DEFINE k == IF Value(now') < Value(now) THEN Value(now) - Value(now') ELSE 0
<1>1. LoopVarsOK /\ CallbackRuns
  BY InvIs, Zenon
<1>2. now' \in Normal /\ Recounted(due', due, heap, Timers, k)
  BY UpdateIs, Zenon
<1>3. due \in [Timers -> Normal] /\ Value(now) \in Nat /\ Value(now') \in Nat
  BY <1>1, <1>2, ValueType, Zenon DEF LoopVarsOK
<1>4. lpc = "update" /\ lpc' = "timers" /\ UNCHANGED <<heap, self>>
  BY DEF UpdateTime
<1>5. self = None
  BY <1>1, <1>4, Zenon DEF CallbackRuns
<1>6. TS!Armed = {u \in Timers : Active(heap, u)}
  BY <1>3, DeadlinesAre, Zenon
<1>7. \A u \in Timers : /\ Value(due[u]) \in Nat
                        /\ Active(heap, u) => Value(due'[u]) = Value(due[u]) - k
  BY <1>2, <1>3, ValueType, Zenon DEF Recounted
<1>8. CASE Value(now') < Value(now)
  <2>1. \A u \in Timers : Deadlines'[u] = IF u \in TS!Armed
                                             THEN Deadlines[u] - (Value(now) - Value(now'))
                                             ELSE NotArmed
    BY <1>4, <1>6, <1>7, <1>8, Zenon DEF Deadlines
  <2>2. Deadlines' = [u \in Timers |-> Deadlines'[u]]
    BY DEF Deadlines
  <2>3. Deadlines' = [u \in Timers |-> IF u \in TS!Armed
                                         THEN Deadlines[u] - (Value(now) - Value(now'))
                                         ELSE NotArmed]
    BY <2>1, <2>2, Zenon
  <2>4. TS!SetBack
    BY <1>4, <1>5, <1>8, <2>3, Zenon DEF TS!SetBack, Deadlines
  <2> QED BY <2>4, Zenon DEF TS!Next
<1>9. CASE ~(Value(now') < Value(now))
  <2>1. \A u \in Timers : Active(heap, u) => Value(due'[u]) = Value(due[u])
    BY <1>7, <1>9, SMTT(30)
  <2>2. Deadlines' = Deadlines
    BY <1>4, <2>1, Zenon DEF Deadlines
  <2>3. CASE Value(now') = Value(now)
    BY <1>4, <2>2, <2>3, Zenon DEF TS!vars, Deadlines
  <2>4. CASE Value(now') > Value(now)
    <3>1. TS!Advance
      BY <1>4, <1>5, <2>2, <2>4, Zenon DEF TS!Advance, Deadlines
    <3> QED BY <3>1, Zenon DEF TS!Next
  <2> QED BY <1>3, <1>9, <2>3, <2>4, SMTT(30)
<1> QED BY <1>8, <1>9

\* timers_process() runs an armed timer that is due and that none precedes.
LEMMA FireFires == ASSUME TimersInv, Fire PROVE TS!Next
<1> DEFINE top == At(heap, 0)
<1>1. LoopVarsOK /\ HeapIs(heap, due) /\ CallbackRuns
  BY InvIs
<1>2. due \in [Timers -> Normal] /\ now \in Normal
  BY <1>1, Zenon DEF LoopVarsOK
<1>3. /\ lpc = "timers" /\ lpc' = "callback" /\ heap' = Erase(heap, due, top) /\ self' = top
      /\ Size(heap) > 0 /\ TimeCmp(due[top], now) <= 0 /\ UNCHANGED <<due, now>>
  BY Zenon DEF Fire, TopIsDue
<1>4. top \in Timers /\ Active(heap, top)
  <2>1. Size(heap) \in Nat /\ \A i \in 0 .. Size(heap) - 1 : At(heap, i) \in Timers
        /\ heap.idx[At(heap, i)] = i
    BY <1>1, HeapFacts, Zenon DEF HeapIs
  <2>2. 0 \in 0 .. Size(heap) - 1
    BY <1>3, <2>1, SMTT(30)
  <2> QED BY <2>1, <2>2 DEF Active, Absent
<1>5. \A u \in Timers : Active(heap, u) => Value(due[top]) <= Value(due[u])
  BY <1>1, <1>2, TopIsFirst, Zenon DEF HeapIs
<1>6. Value(due[top]) <= Value(now)
  <2>1. due[top] \in Normal /\ Value(due[top]) \in Nat /\ Value(now) \in Nat
    BY <1>2, <1>4, ValueType, Zenon
  <2>2. /\ TimeCmp(due[top], now) > 0 <=> Value(due[top]) > Value(now)
        /\ TimeCmp(due[top], now) \in {-1, 0, 1}
    BY <1>2, <2>1, CmpExact, Zenon
  <2> QED BY <1>3, <2>1, <2>2, SMTT(30)
<1> HIDE DEF top
<1>7. Erased(Erase(heap, due, top), due, heap, top)
  BY <1>1, <1>2, <1>4, EraseIs, Zenon
<1>8. \A u \in Timers : Active(heap', u) <=> Active(heap, u) /\ u # top
  BY <1>3, <1>7, Zenon DEF Erased
<1>9. Deadlines' = [Deadlines EXCEPT ![top] = NotArmed]
  BY <1>3, <1>4, <1>8, DisarmedOne, Zenon
<1>10. /\ TS!Armed = {u \in Timers : Active(heap, u)}
       /\ \A u \in Timers : Deadlines[u] = IF Active(heap, u) THEN Value(due[u]) ELSE NotArmed
  BY <1>2, DeadlinesAre, Zenon
<1>11. /\ top \in TS!Armed /\ Deadlines[top] <= Value(now)
       /\ \A u \in TS!Armed : Deadlines[top] <= Deadlines[u]
  BY <1>4, <1>5, <1>6, <1>10, Zenon
<1>12. self = None
  BY <1>1, <1>3, Zenon DEF CallbackRuns
<1>13. TS!Fire(top)
  BY <1>3, <1>9, <1>11, <1>12, SMTT(30) DEF TS!Fire, Deadlines
<1> QED BY <1>4, <1>13 DEF TS!Next

\* The callback returns, and a timer that repeats is armed again.
LEMMA ReturnReturns == ASSUME TimersInv, CallbackReturn PROVE TS!Next
<1> DEFINE again == ~deleted[self] /\ repeat[self] /\ ~Active(heap, self)
<1>1. LoopVarsOK /\ NowSound
  BY InvIs, Zenon
<1>2. lpc = "callback" /\ lpc' = "timers" /\ self' = None /\ UNCHANGED now
  BY Zenon DEF CallbackReturn
<1>3. /\ self \in Timers
      /\ again => /\ \A u \in Timers : Active(heap', u) <=> Active(heap, u) \/ u = self
                  /\ \A u \in Timers : u # self => due'[u] = due[u]
                  /\ \E d \in Delays : Value(due'[self]) = Value(LoopNow) + d
      /\ ~again => UNCHANGED <<heap, due>>
  BY ReturnIs, Zenon
<1>4. self # None
  BY <1>3, NoneIsNoTimer, Zenon
<1>5. due \in [Timers -> Normal]
  BY <1>1 DEF LoopVarsOK
<1>6. TS!Armed = {u \in Timers : Active(heap, u)}
  BY <1>5, DeadlinesAre
<1>7. Value(LoopNow) \in Nat /\ (Value(now) # 0 => LoopNow = now)
  BY <1>1, LoopNowIs
<1>8. CASE ~again
  <2>1. TS!Return
    BY <1>2, <1>3, <1>4, <1>8, Zenon DEF TS!Return
  <2> QED BY <2>1, Zenon DEF TS!Next
<1>9. CASE again
  <2>1. PICK d \in Delays : Value(due'[self]) = Value(LoopNow) + d
    BY <1>3, <1>9, Zenon
  <2>2. IF Value(now) # 0 THEN Value(due'[self]) = Value(now) + d ELSE Value(due'[self]) >= d
    BY <1>7, <2>1, DelaysAreValid, SMTT(30)
  <2>3. /\ Active(heap', self)
        /\ \A u \in Timers : u # self => /\ Active(heap', u) <=> Active(heap, u)
                                         /\ Active(heap, u) => due'[u] = due[u]
    BY <1>3, <1>9, Zenon
  <2>4. TS!SetDue(self)
    BY <1>3, <2>2, <2>3, ArmedOne, Zenon
  <2>5. self \notin TS!Armed
    BY <1>6, <1>9, Zenon
  <2>6. TS!Return
    BY <1>2, <1>4, <2>4, <2>5, Zenon DEF TS!Return
  <2> QED BY <2>6, Zenon DEF TS!Next
<1> QED BY <1>8, <1>9

\* The loop implements a TimerSet: every timer is armed for the time it was added with,
\* runs only when it is due and none is due before it, and waits no longer when the
\* clock is set back during a run.
THEOREM TimersImplementTimerSet == Spec => ImplementsTimerSet
<1>1. Init => TS!Init
  <2> SUFFICES ASSUME Init PROVE TS!Init
    OBVIOUS
  <2>1. \A t \in Timers : ~Active(heap, t)
    BY EmptyHeapSound, Zenon DEF Init
  <2>2. now = Zero /\ Value(Zero) = 0 /\ self = None /\ lpc = "out"
    BY ZeroIs, Zenon DEF Init
  <2> QED BY <2>1, <2>2, Zenon DEF TS!Init
<1>2. TimersInv /\ [Next]_vars => [TS!Next]_TS!vars
  <2> SUFFICES ASSUME TimersInv, [Next]_vars PROVE [TS!Next]_TS!vars
    BY Zenon
  <2>1. CASE UNCHANGED <<heap, due, now, self, lpc>>
    BY <2>1, Zenon DEF TS!vars
  <2>2. ASSUME NEW t \in Timers,
               New(t) \/ Del(t) \/ Free(t) \/ \E d \in Delays, r \in BOOLEAN : Add(t, d, r)
        PROVE  [TS!Next]_TS!vars
    BY <2>2, ApplicationArms, Zenon
  <2>3. CASE RunStart
    <3>1. clock \in Nat
      BY InvIs, ClockAssumption, SMTT(30) DEF LoopVarsOK
    <3>2. Value(now') \in Nat
      BY <2>3, <3>1, NowExact, Zenon DEF RunStart
    <3>3. lpc = "out" /\ lpc' = "update" /\ UNCHANGED <<heap, due, self>>
      BY <2>3 DEF RunStart, heapVars
    <3>4. TS!Begin
      BY <3>2, <3>3 DEF TS!Begin
    <3> QED BY <3>4, Zenon DEF TS!Next
  <2>4. CASE UpdateTime
    BY <2>4, UpdateAdvances
  <2>5. CASE Fire \/ CallbackReturn
    BY <2>5, FireFires, ReturnReturns, Zenon
  <2>6. CASE TimersDone
    BY <2>6 DEF TimersDone, heapVars, TS!vars
  <2>7. CASE Poll \/ BatchDone
    <3>1. /\ lpc \in {"poll", "batch"} /\ lpc' \in {"batch", "out", "update"}
          /\ UNCHANGED <<heap, due, now, self>>
      BY <2>7 DEF Poll, BatchDone, heapVars
    <3>2. self = None
      BY <3>1, InvIs, Zenon DEF CallbackRuns
    <3>3. CASE lpc' \in {"batch", "update"}
      BY <3>1, <3>3 DEF TS!vars
    <3>4. CASE lpc' = "out"
      <4>1. TS!End
        BY <3>1, <3>2, <3>4, Zenon DEF TS!End
      <4> QED BY <4>1 DEF TS!Next
    <3> QED BY <3>1, <3>3, <3>4, Zenon
  <2>8. UNCHANGED vars \/ Break \/ Tick \/ SetBack => UNCHANGED <<heap, due, now, self, lpc>>
    BY DEF vars, Break, Tick, SetBack, heapVars, loopVars
  <2> QED BY <2>1, <2>2, <2>3, <2>4, <2>5, <2>6, <2>7, <2>8, SMTT(30) DEF Next, LoopStep
<1>3. Spec => []TimersInv
  BY TimersInvariance
<1> QED BY <1>1, <1>2, <1>3, PTL DEF Spec, TS!Spec, ImplementsTimerSet

-----------------------------------------------------------------------------
(* Loop: no wakeup is lost, for any number of threads.                      *)

\* The lock is held exactly between setting is_break and the notification.
LoopLockInv ==
  /\ \A b \in Breakers : bpc[b] = "set" <=> loopLock = b
  /\ loopLock # Nobody => is_break

LoopInv == LoopTypeOK /\ LoopLockInv /\ BreakIsNoticed

\* The invariant, of which the last conjunct is the one of interest: a loop that
\* may go to sleep in the poller with is_break set will be woken.
THEOREM LoopInvariance == LoopSpec => []LoopInv
<1> USE NobodyAssumption DEF LoopInv, LoopTypeOK, LoopLockInv, BreakIsNoticed
<1>1. LoopInit => LoopInv
  BY ZenonT(30) DEF LoopInit
<1>2. LoopInv /\ [LoopNext]_breakVars => LoopInv'
  <2> SUFFICES ASSUME LoopInv, [LoopNext]_breakVars PROVE LoopInv'
    OBVIOUS
  <2>1. ASSUME NEW b \in Breakers, BreakCall(b) PROVE LoopInv'
    BY <2>1, Zenon DEF BreakCall
  <2>2. ASSUME NEW b \in Breakers, BreakSet(b) PROVE LoopInv'
    <3>1. CASE is_break
      BY <2>2, <3>1, Zenon DEF BreakSet
    <3>2. CASE ~is_break
      BY <2>2, <3>2, SMTT(30) DEF BreakSet
    <3> QED BY <3>1, <3>2, Zenon
  <2>3. ASSUME NEW b \in Breakers, BreakNotify(b) PROVE LoopInv'
    BY <2>3 DEF BreakNotify
  <2>4. CASE RunBegins \/ BreakInCallback
    BY <2>4, Zenon DEF RunBegins, BreakInCallback
  <2>5. CASE EnterPoll
    BY <2>5 DEF EnterPoll
  <2>6. CASE PollNotified
    BY <2>6, Zenon DEF PollNotified
  <2>7. CASE PollOther \/ PollFails
    BY <2>7, Zenon DEF PollOther, PollFails
  <2>8. CASE CheckBreak
    BY <2>8, Zenon DEF CheckBreak
  <2>9. CASE UNCHANGED breakVars
    BY <2>9, Zenon DEF breakVars
  <2> QED
    BY <2>1, <2>2, <2>3, <2>4, <2>5, <2>6, <2>7, <2>8, <2>9, SMTT(30) DEF LoopNext, RunStep
<1> QED BY <1>1, <1>2, PTL DEF LoopSpec

\* No wakeup by nanoev_loop_break() is lost.
THEOREM BreakIsNotLost == LoopSpec => []BreakIsNoticed
<1>1. LoopInv => BreakIsNoticed
  BY Zenon DEF LoopInv
<1> QED BY <1>1, LoopInvariance, PTL

-----------------------------------------------------------------------------
(* FakeEvents: the array is a FIFO queue, whatever its sizes.               *)

\* The places in use hold completions, not memory that was never written.
Written ==
  \A i \in 0 .. events_count - 1 : events[events_start + i] \in Events

\* The inductive invariant.
ArrayInv == FakeTypeOK /\ WithinArray /\ Written

\* A part of the array as a sequence.
Window(array, start, count) == [i \in 1 .. count |-> array[start + i - 1]]

\* A window of the array is a sequence of completions.
LEMMA WindowIsSeq ==
  ASSUME NEW array, NEW start \in Nat, NEW count \in Nat,
         \A i \in 0 .. count - 1 : array[start + i] \in Events
  PROVE  /\ Window(array, start, count) \in Seq(Events)
         /\ Len(Window(array, start, count)) = count
         /\ \A i \in 1 .. count : Window(array, start, count)[i] = array[start + i - 1]
<1> DEFINE window == Window(array, start, count)
<1>1. \A i \in 1 .. count : array[start + i - 1] \in Events
  <2> SUFFICES ASSUME NEW i \in 1 .. count PROVE array[start + i - 1] \in Events
    OBVIOUS
  <2>1. i - 1 \in 0 .. count - 1 /\ start + (i - 1) = start + i - 1
    OBVIOUS
  <2> QED BY <2>1, Zenon
<1>2. window \in [1 .. count -> Events]
  BY <1>1 DEF Window
<1>3. window \in Seq(Events)
  BY <1>2
<1>4. Len(window) = count
  BY <1>2, <1>3, SMTT(30)
<1>5. \A i \in 1 .. count : window[i] = array[start + i - 1]
  BY Zenon DEF Window
<1> QED BY <1>3, <1>4, <1>5, Zenon

\* The abstract queue is a sequence of completions, before and after a step.
LEMMA QueueType ==
  /\ ArrayInv => /\ queue \in Seq(Events) /\ Len(queue) = events_count
            /\ \A i \in 1 .. events_count : queue[i] = events[events_start + i - 1]
  /\ ArrayInv' => /\ queue' \in Seq(Events) /\ Len(queue') = events_count'
             /\ \A i \in 1 .. events_count' : queue'[i] = events'[events_start' + i - 1]
<1>1. ASSUME ArrayInv
      PROVE  /\ queue \in Seq(Events) /\ Len(queue) = events_count
             /\ \A i \in 1 .. events_count : queue[i] = events[events_start + i - 1]
  <2>1. queue = Window(events, events_start, events_count)
    BY DEF queue, Window
  <2>2. /\ events_start \in Nat /\ events_count \in Nat
        /\ \A i \in 0 .. events_count - 1 : events[events_start + i] \in Events
    BY <1>1 DEF ArrayInv, FakeTypeOK, Written
  <2> QED BY <2>1, <2>2, WindowIsSeq, Zenon
<1>2. ASSUME ArrayInv'
      PROVE  /\ queue' \in Seq(Events) /\ Len(queue') = events_count'
             /\ \A i \in 1 .. events_count' : queue'[i] = events'[events_start' + i - 1]
  <2>1. queue' = Window(events', events_start', events_count')
    BY DEF queue, Window
  <2>2. /\ events_start' \in Nat /\ events_count' \in Nat
        /\ \A i \in 0 .. events_count' - 1 : events'[events_start' + i] \in Events
    BY <1>2, Zenon DEF ArrayInv, FakeTypeOK, Written
  <2> QED BY <2>1, <2>2, WindowIsSeq, Zenon
<1> QED BY <1>1, <1>2

-----------------------------------------------------------------------------
\* epoll_poller_submit() with room keeps the window within the array and free
\* of junk, whether or not it moves the window to the front.
LEMMA SubmitInPlaceInv ==
  ASSUME ArrayInv, NEW e \in Events, SubmitInPlace(e)
  PROVE  ArrayInv'
<1> DEFINE start == IF MustMove THEN 0 ELSE events_start
<1>1. /\ start \in Nat /\ start + events_count < events_capacity
      /\ start + events_count \in 0 .. events_capacity - 1
  BY DEF ArrayInv, FakeTypeOK, WithinArray, SubmitInPlace, MustMove
<1>2. Moved \in [0 .. events_capacity - 1 -> Events \cup {Junk}]
  BY DEF ArrayInv, FakeTypeOK, WithinArray, Moved, MustMove
<1>3. \A i \in 0 .. events_count - 1 : Moved[start + i] \in Events
  BY SMTT(30) DEF ArrayInv, FakeTypeOK, WithinArray, Written, Moved, MustMove
<1>4. /\ events' = [Moved EXCEPT ![start + events_count] = e]
      /\ events_start' = start /\ events_count' = events_count + 1
      /\ UNCHANGED <<events_capacity, returned>>
  BY Zenon DEF SubmitInPlace
<1> HIDE DEF start
<1>5. FakeTypeOK'
  BY <1>1, <1>2, <1>4, SMTT(30) DEF ArrayInv, FakeTypeOK
<1>6. WithinArray'
  BY <1>1, <1>4, SMTT(30) DEF ArrayInv, FakeTypeOK, WithinArray
<1>7. Written'
  <2> SUFFICES ASSUME NEW i \in 0 .. events_count PROVE events'[start + i] \in Events
    BY <1>4 DEF ArrayInv, FakeTypeOK, Written
  <2>1. CASE i = events_count
    BY <1>1, <1>2, <1>4, <2>1, Zenon
  <2>2. CASE i < events_count
    BY <1>1, <1>2, <1>3, <1>4, <2>2, SMTT(30) DEF ArrayInv, FakeTypeOK
  <2> QED BY <2>1, <2>2, SMTT(30) DEF ArrayInv, FakeTypeOK
<1> QED BY <1>5, <1>6, <1>7, Zenon DEF ArrayInv

\* So does epoll_poller_submit() that reallocates.
LEMMA SubmitGrowInv ==
  ASSUME ArrayInv, NEW e \in Events, SubmitGrow(e)
  PROVE  ArrayInv'
<1>1. events_start = 0
  BY DEF ArrayInv, FakeTypeOK, WithinArray, SubmitGrow
<1>2. events' \in [0 .. events_capacity' - 1 -> Events \cup {Junk}]
  BY BoundsAssumption DEF ArrayInv, FakeTypeOK, SubmitGrow
<1>3. FakeTypeOK'
  BY <1>2, BoundsAssumption DEF ArrayInv, FakeTypeOK, SubmitGrow
<1>4. WithinArray'
  BY <1>1, BoundsAssumption DEF ArrayInv, FakeTypeOK, WithinArray, SubmitGrow
<1>5. Written'
  BY <1>1, BoundsAssumption, SMTT(30) DEF ArrayInv, FakeTypeOK, Written, SubmitGrow
<1> QED BY <1>3, <1>4, <1>5 DEF ArrayInv

\* A poll shrinks the window from its front, or rewinds it.
LEMMA PollInv ==
  ASSUME ArrayInv, FakePoll
  PROVE  ArrayInv'
<1>1. BatchSize \in 1 .. events_count
  BY BoundsAssumption DEF ArrayInv, FakeTypeOK, FakePoll, BatchSize
<1>2. returned' \in Seq(Events)
  <2>1. \A i \in 1 .. BatchSize : events[events_start + i - 1] \in Events
    <3> SUFFICES ASSUME NEW i \in 1 .. BatchSize
                 PROVE  events[events_start + i - 1] \in Events
      OBVIOUS
    <3>1. i - 1 \in 0 .. events_count - 1 /\ events_start + (i - 1) = events_start + i - 1
      BY <1>1, SMTT(30) DEF ArrayInv, FakeTypeOK
    <3> QED BY <3>1 DEF ArrayInv, Written
  <2>2. returned' \in [1 .. BatchSize -> Events]
    BY <2>1, Zenon DEF FakePoll
  <2> QED BY <1>1, <2>2
<1>3. FakeTypeOK' /\ WithinArray'
  BY <1>1, <1>2, SMTT(30) DEF ArrayInv, FakeTypeOK, WithinArray, FakePoll
<1>4. Written'
  <2> SUFFICES ASSUME NEW i \in 0 .. events_count - BatchSize - 1
               PROVE  events[events_start' + i] \in Events
    BY Zenon DEF FakePoll, Written
  <2>1. events_start' = events_start + BatchSize
    BY <1>1, SMTT(30) DEF ArrayInv, FakeTypeOK, FakePoll
  <2>2. BatchSize + i \in 0 .. events_count - 1
        /\ events_start + (BatchSize + i) = events_start' + i
    BY <1>1, <2>1, SMTT(30) DEF ArrayInv, FakeTypeOK
  <2> QED BY <2>2, Zenon DEF ArrayInv, Written
<1> QED BY <1>3, <1>4 DEF ArrayInv

\* The invariant holds in every reachable state.
THEOREM ArrayInvariance == FakeSpec => []ArrayInv
<1>1. FakeInit => ArrayInv
  BY BoundsAssumption DEF FakeInit, ArrayInv, FakeTypeOK, WithinArray, Written
<1>2. ArrayInv /\ [FakeNext]_fakeVars => ArrayInv'
  <2> SUFFICES ASSUME ArrayInv, [FakeNext]_fakeVars PROVE ArrayInv'
    BY Zenon
  <2>1. CASE UNCHANGED fakeVars
    BY <2>1, Zenon DEF fakeVars, ArrayInv, FakeTypeOK, WithinArray, Written
  <2> QED BY <2>1, SubmitInPlaceInv, SubmitGrowInv, PollInv, Zenon DEF FakeNext
<1> QED BY <1>1, <1>2, PTL DEF FakeSpec

\* epoll_poller_submit() never writes outside the array.
THEOREM ArrayBounds == FakeSpec => []WithinArray
<1>1. ArrayInv => WithinArray
  BY Zenon DEF ArrayInv
<1> QED BY <1>1, ArrayInvariance, PTL

-----------------------------------------------------------------------------
(* Every step of the array is a step of the queue.                         *)

\* A submit appends, whether it writes in place, after a move or after a
\* reallocation.
LEMMA SubmitAppends ==
  ASSUME ArrayInv, ArrayInv', NEW e \in Events, SubmitInPlace(e) \/ SubmitGrow(e)
  PROVE  queue' = Append(queue, e)
<1>1. /\ queue \in Seq(Events) /\ Len(queue) = events_count
      /\ \A i \in 1 .. events_count : queue[i] = events[events_start + i - 1]
  BY QueueType, Zenon
<1>2. /\ queue' \in Seq(Events) /\ Len(queue') = events_count'
      /\ \A i \in 1 .. events_count' : queue'[i] = events'[events_start' + i - 1]
  BY QueueType
<1>3. events_count' = events_count + 1 /\ events_count \in Nat
  BY Zenon DEF ArrayInv, FakeTypeOK, SubmitInPlace, SubmitGrow
<1>4. \A i \in 1 .. events_count : events'[events_start' + i - 1] = events[events_start + i - 1]
  <2>1. CASE SubmitInPlace(e)
    BY <2>1, SMTT(30) DEF ArrayInv, FakeTypeOK, WithinArray, SubmitInPlace, Moved, MustMove
  <2>2. CASE SubmitGrow(e)
    <3> SUFFICES ASSUME NEW i \in 1 .. events_count
                 PROVE  events'[events_start' + i - 1] = events[events_start + i - 1]
      OBVIOUS
    <3>1. events_start = 0 /\ events_start' = 0
      BY <2>2, SMTT(30) DEF ArrayInv, FakeTypeOK, WithinArray, SubmitGrow
    <3>2. i - 1 \in 0 .. events_capacity + Chunk - 1 /\ i - 1 < events_count
      BY <2>2, <1>3, BoundsAssumption DEF ArrayInv, FakeTypeOK, WithinArray
    <3>3. events'[i - 1] = events[i - 1]
      BY <2>2, <3>2 DEF SubmitGrow
    <3> QED BY <3>1, <3>3, SMTT(30)
  <2> QED BY <2>1, <2>2, Zenon
<1>5. events'[events_start' + events_count] = e
  <2>1. CASE SubmitInPlace(e)
    BY <2>1 DEF ArrayInv, FakeTypeOK, WithinArray, SubmitInPlace, Moved, MustMove
  <2>2. CASE SubmitGrow(e)
    BY <2>2, BoundsAssumption, SMTT(30) DEF ArrayInv, FakeTypeOK, WithinArray, SubmitGrow
  <2> QED BY <2>1, <2>2, Zenon
<1>6. /\ Append(queue, e) \in Seq(Events)
      /\ Len(Append(queue, e)) = events_count + 1
      /\ \A i \in 1 .. events_count : Append(queue, e)[i] = queue[i]
      /\ Append(queue, e)[events_count + 1] = e
  BY <1>1, <1>3
<1>7. \A i \in 1 .. events_count + 1 : queue'[i] = Append(queue, e)[i]
  <2> SUFFICES ASSUME NEW i \in 1 .. events_count + 1
               PROVE  queue'[i] = Append(queue, e)[i]
    BY Zenon
  <2>1. CASE i = events_count + 1
    <3>1. events_start' + i - 1 = events_start' + events_count
      BY <1>3, <2>1, SMTT(30) DEF ArrayInv, FakeTypeOK
    <3> QED BY <1>2, <1>3, <1>5, <1>6, <2>1, <3>1, Zenon
  <2>2. CASE i \in 1 .. events_count
    BY <1>1, <1>2, <1>3, <1>4, <1>6, <2>2, Zenon
  <2>3. i = events_count + 1 \/ i \in 1 .. events_count
    BY <1>3, SMTT(30)
  <2> QED BY <2>1, <2>2, <2>3, Zenon
<1> QED BY <1>2, <1>3, <1>6, <1>7, SMTT(30)

\* A poll returns the front of the queue.
LEMMA PollTakesFront ==
  ASSUME ArrayInv, ArrayInv', FakePoll
  PROVE  EQ!Poll
<1>1. /\ queue \in Seq(Events) /\ Len(queue) = events_count
      /\ \A i \in 1 .. events_count : queue[i] = events[events_start + i - 1]
  BY QueueType, Zenon
<1>2. /\ queue' \in Seq(Events) /\ Len(queue') = events_count'
      /\ \A i \in 1 .. events_count' : queue'[i] = events'[events_start' + i - 1]
  BY QueueType, Zenon
<1>3. BatchSize \in 1 .. events_count /\ EQ!BatchSize = BatchSize
  BY <1>1, BoundsAssumption, SMTT(30) DEF ArrayInv, FakeTypeOK, FakePoll, BatchSize, EQ!BatchSize
<1>4. returned' = SubSeq(queue, 1, BatchSize)
  <2>1. /\ SubSeq(queue, 1, BatchSize) \in Seq(Events)
        /\ Len(SubSeq(queue, 1, BatchSize)) = BatchSize
        /\ \A i \in 1 .. BatchSize : SubSeq(queue, 1, BatchSize)[i] = queue[i]
    BY <1>1, <1>3
  <2>2. /\ returned' \in Seq(Events) /\ Len(returned') = BatchSize
        /\ \A i \in 1 .. BatchSize : returned'[i] = queue[i]
    <3>1. returned' = Window(events, events_start, BatchSize)
      BY DEF FakePoll, Window
    <3>2. /\ events_start \in Nat /\ BatchSize \in Nat
          /\ \A i \in 0 .. BatchSize - 1 : events[events_start + i] \in Events
      <4>1. events_start \in Nat /\ events_count \in Nat /\ Written
        BY DEF ArrayInv, FakeTypeOK
      <4>2. \A i \in 0 .. BatchSize - 1 : i \in 0 .. events_count - 1
        BY <1>3, <4>1, SMTT(30)
      <4> QED BY <1>3, <4>1, <4>2, SMTT(30) DEF Written
    <3>3. \A i \in 1 .. BatchSize : queue[i] = events[events_start + i - 1]
      BY <1>1, <1>3, SMTT(30)
    <3> QED BY <3>1, <3>2, <3>3, WindowIsSeq, Zenon
  <2> QED BY <2>1, <2>2, SMTT(30)
<1>5. queue' = SubSeq(queue, BatchSize + 1, events_count)
  <2> DEFINE rest == SubSeq(queue, BatchSize + 1, events_count)
  <2>1. /\ rest \in Seq(Events)
        /\ Len(rest) = events_count - BatchSize
        /\ \A i \in 1 .. events_count - BatchSize : rest[i] = queue[BatchSize + i]
    <3>1. events_count \in Nat /\ BatchSize \in Nat /\ BatchSize <= events_count
      BY <1>3, SMTT(30) DEF ArrayInv, FakeTypeOK
    <3> QED BY <1>1, <3>1, SMTT(30)
  <2>2. events_count' = events_count - BatchSize
    BY Zenon DEF FakePoll
  <2>3. \A i \in 1 .. events_count - BatchSize : queue'[i] = queue[BatchSize + i]
    <3> SUFFICES ASSUME NEW i \in 1 .. events_count - BatchSize
                 PROVE  queue'[i] = queue[BatchSize + i]
      BY Zenon
    <3>1. events_start \in Nat /\ events_count \in Nat
      BY DEF ArrayInv, FakeTypeOK
    <3>2. events_count > BatchSize /\ BatchSize + i \in 1 .. events_count
      BY <1>3, <3>1, SMTT(30)
    <3>3. events_start' = events_start + BatchSize /\ events' = events
      BY <3>2, Zenon DEF FakePoll
    <3>4. queue'[i] = events[(events_start + BatchSize) + i - 1]
      BY <1>2, <2>2, <3>3, Zenon
    <3>5. queue[BatchSize + i] = events[events_start + (BatchSize + i) - 1]
      BY <1>1, <3>2, Zenon
    <3>6. (events_start + BatchSize) + i - 1 = events_start + (BatchSize + i) - 1
      BY <1>3, <3>1, SMTT(30)
    <3> QED BY <3>4, <3>5, <3>6, Zenon
  <2> HIDE DEF rest
  <2>4. queue' = rest
    BY <1>2, <2>1, <2>2, <2>3, SMTT(30)
  <2> QED BY <2>4, Zenon DEF rest
<1> QED BY <1>1, <1>3, <1>4, <1>5, Zenon DEF FakePoll, EQ!Poll

\* Submitted completions are a FIFO queue, whatever the size of the array, of
\* its increments and of the batches.
THEOREM Fifo == FakeSpec => ImplementsEventQueue
<1>1. FakeInit => EQ!Init
  BY DEF FakeInit, EQ!Init, queue
<1>2. ArrayInv /\ ArrayInv' /\ [FakeNext]_fakeVars => [EQ!Next]_EQ!vars
  <2> SUFFICES ASSUME ArrayInv, ArrayInv', [FakeNext]_fakeVars PROVE [EQ!Next]_EQ!vars
    OBVIOUS
  <2>1. ASSUME NEW e \in Events, SubmitInPlace(e) \/ SubmitGrow(e)
        PROVE  EQ!Submit(e)
    <3>1. returned' = returned
      BY <2>1 DEF SubmitInPlace, SubmitGrow
    <3> QED BY <2>1, <3>1, SubmitAppends, Zenon DEF EQ!Submit
  <2>2. CASE FakePoll
    BY <2>2, PollTakesFront DEF EQ!Next
  <2>3. CASE UNCHANGED fakeVars
    BY <2>3 DEF fakeVars, EQ!vars, queue
  <2> QED BY <2>1, <2>2, <2>3 DEF FakeNext, EQ!Next
<1> QED BY <1>1, <1>2, ArrayInvariance, PTL DEF FakeSpec, EQ!Spec, ImplementsEventQueue

-----------------------------------------------------------------------------
(* Poller: each step of the composition is a step of either component or    *)
(* leaves it alone.                                                         *)

\* The composition implements both of its components.
THEOREM Composition == PollerSpec => LoopSpec /\ FakeSpec
<1>1. PollerInit => LoopInit /\ FakeInit
  BY DEF PollerInit
<1>2. [PollerNext]_pollerVars => [LoopNext]_breakVars /\ [FakeNext]_fakeVars
  <2> SUFFICES ASSUME [PollerNext]_pollerVars
               PROVE  [LoopNext]_breakVars /\ [FakeNext]_fakeVars
    OBVIOUS
  <2>1. ASSUME NEW b \in Breakers, OtherThread(b)
        PROVE  LoopNext /\ UNCHANGED fakeVars
    BY <2>1 DEF OtherThread, LoopNext
  <2>2. ASSUME NEW e \in Events, Submit(e)
        PROVE  UNCHANGED breakVars /\ FakeNext
    BY <2>2 DEF Submit, FakeNext
  <2>3. CASE (RunBegins \/ BreakInCallback) /\ UNCHANGED fakeVars
    BY <2>3 DEF LoopNext
  <2>4. CASE Turn
    BY <2>4 DEF Turn, LoopNext, RunStep
  <2>5. CASE PollSubmitted
    BY <2>5 DEF PollSubmitted, LoopNext, FakeNext
  <2>6. CASE Woken \/ OtherReport
    BY <2>6 DEF Woken, OtherReport, AskKernel, LoopNext, RunStep
  <2>7. CASE UNCHANGED pollerVars
    BY <2>7 DEF pollerVars
  <2> QED
    BY <2>1, <2>2, <2>3, <2>4, <2>5, <2>6, <2>7, SMTT(30) DEF PollerNext
<1> QED BY <1>1, <1>2, PTL DEF PollerSpec, LoopSpec, FakeSpec

\* The wakeup of nanoev_loop_break() is not lost although epoll_poller_poll()
\* leaves the eventfd alone while there are submitted completions.
THEOREM PollerNoticesBreak == PollerSpec => []BreakIsNoticed
BY Composition, BreakIsNotLost, PTL

\* epoll_poller_submit() stays within the array, whatever the loop is doing.
THEOREM PollerArrayBounds == PollerSpec => []WithinArray
BY Composition, ArrayBounds, PTL

\* The loop receives submitted completions once, in the order of submission.
THEOREM PollerFifo == PollerSpec => ImplementsEventQueue
BY Composition, Fifo, PTL
=============================================================================

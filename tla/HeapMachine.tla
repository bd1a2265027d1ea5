----------------------------- MODULE HeapMachine -----------------------------
(* A timer heap under any sequence of the operations nanoev_timer.c does.  *)
EXTENDS TimerHeap

CONSTANTS
  Timers,       \* timers, each with a node
  MaxClock      \* the last time of the model, in microseconds

VARIABLES
  heap,       \* loop->timers and the min_heap_idx of each node
  due         \* timer->node.timeout

nodeVars == <<heap, due>>

Times == {TimeNow(n) : n \in 0 .. MaxClock}

HeapInit ==
  /\ heap = EmptyHeap(Timers)
  /\ due = [t \in Timers |-> Zero]

\* timer_node_add()
TimerNodeAdd(t, deadline) ==
  /\ ~Active(heap, t)
  /\ due' = [due EXCEPT ![t] = deadline]
  /\ heap' = Insert(heap, due', t)

\* timer_node_del(), and timers_process() taking the first node
TimerNodeDel(t) ==
  /\ heap' = Erase(heap, due, t)
  \* The deadline of a node that is not in the heap is never read.
  /\ due' = [due EXCEPT ![t] = Zero]

\* timers_adjust_backward()
TimersAdjustBackward(off) ==
  /\ \A t \in Timers : Active(heap, t) => TimeCmp(due[t], off) >= 0
  /\ due' = [t \in Timers |-> IF Active(heap, t) THEN TimeSub(due[t], off) ELSE due[t]]
  /\ heap' = heap

HeapNext ==
  \/ \E t \in Timers, deadline \in Times : TimerNodeAdd(t, deadline)
  \/ \E t \in Timers : TimerNodeDel(t)
  \/ \E off \in Times : TimersAdjustBackward(off)

HeapSpec == HeapInit /\ [][HeapNext]_nodeVars

-----------------------------------------------------------------------------
\* Erasing a node from any place, the last node taking its place and moving up
\* or down from there, leaves the heap ordered.
HeapOrder == Ordered(heap, due)

\* The places that the shifts write into the nodes are right, so that a later
\* min_heap_erase() of any node takes out that node.
HeapIndex == Indexed(heap)
=============================================================================

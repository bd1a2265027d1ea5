------------------------------ MODULE TimerHeap ------------------------------
(***************************************************************************)
(* The binary heap of nanoev_timer.c.                                      *)
(*                                                                         *)
(* A heap is a record: events, the nodes of heap->events[0 .. size-1] in   *)
(* a sequence (the C index i is the TLA+ index i + 1), and idx, the        *)
(* min_heap_idx of every node.  Deadlines are time values, kept in a       *)
(* function due from nodes.                                                *)
(*                                                                         *)
(* min_heap_shift_up() and min_heap_shift_down() move a hole along a path  *)
(* of the tree.  Each is given here by the place the hole ends in and by   *)
(* the nodes that move into the holes left on the way.                     *)
(***************************************************************************)
EXTENDS Timeval, Sequences

Absent == -1    \* (unsigned int)-1: the node is not in the heap

Size(h) == Len(h.events)
At(h, i) == h.events[i + 1]
Parent(i) == (i - 1) \div 2

\* __time_greater()
TimeGreater(due, m, n) == TimeCmp(due[m], due[n]) > 0

\* timers_init(), and timer_node_init() of every node
EmptyHeap(Nodes) == [events |-> <<>>, idx |-> [n \in Nodes |-> Absent]]

\* timer_node_active()
Active(h, n) == h.idx[n] # Absent

\* Mutant: a shift that does not tell the nodes it moves where they are.
StoreForgetful(h, f, size) ==
  [events |-> [j \in 1 .. size |-> IF j - 1 \in DOMAIN f THEN f[j - 1] ELSE h.events[j]],
   idx |-> [n \in DOMAIN h.idx |->
              IF ~Active(h, n) /\ \E i \in DOMAIN f : f[i] = n
                THEN CHOOSE i \in DOMAIN f : f[i] = n
                ELSE h.idx[n]]]

\* heap->events[i] = f[i] for the places i in the domain of f, each node
\* learning its new place; the array then has size places.
Store(h, f, size) ==
  [events |-> [j \in 1 .. size |-> IF j - 1 \in DOMAIN f THEN f[j - 1] ELSE h.events[j]],
   idx |-> [n \in DOMAIN h.idx |->
              IF \E i \in DOMAIN f : f[i] = n
                THEN CHOOSE i \in DOMAIN f : f[i] = n
                ELSE h.idx[n]]]

-----------------------------------------------------------------------------
\* The holes min_heap_shift_up() leaves on the way from place hole, which
\* ends in the least of them.
PathUp(h, due, hole, node) ==
  LET path[i \in 0 .. hole] ==
        IF i = 0 \/ ~TimeGreater(due, At(h, Parent(i)), node)
          THEN {i}
          ELSE {i} \cup path[Parent(i)]
  IN path[hole]

ShiftUp(h, due, hole, node, size) ==
  LET path == PathUp(h, due, hole, node)
      last == CHOOSE i \in path : \A j \in path : i <= j
  IN Store(h, [i \in path |-> IF i = last THEN node ELSE At(h, Parent(i))], size)

\* The child that min_heap_shift_down() compares with, for a heap of the given
\* size; there is none when this is not below size.
MinChild(h, due, i, size) ==
  IF 2 * i + 2 = size \/ (2 * i + 2 < size /\ TimeGreater(due, At(h, 2 * i + 2), At(h, 2 * i + 1)))
    THEN 2 * i + 1
    ELSE 2 * i + 2

\* The holes min_heap_shift_down() leaves on the way from place hole.
PathDown(h, due, hole, node, size) ==
  LET path[i \in 0 .. size] ==
        LET child == MinChild(h, due, i, size)
        IN IF 2 * i + 2 > size \/ ~TimeGreater(due, node, At(h, child))
             THEN {i}
             ELSE {i} \cup path[child]
  IN path[hole]

\* The array keeps all the places it had; min_heap_erase() drops the last.
ShiftDown(h, due, hole, node, size) ==
  LET path == PathDown(h, due, hole, node, size)
      last == CHOOSE i \in path : \A j \in path : j <= i
  IN Store(h, [i \in path |-> IF i = last THEN node ELSE At(h, MinChild(h, due, i, size))],
           Size(h))

-----------------------------------------------------------------------------
\* min_heap_insert() once min_heap_reserve() has succeeded
Insert(h, due, n) == ShiftUp(h, due, Size(h), n, Size(h) + 1)

\* Mutant: a min_heap_erase() that shifts down only.
EraseDownOnly(h, due, n) ==
  LET size == Size(h) - 1
      moved == ShiftDown(h, due, h.idx[n], At(h, size), size)
  IN IF ~Active(h, n)
       THEN h
       ELSE [events |-> SubSeq(moved.events, 1, size), idx |-> [moved.idx EXCEPT ![n] = Absent]]

\* min_heap_erase(): the last node takes the place of n.
Erase(h, due, n) ==
  LET size == Size(h) - 1
      last == At(h, size)
      hole == h.idx[n]
      moved == IF hole > 0 /\ TimeGreater(due, At(h, Parent(hole)), last)
                 THEN ShiftUp(h, due, hole, last, Size(h))
                 ELSE ShiftDown(h, due, hole, last, size)
  IN IF ~Active(h, n)
       THEN h
       ELSE [events |-> SubSeq(moved.events, 1, size), idx |-> [moved.idx EXCEPT ![n] = Absent]]

-----------------------------------------------------------------------------
\* No node is due before its parent, so heap->events[0] is due first.
Ordered(h, due) ==
  \A i \in 1 .. Size(h) - 1 : Value(due[At(h, Parent(i))]) <= Value(due[At(h, i)])

\* min_heap_idx of every node is its place in the array.
Indexed(h) ==
  /\ \A i \in 0 .. Size(h) - 1 : h.idx[At(h, i)] = i
  /\ \A n \in DOMAIN h.idx : Active(h, n) => h.idx[n] < Size(h) /\ At(h, h.idx[n]) = n
=============================================================================

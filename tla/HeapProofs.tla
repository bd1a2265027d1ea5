----------------------------- MODULE HeapProofs ------------------------------
(***************************************************************************)
(* Proofs about time values and the timer heap, for any units, any nodes   *)
(* and any deadlines.                                                      *)
(***************************************************************************)
EXTENDS HeapMachine, TLAPS, WellFoundedInduction

-----------------------------------------------------------------------------
(* Time values.                                                             *)

\* A later second is a later time, whatever the microseconds are.
LEMMA LaterSecond ==
  ASSUME NEW s \in Int, NEW t \in Int, s > t
  PROVE  s * USec >= t * USec + USec
<1>1. PICK k \in Nat : s = t + 1 + k
  <2>1. s - t - 1 \in Nat /\ s = t + 1 + (s - t - 1)
    OBVIOUS
  <2> QED BY <2>1
<1>2. k * USec \in Nat
  BY <1>1, UnitsAssumption
<1>3. (t + 1 + k) * USec = t * USec + USec + k * USec
  BY <1>1, UnitsAssumption
<1>4. t * USec \in Int
  BY UnitsAssumption
<1> QED BY <1>1, <1>2, <1>3, <1>4, UnitsAssumption

\* The value of a time value is a natural number.
LEMMA ValueType == ASSUME NEW a \in Normal PROVE Value(a) \in Nat
BY UnitsAssumption DEF Normal, Value

\* time_add() carries exactly.
THEOREM AddExact ==
  ASSUME NEW a \in Normal, NEW b \in Normal
  PROVE  TimeAdd(a, b) \in Normal /\ Value(TimeAdd(a, b)) = Value(a) + Value(b)
<1>1. (a.sec + b.sec) * USec = a.sec * USec + b.sec * USec
  BY UnitsAssumption DEF Normal
<1>2. (a.sec + b.sec + 1) * USec = a.sec * USec + b.sec * USec + USec
  BY UnitsAssumption DEF Normal
<1>3. a.sec * USec \in Nat /\ b.sec * USec \in Nat
  BY UnitsAssumption DEF Normal
<1> QED BY <1>1, <1>2, <1>3, UnitsAssumption DEF Normal, TimeAdd, Value

\* time_cmp() orders time values as the integers they stand for.
THEOREM CmpExact ==
  ASSUME NEW a \in Normal, NEW b \in Normal
  PROVE  /\ TimeCmp(a, b) > 0 <=> Value(a) > Value(b)
         /\ TimeCmp(a, b) < 0 <=> Value(a) < Value(b)
         /\ TimeCmp(a, b) \in {-1, 0, 1}
<1>1. a.sec * USec \in Nat /\ b.sec * USec \in Nat
  BY UnitsAssumption DEF Normal
<1>2. CASE a.sec > b.sec
  <2>1. a.sec * USec >= b.sec * USec + USec
    BY <1>2, LaterSecond DEF Normal
  <2> QED BY <1>1, <1>2, <2>1, UnitsAssumption DEF Normal, TimeCmp, Value
<1>3. CASE a.sec < b.sec
  <2>1. b.sec * USec >= a.sec * USec + USec
    BY <1>3, LaterSecond DEF Normal
  <2> QED BY <1>1, <1>3, <2>1, UnitsAssumption DEF Normal, TimeCmp, Value
<1>4. CASE a.sec = b.sec
  BY <1>1, <1>4, UnitsAssumption DEF Normal, TimeCmp, Value
<1> QED BY <1>2, <1>3, <1>4 DEF Normal

\* time_sub() borrows exactly, and never below zero, when what is subtracted is
\* not later.
THEOREM SubExact ==
  ASSUME NEW a \in Normal, NEW b \in Normal, TimeCmp(a, b) >= 0
  PROVE  TimeSub(a, b) \in Normal /\ Value(TimeSub(a, b)) = Value(a) - Value(b)
<1>1. a.sec > b.sec \/ (a.sec = b.sec /\ a.usec >= b.usec)
  BY DEF Normal, TimeCmp
<1>2. (a.sec - b.sec) * USec = a.sec * USec - b.sec * USec
  BY UnitsAssumption DEF Normal
<1>3. (a.sec - b.sec - 1) * USec = a.sec * USec - b.sec * USec - USec
  BY UnitsAssumption DEF Normal
<1>4. a.sec * USec \in Nat /\ b.sec * USec \in Nat
  BY UnitsAssumption DEF Normal
<1> QED BY <1>1, <1>2, <1>3, <1>4, UnitsAssumption DEF Normal, TimeSub, Value

-----------------------------------------------------------------------------
\* A number below the divisor is its own remainder.
LEMMA RemainderOfSmall ==
  ASSUME NEW a \in Nat, NEW b \in Nat \ {0}, a < b
  PROVE  a % b = a
<1> DEFINE q == a \div b
<1>1. q \in Int
  OBVIOUS
<1>2. a % b \in 0 .. b - 1
  OBVIOUS
<1>3. a = b * q + (a % b)
  OBVIOUS
<1> HIDE DEF q
<1>4. q = 0
  <2>1. CASE q >= 1
    <3>1. PICK k \in Nat : q = 1 + k
      BY <1>1, <2>1, q - 1 \in Nat
    <3>2. b * k \in Nat /\ b * (1 + k) = b + b * k
      BY <3>1
    <3> QED BY <1>2, <1>3, <3>1, <3>2
  <2>2. CASE q <= -1
    <3>1. PICK k \in Nat : q = -1 - k
      BY <1>1, <2>2, -1 - q \in Nat
    <3>2. b * k \in Nat /\ b * (-1 - k) = 0 - b - b * k
      BY <3>1
    <3> QED BY <1>2, <1>3, <3>1, <3>2
  <2> QED BY <1>1, <2>1, <2>2
<1> QED BY <1>2, <1>3, <1>4

\* A number that an int can hold is kept by the assignment.
LEMMA ToIntKeeps ==
  ASSUME NEW n \in Nat, n < IntLimit
  PROVE  ToInt(n) = n
<1>1. n + IntLimit \in Nat /\ 2 * IntLimit \in Nat \ {0} /\ n + IntLimit < 2 * IntLimit
  BY UnitsAssumption
<1>2. (n + IntLimit) % (2 * IntLimit) = n + IntLimit
  BY <1>1, RemainderOfSmall
<1> QED BY <1>2, UnitsAssumption DEF ToInt

\* The product of a sum, for the provers.
LEMMA SumTimes ==
  ASSUME NEW s \in Nat, NEW m \in Nat, NEW k \in Nat, NEW u \in Nat
  PROVE  (s * m + k) * u = s * (m * u) + k * u
<1>1. (s * m + k) * u = s * m * u + k * u
  OBVIOUS
<1>2. s * m * u = s * (m * u)
  OBVIOUS
<1> QED BY <1>1, <1>2

\* Rounding to milliseconds only ever shortens a time.
LEMMA MillisecondsShort ==
  ASSUME NEW t \in Normal
  PROVE  Milliseconds(t) \in Nat /\ Milliseconds(t) * UMilli <= Value(t)
<1>1. PICK m \in Nat : m = USec \div UMilli /\ m * UMilli = USec
  BY UnitsAssumption
<1>2. PICK k \in Nat : k = t.usec \div UMilli /\ k * UMilli <= t.usec
  BY UnitsAssumption DEF Normal
<1>3. PICK s \in Nat : s = t.sec
  BY DEF Normal
<1>4. PICK u \in Nat : u = UMilli
  BY UnitsAssumption
<1>5. (s * m + k) * u = s * (m * u) + k * u
  BY SumTimes
<1>6. (s * m + k) * u = s * USec + k * u
  BY <1>1, <1>4, <1>5
<1>7. s * m \in Nat /\ k * u \in Nat /\ s * USec \in Nat /\ t.usec \in Nat
  BY UnitsAssumption DEF Normal
<1> QED BY <1>1, <1>2, <1>3, <1>4, <1>6, <1>7 DEF Milliseconds, Value

\* epoll_poller_poll() waits no longer than to the deadline of the first timer,
\* and not for ever, as long as the milliseconds left fit an int.
THEOREM WaitEndsInTime ==
  ASSUME NEW top \in Normal, NEW tv \in Normal, TimeCmp(top, tv) > 0,
         Milliseconds(TimeSub(top, tv)) < IntLimit
  PROVE  LET wait == PollMilliseconds(TimersTimeout(top, tv))
         IN wait \in Nat /\ Value(tv) + wait * UMilli <= Value(top)
<1> DEFINE left == TimeSub(top, tv)
           ms == Milliseconds(left)
<1>1. TimersTimeout(top, tv) = left
  BY CmpExact DEF TimersTimeout
<1>2. left \in Normal /\ Value(left) = Value(top) - Value(tv)
  BY SubExact, CmpExact
<1>3. ms \in Nat /\ ms * UMilli <= Value(left)
  BY <1>2, MillisecondsShort
<1>4. PollMilliseconds(left) = ms
  BY <1>3, ToIntKeeps DEF PollMilliseconds
<1>5. ms * UMilli \in Nat /\ Value(top) \in Nat /\ Value(tv) \in Nat
  BY <1>3, ValueType, UnitsAssumption
<1> QED BY <1>1, <1>2, <1>3, <1>4, <1>5

-----------------------------------------------------------------------------
(* Paths in the heap.                                                       *)

\* A set of natural numbers has a least element.
LEMMA LeastOf ==
  ASSUME NEW S, S \subseteq Nat, S # {}
  PROVE  \E x \in S : \A y \in S : x <= y
<1> DEFINE R == OpToRel(<, Nat)
<1>1. IsWellFoundedOn(R, Nat)
  BY NatLessThanWellFounded, Zenon
<1>2. \A x, y \in Nat : <<y, x>> \in R <=> y < x
  BY DEF OpToRel
<1> HIDE DEF R
<1>3. PICK x \in S : \A y \in S : ~ (<<y, x>> \in R)
  BY <1>1, WFMin, Zenon
<1>4. \A y \in S : ~(y < x)
  BY <1>2, <1>3, Zenon
<1>5. x \in Nat /\ \A y \in S : y \in Nat
  OBVIOUS
<1>6. \A y \in S : x <= y
  BY <1>4, <1>5
<1> QED BY <1>6

\* The parent of a place comes before it and has it for a child.
LEMMA ParentIs ==
  ASSUME NEW i \in Nat, i # 0
  PROVE  /\ Parent(i) \in Nat /\ Parent(i) < i
         /\ i = 2 * Parent(i) + 1 \/ i = 2 * Parent(i) + 2
BY DEF Parent

\* The places whose parent is due after node, from which min_heap_shift_up() goes on
Above(h, dl, node) == {i \in Nat : i # 0 /\ TimeGreater(dl, At(h, Parent(i)), node)}

\* The equation of the recursive function in PathUp
UpEquation(path, hole, G) ==
  \A i \in 0 .. hole : path[i] = IF i \in G THEN {i} \cup path[Parent(i)] ELSE {i}

\* There is a function that satisfies it.
LEMMA PathUpIs ==
  ASSUME NEW h, NEW dl, NEW node, NEW hole \in Nat
  PROVE  \E path : /\ PathUp(h, dl, hole, node) = path[hole]
                   /\ UpEquation(path, hole, Above(h, dl, node))
<1> DEFINE Body(f, i) == IF i = 0 \/ ~TimeGreater(dl, At(h, Parent(i)), node)
                           THEN {i} ELSE {i} \cup f[Parent(i)]
           Is(f, n) == f = [i \in 0 .. n |-> Body(f, i)]
           bad == {n \in Nat : \A f : ~Is(f, n)}
<1>1. ASSUME NEW n \in Nat, n # 0, NEW f, Is(f, n - 1) PROVE \E g : Is(g, n)
  <2> DEFINE g == [i \in 0 .. n |-> IF i < n THEN f[i] ELSE Body(f, i)]
  <2>1. \A i \in 0 .. n - 1 : f[i] = Body(f, i)
    BY <1>1, Zenon
  <2>2. \A i \in 0 .. n : i < n => i \in 0 .. n - 1
    BY <1>1
  <2>3. ASSUME NEW i \in 0 .. n PROVE Body(g, i) = Body(f, i)
    <3>1. i # 0 => Parent(i) \in 0 .. n /\ Parent(i) < n
      BY ParentIs
    <3>2. i # 0 => g[Parent(i)] = f[Parent(i)]
      BY <3>1
    <3> QED BY <3>2, Zenon
  <2>4. ASSUME NEW i \in 0 .. n PROVE g[i] = Body(f, i)
    BY <2>1, <2>2, Zenon
  <2>5. g = [i \in 0 .. n |-> Body(g, i)]
    BY <2>3, <2>4, Zenon
  <2> QED BY <2>5, Zenon
<1>2. Is([i \in 0 .. 0 |-> {i}], 0)
  OBVIOUS
<1>3. PathUp(h, dl, hole, node) = (CHOOSE f : Is(f, hole))[hole]
  BY DEF PathUp
<1>4. ASSUME NEW f, Is(f, hole), NEW i \in 0 .. hole
      PROVE  f[i] = IF i \in Above(h, dl, node) THEN {i} \cup f[Parent(i)] ELSE {i}
  <2>1. f[i] = Body(f, i)
    BY <1>4, Zenon
  <2>2. i \in Above(h, dl, node) <=> i # 0 /\ TimeGreater(dl, At(h, Parent(i)), node)
    BY DEF Above
  <2> QED BY <2>1, <2>2, Zenon
<1> HIDE DEF Is
<1>5. bad = {}
  <2> SUFFICES ASSUME bad # {} PROVE FALSE
    OBVIOUS
  <2>1. bad \subseteq Nat
    OBVIOUS
  <2>2. PICK n \in bad : \A m \in bad : n <= m
    BY <2>1, LeastOf, Zenon
  <2>3. n \in Nat /\ n # 0
    BY <1>2, <2>2
  <2>4. n - 1 \in Nat /\ n - 1 \notin bad
    <3>1. n - 1 \in Nat /\ ~(n <= n - 1)
      BY <2>3
    <3> QED BY <2>2, <3>1, Zenon
  <2> QED BY <1>1, <2>2, <2>3, <2>4
<1>6. Is(CHOOSE f : Is(f, hole), hole)
  BY <1>5, Zenon
<1>7. UpEquation(CHOOSE f : Is(f, hole), hole, Above(h, dl, node))
  BY <1>4, <1>6, Zenon DEF UpEquation
<1> QED BY <1>3, <1>7, Zenon

\* What a path up from place i is: the holes from i to a place outside G, each the
\* parent of the one before.
PathFrom(path, i, G) ==
  /\ path \subseteq 0 .. i /\ i \in path
  /\ \A j \in path : IF j \in G THEN Parent(j) \in path ELSE \A k \in path : j <= k
  /\ \A j \in path : j # i => \E k \in path : k \in G /\ Parent(k) = j
  /\ \A j, k \in path : j \in G /\ k \in G /\ Parent(j) = Parent(k) => j = k

\* PathUp is such a path.
LEMMA PathUpSound ==
  ASSUME NEW h, NEW dl, NEW node, NEW hole \in Nat
  PROVE  PathFrom(PathUp(h, dl, hole, node), hole, Above(h, dl, node))
<1> DEFINE G == Above(h, dl, node)
<1>1. G \subseteq Nat /\ 0 \notin G
  BY DEF Above
<1>2. PICK path : PathUp(h, dl, hole, node) = path[hole] /\ UpEquation(path, hole, G)
  BY PathUpIs
<1> HIDE DEF G
<1> DEFINE bad == {i \in 0 .. hole : ~PathFrom(path[i], i, G)}
<1>3. bad = {}
  <2> SUFFICES ASSUME bad # {} PROVE FALSE
    OBVIOUS
  <2>1. bad \subseteq Nat
    OBVIOUS
  <2>2. PICK i \in bad : \A m \in bad : i <= m
    BY <2>1, LeastOf, Zenon
  <2>3. i \in 0 .. hole /\ ~PathFrom(path[i], i, G)
    BY <2>2
  <2>4. CASE i \notin G
    <3>1. path[i] = {i}
      BY <1>2, <2>3, <2>4, Zenon DEF UpEquation
    <3>2. PathFrom({i}, i, G)
      BY <2>3, <2>4 DEF PathFrom
    <3> QED BY <2>3, <3>1, <3>2
  <2>5. CASE i \in G
    <3> DEFINE p == Parent(i)
               P == path[p]
               Q == {i} \cup P
    <3>1. i \in Nat /\ i # 0
      BY <1>1, <2>3, <2>5
    <3>2. p \in Nat /\ p < i
      BY <3>1, ParentIs
    <3>3. p \in 0 .. hole /\ ~(i <= p)
      BY <2>3, <3>2
    <3>4. PathFrom(P, p, G)
      BY <2>2, <3>3
    <3>5. path[i] = Q
      BY <1>2, <2>3, <2>5, Zenon DEF UpEquation
    <3>6. \A j \in P : j \in Nat /\ j <= p
      BY <3>2, <3>4 DEF PathFrom
    <3>7. \A j \in P : j \in G => Parent(j) \in Nat /\ Parent(j) < j
      BY <1>1, <3>6, ParentIs
    <3> HIDE DEF P
    <3>8. Q \subseteq 0 .. i /\ i \in Q
      BY <3>1, <3>2, <3>6
    <3>9. \A j \in Q : IF j \in G THEN Parent(j) \in Q ELSE \A k \in Q : j <= k
      BY <2>5, <3>1, <3>2, <3>4, <3>6 DEF PathFrom
    <3>10. \A j \in Q : j # i => \E k \in Q : k \in G /\ Parent(k) = j
      BY <2>5, <3>4 DEF PathFrom
    <3>11. \A j, k \in Q : j \in G /\ k \in G /\ Parent(j) = Parent(k) => j = k
      <4>1. \A j \in P : j \in G => Parent(j) # p
        BY <3>2, <3>6, <3>7
      <4>2. \A j, k \in P : j \in G /\ k \in G /\ Parent(j) = Parent(k) => j = k
        BY <3>4 DEF PathFrom
      <4> QED BY <4>1, <4>2
    <3>12. PathFrom(Q, i, G)
      BY <3>8, <3>9, <3>10, <3>11 DEF PathFrom
    <3> QED BY <2>3, <3>5, <3>12
  <2> QED BY <2>4, <2>5
<1>4. PathFrom(path[hole], hole, G)
  BY <1>3
<1> QED BY <1>2, <1>4 DEF G

-----------------------------------------------------------------------------
(* The way down.                                                            *)

\* The child that min_heap_shift_down() compares with, where there is one
LEMMA MinChildIs ==
  ASSUME NEW h, NEW dl, NEW size \in Nat, NEW i \in Nat, 2 * i + 2 <= size
  PROVE  LET c == MinChild(h, dl, i, size)
         IN c \in Nat /\ i < c /\ c < size /\ Parent(c) = i
<1>1. Parent(2 * i + 1) = i /\ Parent(2 * i + 2) = i
  BY DEF Parent
<1> QED BY <1>1 DEF MinChild

\* The places from which min_heap_shift_down() goes on
Below(h, dl, node, size) ==
  {i \in Nat : /\ 2 * i + 2 <= size
               /\ TimeGreater(dl, node, At(h, MinChild(h, dl, i, size)))}

\* The equation of the recursive function in PathDown
DownEquation(path, h, dl, size, G) ==
  \A i \in 0 .. size :
    path[i] = IF i \in G THEN {i} \cup path[MinChild(h, dl, i, size)] ELSE {i}

\* There is a function that satisfies it.
LEMMA PathDownIs ==
  ASSUME NEW h, NEW dl, NEW node, NEW size \in Nat, NEW hole \in 0 .. size
  PROVE  \E path : /\ PathDown(h, dl, hole, node, size) = path[hole]
                   /\ DownEquation(path, h, dl, size, Below(h, dl, node, size))
<1> DEFINE C(i) == MinChild(h, dl, i, size)
           Body(f, i) == IF 2 * i + 2 > size \/ ~TimeGreater(dl, node, At(h, C(i)))
                           THEN {i} ELSE {i} \cup f[C(i)]
           Is(f, n) == f = [i \in size - n .. size |-> Body(f, i)]
           bad == {n \in Nat : n <= size /\ \A f : ~Is(f, n)}
<1>1. ASSUME NEW n \in Nat, n # 0, n <= size, NEW f, Is(f, n - 1) PROVE \E g : Is(g, n)
  <2> DEFINE g == [i \in size - n .. size |-> IF i > size - n THEN f[i] ELSE Body(f, i)]
  <2>1. \A i \in size - (n - 1) .. size : f[i] = Body(f, i)
    BY <1>1, Zenon
  <2>2. \A i \in size - n .. size : i > size - n => i \in size - (n - 1) .. size
    BY <1>1
  <2>3. ASSUME NEW i \in size - n .. size PROVE Body(g, i) = Body(f, i)
    <3>1. i \in Nat
      BY <1>1
    <3>2. ~(2 * i + 2 > size) => C(i) \in size - n .. size /\ C(i) > size - n
      <4>1. ~(2 * i + 2 > size) => C(i) \in Nat /\ i < C(i) /\ C(i) < size
        BY <3>1, MinChildIs
      <4> HIDE DEF C
      <4> QED BY <1>1, <3>1, <4>1
    <3> HIDE DEF C
    <3>3. ~(2 * i + 2 > size) => g[C(i)] = f[C(i)]
      BY <3>2
    <3> QED BY <3>3, Zenon
  <2>4. ASSUME NEW i \in size - n .. size PROVE g[i] = Body(f, i)
    BY <2>1, <2>2, Zenon
  <2>5. g = [i \in size - n .. size |-> Body(g, i)]
    BY <2>3, <2>4, Zenon
  <2> QED BY <2>5, Zenon
<1>2. Is([i \in size - 0 .. size |-> {i}], 0)
  <2>1. \A i \in size - 0 .. size : 2 * i + 2 > size
    OBVIOUS
  <2> QED BY <2>1, Zenon
<1>3. PathDown(h, dl, hole, node, size) = (CHOOSE f : Is(f, size))[hole]
  <2>1. size - size .. size = 0 .. size
    OBVIOUS
  <2> QED BY <2>1, Zenon DEF PathDown
<1>4. ASSUME NEW f, Is(f, size), NEW i \in 0 .. size
      PROVE  f[i] = IF i \in Below(h, dl, node, size)
                      THEN {i} \cup f[MinChild(h, dl, i, size)] ELSE {i}
  <2>1. i \in size - size .. size
    OBVIOUS
  <2>2. f[i] = Body(f, i)
    BY <1>4, <2>1, Zenon
  <2>3. i \in Below(h, dl, node, size)
        <=> ~(2 * i + 2 > size) /\ TimeGreater(dl, node, At(h, C(i)))
    BY DEF Below
  <2> QED BY <2>2, <2>3, Zenon
<1> HIDE DEF Is
<1>5. bad = {}
  <2> SUFFICES ASSUME bad # {} PROVE FALSE
    OBVIOUS
  <2>1. bad \subseteq Nat
    OBVIOUS
  <2>2. PICK n \in bad : \A m \in bad : n <= m
    BY <2>1, LeastOf, Zenon
  <2>3. n \in Nat /\ n # 0 /\ n <= size
    BY <1>2, <2>2
  <2>4. n - 1 \in Nat /\ n - 1 \notin bad /\ n - 1 <= size
    <3>1. n - 1 \in Nat /\ ~(n <= n - 1) /\ n - 1 <= size
      BY <2>3
    <3> QED BY <2>2, <3>1, Zenon
  <2> QED BY <1>1, <2>2, <2>3, <2>4
<1>6. Is(CHOOSE f : Is(f, size), size)
  <2>1. size \in Nat /\ size <= size
    OBVIOUS
  <2> QED BY <1>5, <2>1, Zenon
<1>7. DownEquation(CHOOSE f : Is(f, size), h, dl, size, Below(h, dl, node, size))
  BY <1>4, <1>6, Zenon DEF DownEquation
<1> QED BY <1>3, <1>7, Zenon

\* What a path down from place i is: the holes from i to a place outside G, each
\* the child of the one before that comes first.
PathTo(path, i, h, dl, size, G) ==
  /\ path \subseteq i .. size /\ i \in path
  /\ \A j \in path : IF j \in G THEN MinChild(h, dl, j, size) \in path
                                 ELSE \A k \in path : k <= j
  /\ \A j \in path : j # i => \E k \in path : k \in G /\ MinChild(h, dl, k, size) = j

\* PathDown is such a path.
LEMMA PathDownSound ==
  ASSUME NEW h, NEW dl, NEW node, NEW size \in Nat, NEW hole \in 0 .. size
  PROVE  PathTo(PathDown(h, dl, hole, node, size), hole, h, dl, size,
                Below(h, dl, node, size))
<1> DEFINE G == Below(h, dl, node, size)
           C(i) == MinChild(h, dl, i, size)
           Is(P, i) == PathTo(P, i, h, dl, size, G)
<1>1. \A i \in G : i \in Nat /\ 2 * i + 2 <= size
  BY DEF Below
<1>2. PICK path : /\ PathDown(h, dl, hole, node, size) = path[hole]
                  /\ DownEquation(path, h, dl, size, G)
  BY PathDownIs
<1>3. \A i \in G : C(i) \in Nat /\ i < C(i) /\ C(i) < size
  BY <1>1, MinChildIs
<1>4. \A i \in 0 .. size : path[i] = IF i \in G THEN {i} \cup path[C(i)] ELSE {i}
  BY <1>2, Zenon DEF DownEquation
<1> HIDE DEF G
<1> DEFINE bad == {n \in Nat : n <= size /\ ~Is(path[size - n], size - n)}
<1>5. bad = {}
  <2> SUFFICES ASSUME bad # {} PROVE FALSE
    OBVIOUS
  <2>1. bad \subseteq Nat
    OBVIOUS
  <2>2. PICK n \in bad : \A m \in bad : n <= m
    BY <2>1, LeastOf, Zenon
  <2> DEFINE i == size - n
  <2>3. n \in Nat /\ n <= size /\ i \in 0 .. size /\ ~Is(path[i], i)
    BY <2>2
  <2> HIDE DEF i
  <2>4. CASE i \notin G
    <3>1. path[i] = {i}
      BY <1>4, <2>3, <2>4, Zenon
    <3>2. Is({i}, i)
      BY <2>3, <2>4 DEF PathTo
    <3> QED BY <2>3, <3>1, <3>2
  <2>5. CASE i \in G
    <3> DEFINE c == C(i)
               P == path[c]
               Q == {i} \cup P
    <3>1. c \in Nat /\ i < c /\ c < size
      BY <1>3, <2>5
    <3>2. path[i] = Q
      BY <1>4, <2>3, <2>5, Zenon
    <3> HIDE DEF C
    <3>3. Is(P, c)
      <4>1. size - c \in Nat /\ size - c <= size /\ ~(n <= size - c) /\ size - (size - c) = c
        BY <2>3, <3>1 DEF i
      <4> HIDE DEF c
      <4> QED BY <2>2, <4>1
    <3>4. \A j \in P : j \in Nat /\ c <= j /\ j <= size
      BY <3>1, <3>3 DEF PathTo
    <3>5. /\ c \in P
          /\ \A j \in P : IF j \in G THEN C(j) \in P ELSE \A k \in P : k <= j
          /\ \A j \in P : j # c => \E k \in P : k \in G /\ C(k) = j
      BY <3>3 DEF PathTo, C
    <3> HIDE DEF P
    <3>6. Q \subseteq i .. size /\ i \in Q
      BY <2>3, <3>1, <3>4
    <3>7. \A j \in Q : IF j \in G THEN C(j) \in Q ELSE \A k \in Q : k <= j
      BY <2>5, <2>3, <3>1, <3>4, <3>5
    <3>8. \A j \in Q : j # i => \E k \in Q : k \in G /\ C(k) = j
      BY <2>5, <3>5
    <3> HIDE DEF Q
    <3>9. Is(Q, i)
      BY <3>6, <3>7, <3>8 DEF PathTo, C
    <3> QED BY <2>3, <3>2, <3>9
  <2> QED BY <2>4, <2>5
<1>6. Is(path[hole], hole)
  <2>1. size - hole \in Nat /\ size - hole <= size /\ size - (size - hole) = hole
    OBVIOUS
  <2> QED BY <1>5, <2>1, Zenon
<1> QED BY <1>2, <1>6 DEF G

-----------------------------------------------------------------------------
(* Inserting.                                                               *)

\* A heap whose nodes know their places
HeapOf(h, Nodes) ==
  /\ h.events \in Seq(Nodes)
  /\ h.idx \in [Nodes -> {Absent} \cup Nat]
  /\ Indexed(h)

LEMMA HeapFacts ==
  ASSUME NEW Nodes, NEW h, HeapOf(h, Nodes)
  PROVE  /\ Size(h) \in Nat
         /\ \A i \in 0 .. Size(h) - 1 : At(h, i) \in Nodes /\ h.idx[At(h, i)] = i
         /\ \A m \in Nodes : Active(h, m) =>
              h.idx[m] \in 0 .. Size(h) - 1 /\ At(h, h.idx[m]) = m
         /\ \A m \in Nodes : ~Active(h, m) => \A i \in 0 .. Size(h) - 1 : At(h, i) # m
<1>1. h.events \in Seq(Nodes) /\ Size(h) \in Nat
  BY DEF HeapOf, Size
<1>2. ASSUME NEW i \in 0 .. Size(h) - 1 PROVE At(h, i) \in Nodes
  <2>1. i + 1 \in 1 .. Len(h.events)
    BY <1>1 DEF Size
  <2> QED BY <1>1, <2>1 DEF At
<1>3. \A i \in 0 .. Size(h) - 1 : h.idx[At(h, i)] = i
  BY DEF HeapOf, Indexed
<1>4. \A m \in Nodes : h.idx[m] \in {Absent} \cup Nat /\ m \in DOMAIN h.idx
  BY DEF HeapOf
<1>5. \A m \in Nodes : Active(h, m) => h.idx[m] \in 0 .. Size(h) - 1 /\ At(h, h.idx[m]) = m
  <2>1. \A m \in Nodes : Active(h, m) => h.idx[m] \in Nat
    BY <1>4 DEF Active
  <2>2. \A m \in Nodes : Active(h, m) => h.idx[m] < Size(h) /\ At(h, h.idx[m]) = m
    BY <1>4 DEF HeapOf, Indexed
  <2> QED BY <1>1, <2>1, <2>2
<1>6. \A m \in Nodes : ~Active(h, m) => \A i \in 0 .. Size(h) - 1 : At(h, i) # m
  BY <1>3 DEF Active, Absent
<1> QED BY <1>1, <1>2, <1>3, <1>5, <1>6

\* __time_greater() compares the times.
LEMMA GreaterIs ==
  ASSUME NEW Nodes, NEW dl \in [Nodes -> Normal], NEW m \in Nodes, NEW n \in Nodes
  PROVE  /\ TimeGreater(dl, m, n) <=> Value(dl[m]) > Value(dl[n])
         /\ Value(dl[m]) \in Nat /\ Value(dl[n]) \in Nat
<1>1. dl[m] \in Normal /\ dl[n] \in Normal
  OBVIOUS
<1> QED BY <1>1, CmpExact, ValueType DEF TimeGreater

\* What Store() writes when no node is written twice
LEMMA StoreIs ==
  ASSUME NEW h, NEW f, NEW size \in Nat,
         \A i, j \in DOMAIN f : f[i] = f[j] => i = j
  PROVE  LET w == Store(h, f, size) IN
         /\ w.events = [j \in 1 .. size |-> IF j - 1 \in DOMAIN f THEN f[j - 1] ELSE h.events[j]]
         /\ DOMAIN w.idx = DOMAIN h.idx
         /\ \A i \in DOMAIN f : f[i] \in DOMAIN h.idx => w.idx[f[i]] = i
         /\ \A m \in DOMAIN h.idx : (\A i \in DOMAIN f : f[i] # m) => w.idx[m] = h.idx[m]
<1> DEFINE w == Store(h, f, size)
<1>1. /\ w.events = [j \in 1 .. size |-> IF j - 1 \in DOMAIN f THEN f[j - 1] ELSE h.events[j]]
      /\ w.idx = [n \in DOMAIN h.idx |->
                    IF \E i \in DOMAIN f : f[i] = n
                      THEN CHOOSE i \in DOMAIN f : f[i] = n ELSE h.idx[n]]
  BY DEF Store
<1>2. \A i \in DOMAIN f : (CHOOSE j \in DOMAIN f : f[j] = f[i]) = i
  OBVIOUS
<1> HIDE DEF w
<1>3. \A i \in DOMAIN f : f[i] \in DOMAIN h.idx => w.idx[f[i]] = i
  BY <1>1, <1>2
<1>4. \A m \in DOMAIN h.idx : (\A i \in DOMAIN f : f[i] # m) => w.idx[m] = h.idx[m]
  BY <1>1
<1>5. DOMAIN w.idx = DOMAIN h.idx
  BY <1>1
<1> QED BY <1>1, <1>3, <1>4, <1>5, Zenon DEF w

\* The same in terms of places
StoredAt(w, h, Nodes, f, size) ==
  /\ w.events \in Seq(Nodes) /\ Size(w) = size
  /\ w.idx \in [Nodes -> {Absent} \cup Nat]
  /\ \A i \in 0 .. size - 1 : At(w, i) = IF i \in DOMAIN f THEN f[i] ELSE At(h, i)
  /\ \A i \in DOMAIN f : w.idx[f[i]] = i
  /\ \A m \in Nodes : (\A i \in DOMAIN f : f[i] # m) => w.idx[m] = h.idx[m]

LEMMA StoreAt ==
  ASSUME NEW Nodes, NEW h, HeapOf(h, Nodes), NEW size \in Nat,
         NEW f, DOMAIN f \subseteq Nat, \A i \in DOMAIN f : f[i] \in Nodes,
         \A i, j \in DOMAIN f : f[i] = f[j] => i = j,
         \A i \in 0 .. size - 1 : i \notin DOMAIN f => i < Size(h)
  PROVE  StoredAt(Store(h, f, size), h, Nodes, f, size)
<1> DEFINE w == Store(h, f, size)
<1>1. /\ w.events = [j \in 1 .. size |-> IF j - 1 \in DOMAIN f THEN f[j - 1] ELSE h.events[j]]
      /\ DOMAIN w.idx = DOMAIN h.idx
      /\ \A i \in DOMAIN f : f[i] \in DOMAIN h.idx => w.idx[f[i]] = i
      /\ \A m \in DOMAIN h.idx : (\A i \in DOMAIN f : f[i] # m) => w.idx[m] = h.idx[m]
  BY StoreIs
<1>2. w.idx = [m \in DOMAIN w.idx |-> w.idx[m]]
  BY DEF Store
<1>3. h.events \in Seq(Nodes) /\ h.idx \in [Nodes -> {Absent} \cup Nat]
  BY DEF HeapOf
<1> HIDE DEF w
<1>4. ASSUME NEW j \in 1 .. size PROVE w.events[j] \in Nodes
  <2>1. CASE j - 1 \in DOMAIN f
    BY <1>1, <2>1
  <2>2. CASE j - 1 \notin DOMAIN f
    <3>1. j - 1 \in 0 .. size - 1
      OBVIOUS
    <3>2. j - 1 < Size(h)
      BY <2>2, <3>1
    <3>3. j \in 1 .. Len(h.events)
      BY <3>2, HeapFacts DEF Size
    <3>4. h.events[j] \in Nodes
      BY <1>3, <3>3
    <3> QED BY <1>1, <2>2, <3>4
  <2> QED BY <2>1, <2>2
<1>5. w.events \in [1 .. size -> Nodes]
  BY <1>1, <1>4
<1>6. w.events \in Seq(Nodes) /\ Len(w.events) = size
  BY <1>5
<1>7. ASSUME NEW i \in 0 .. size - 1
      PROVE  At(w, i) = IF i \in DOMAIN f THEN f[i] ELSE At(h, i)
  <2>1. i + 1 \in 1 .. size /\ (i + 1) - 1 = i
    OBVIOUS
  <2> QED BY <1>1, <2>1 DEF At
<1>8. \A i \in DOMAIN f : w.idx[f[i]] = i
  BY <1>1, <1>3
<1>9. \A m \in Nodes : (\A i \in DOMAIN f : f[i] # m) => w.idx[m] = h.idx[m]
  BY <1>1, <1>3
<1>10. ASSUME NEW m \in Nodes PROVE w.idx[m] \in {Absent} \cup Nat
  BY <1>3, <1>8, <1>9
<1>11. w.idx \in [Nodes -> {Absent} \cup Nat]
  BY <1>1, <1>2, <1>3, <1>10
<1> QED BY <1>6, <1>7, <1>8, <1>9, <1>11, Zenon DEF Size, w, StoredAt

\* The array of w has size places and is that of h but for the places in path, whose
\* nodes know where they are.
Rewritten(w, h, Nodes, size, path) ==
  /\ w.events \in Seq(Nodes) /\ Size(w) = size /\ w.idx \in [Nodes -> {Absent} \cup Nat]
  /\ path \subseteq 0 .. size - 1
  /\ \A i \in 0 .. size - 1 : i \notin path => i < Size(h) /\ At(w, i) = At(h, i)
  /\ \A i \in path : w.idx[At(w, i)] = i
  /\ \A m \in Nodes : (\A i \in path : At(w, i) # m) => w.idx[m] = h.idx[m]

\* What min_heap_shift_up() leaves: parents moved down along the path and node to
\* its end.
ShiftedUp(w, h, Nodes, dl, hole, node, size) ==
  LET path == PathUp(h, dl, hole, node)
      G == Above(h, dl, node)
  IN /\ Rewritten(w, h, Nodes, size, path)
     /\ \A i \in path : /\ i \in G => Parent(i) \in 0 .. hole - 1 /\ Parent(i) \in path
                        /\ At(w, i) = IF i \in G THEN At(h, Parent(i)) ELSE node

LEMMA ShiftUpIs ==
  ASSUME NEW Nodes, NEW h, HeapOf(h, Nodes), NEW dl, NEW node \in Nodes,
         NEW hole \in 0 .. Size(h), NEW size \in Nat, hole < size,
         size = Size(h) \/ (size = Size(h) + 1 /\ hole = Size(h)),
         \A i \in 0 .. hole - 1 : At(h, i) # node
  PROVE  ShiftedUp(ShiftUp(h, dl, hole, node, size), h, Nodes, dl, hole, node, size)
<1> DEFINE w == ShiftUp(h, dl, hole, node, size)
           path == PathUp(h, dl, hole, node)
           G == Above(h, dl, node)
           last == CHOOSE i \in path : \A j \in path : i <= j
           f == [i \in path |-> IF i = last THEN node ELSE At(h, Parent(i))]
<1>1. hole \in Nat /\ Size(h) \in Nat
  BY HeapFacts
<1>2. PathFrom(path, hole, G)
  BY <1>1, PathUpSound
<1>3. \A i \in G : i \in Nat /\ Parent(i) \in Nat /\ Parent(i) < i
  BY ParentIs DEF Above
<1>4. w = Store(h, f, size)
  BY DEF ShiftUp
<1>5. /\ path \subseteq 0 .. hole /\ hole \in path
      /\ \A j \in path : IF j \in G THEN Parent(j) \in path ELSE \A k \in path : j <= k
      /\ \A j, k \in path : j \in G /\ k \in G /\ Parent(j) = Parent(k) => j = k
  BY <1>2 DEF PathFrom
<1> HIDE DEF w, path, G
<1>6. last \in path /\ \A j \in path : last <= j
  <2>1. path \subseteq Nat /\ path # {}
    BY <1>1, <1>5
  <2>2. \E x \in path : \A y \in path : x <= y
    BY <2>1, LeastOf, Zenon
  <2> QED BY <2>2, Zenon
<1> HIDE DEF last
<1>7. \A i \in path : i \in Nat /\ i <= hole
  BY <1>1, <1>5
<1>8. ASSUME NEW i \in path PROVE i = last <=> i \notin G
  <2>1. CASE i \in G
    BY <1>3, <1>5, <1>6, <1>7, <2>1
  <2>2. CASE i \notin G
    BY <1>5, <1>6, <1>7, <2>2
  <2> QED BY <2>1, <2>2
<1>9. \A i \in path : i \in G => Parent(i) \in 0 .. hole - 1 /\ Parent(i) \in path
  BY <1>1, <1>3, <1>5, <1>7
<1>10. DOMAIN f = path /\ \A i \in path : f[i] = IF i \in G THEN At(h, Parent(i)) ELSE node
  BY <1>8
<1> HIDE DEF f
<1>11. \A i \in 0 .. hole - 1 : At(h, i) \in Nodes /\ h.idx[At(h, i)] = i
  BY <1>1, HeapFacts
<1>12. \A i \in path : f[i] \in Nodes
  BY <1>9, <1>10, <1>11
<1>13. \A i, j \in path : f[i] = f[j] => i = j
  <2> SUFFICES ASSUME NEW i \in path, NEW j \in path, f[i] = f[j] PROVE i = j
    OBVIOUS
  <2>1. CASE i \in G /\ j \in G
    <3>1. Parent(i) = Parent(j)
      BY <1>9, <1>10, <1>11, <2>1
    <3> QED BY <1>5, <2>1, <3>1
  <2>2. CASE i \notin G /\ j \notin G
    BY <1>8, <2>2
  <2>3. CASE (i \in G) # (j \in G)
    BY <1>9, <1>10, <2>3
  <2> QED BY <2>1, <2>2, <2>3
<1>14. path \subseteq 0 .. size - 1
  BY <1>1, <1>7
<1>15. \A i \in 0 .. size - 1 : i \notin path => i < Size(h)
  BY <1>1, <1>5
<1>16. /\ w.events \in Seq(Nodes) /\ Size(w) = size
       /\ w.idx \in [Nodes -> {Absent} \cup Nat]
       /\ \A i \in 0 .. size - 1 : At(w, i) = IF i \in path THEN f[i] ELSE At(h, i)
       /\ \A i \in path : w.idx[f[i]] = i
       /\ \A m \in Nodes : (\A i \in path : f[i] # m) => w.idx[m] = h.idx[m]
  <2>1. path \subseteq Nat
    BY <1>7
  <2>2. StoredAt(w, h, Nodes, f, size)
    BY <1>4, <1>10, <1>12, <1>13, <1>15, <2>1, StoreAt, Zenon
  <2> QED BY <1>10, <2>2 DEF StoredAt
<1>17. \A i \in path : At(w, i) = f[i]
  BY <1>14, <1>16
<1>18. Rewritten(w, h, Nodes, size, path)
  BY <1>14, <1>15, <1>16, <1>17, Zenon DEF Rewritten
<1> QED BY <1>9, <1>10, <1>17, <1>18 DEF w, path, G, ShiftedUp

\* The order after that.  Where the hole is inside the array its parent moves in.
LEMMA ShiftUpOrdered ==
  ASSUME NEW Nodes, NEW h, HeapOf(h, Nodes), NEW dl \in [Nodes -> Normal], Ordered(h, dl),
         NEW node \in Nodes, NEW hole \in 0 .. Size(h), NEW size \in Nat, hole < size,
         \/ size = Size(h) /\ hole \in Above(h, dl, node)
         \/ size = Size(h) + 1 /\ hole = Size(h),
         \A i \in 0 .. hole - 1 : At(h, i) # node
  PROVE  Ordered(ShiftUp(h, dl, hole, node, size), dl)
<1> DEFINE w == ShiftUp(h, dl, hole, node, size)
           path == PathUp(h, dl, hole, node)
           G == Above(h, dl, node)
           V(m) == Value(dl[m])
<1>1. /\ Rewritten(w, h, Nodes, size, path)
      /\ \A i \in path : /\ i \in G => Parent(i) \in 0 .. hole - 1 /\ Parent(i) \in path
                         /\ At(w, i) = IF i \in G THEN At(h, Parent(i)) ELSE node
  <2>1. size = Size(h) \/ (size = Size(h) + 1 /\ hole = Size(h))
    OBVIOUS
  <2>2. ShiftedUp(w, h, Nodes, dl, hole, node, size)
    BY <2>1, ShiftUpIs
  <2> HIDE DEF w
  <2> QED BY <2>2 DEF ShiftedUp
<1>2. Size(h) \in Nat /\ \A i \in 0 .. Size(h) - 1 : At(h, i) \in Nodes
  BY HeapFacts
<1>3. \A m \in Nodes : V(m) \in Nat
  BY ValueType
<1>4. \A i \in 1 .. Size(h) - 1 : V(At(h, Parent(i))) <= V(At(h, i))
  BY DEF Ordered
<1>5. \A i \in Nat : i # 0 => Parent(i) \in Nat /\ Parent(i) < i
  BY ParentIs
<1>6. \A i \in 1 .. Size(h) : i \in G <=> V(At(h, Parent(i))) > V(node)
  <2> SUFFICES ASSUME NEW i \in 1 .. Size(h)
               PROVE  i \in G <=> V(At(h, Parent(i))) > V(node)
    OBVIOUS
  <2>1. At(h, Parent(i)) \in Nodes /\ i \in Nat /\ i # 0
    BY <1>2, <1>5
  <2>2. TimeGreater(dl, At(h, Parent(i)), node) <=> V(At(h, Parent(i))) > V(node)
    BY <2>1, GreaterIs
  <2> QED BY <2>1, <2>2 DEF Above
<1>7. PathFrom(path, hole, G)
  BY <1>2, PathUpSound, SMTT(30)
<1>8. Size(w) = size /\ path \subseteq 0 .. size - 1 /\ \A i \in 0 .. size - 1 : i \notin path =>
        i < Size(h) /\ At(w, i) = At(h, i)
  BY <1>1 DEF Rewritten
<1>9. 0 \notin G
  BY DEF Above
<1> HIDE DEF w, path, G, V
<1>10. /\ path \subseteq 0 .. hole /\ hole \in path
       /\ \A j \in path : j # hole => \E k \in path : k \in G /\ Parent(k) = j
       /\ size = Size(h) => hole \in G
  BY <1>2, <1>7 DEF PathFrom, G
<1>11. ASSUME NEW k \in 1 .. size - 1 PROVE V(At(w, Parent(k))) <= V(At(w, k))
  <2> DEFINE p == Parent(k)
  <2>1. k \in Nat /\ p \in Nat /\ p < k /\ p \in 0 .. size - 1 /\ k \in 0 .. size - 1
        /\ p \in 0 .. Size(h) - 1 /\ k \in 1 .. Size(h)
    BY <1>2, <1>5
  <2>2. CASE k \notin path /\ p \notin path
    BY <1>2, <1>4, <1>8, <2>1, <2>2
  <2>3. CASE k \notin path /\ p \in path
    <3>1. k < Size(h) /\ At(w, k) = At(h, k) /\ V(At(h, p)) <= V(At(h, k))
      BY <1>2, <1>4, <1>8, <2>1, <2>3
    <3>2. V(At(w, p)) <= V(At(h, p))
      <4>1. CASE p \in G
        <5>1. At(w, p) = At(h, Parent(p)) /\ p # 0
          BY <1>1, <1>9, <2>3, <4>1
        <5> QED BY <1>2, <1>4, <2>1, <5>1
      <4>2. CASE p \notin G
        <5>1. At(w, p) = node /\ p # hole
          <6>1. hole \in G \/ hole = Size(h)
            BY <1>10
          <6> QED BY <1>1, <1>2, <2>1, <2>3, <3>1, <4>2, <6>1
        <5>2. PICK c \in path : c \in G /\ Parent(c) = p
          BY <1>10, <2>3, <5>1, Zenon
        <5>3. c \in 1 .. Size(h)
          BY <1>2, <1>9, <1>10, <5>2
        <5>4. V(At(h, p)) > V(node)
          BY <1>6, <5>2, <5>3
        <5> QED BY <1>2, <1>3, <2>1, <5>1, <5>4
      <4> QED BY <4>1, <4>2
    <3>3. At(w, p) \in Nodes /\ At(h, p) \in Nodes /\ At(h, k) \in Nodes
      BY <1>1, <1>2, <2>1, <2>3, <3>1
    <3> QED BY <1>3, <3>1, <3>2, <3>3
  <2>4. CASE k \in path /\ k \in G
    <3>1. At(w, k) = At(h, p) /\ p \in path
      BY <1>1, <2>4
    <3>2. CASE p \in G
      <4>1. At(w, p) = At(h, Parent(p)) /\ p # 0
        BY <1>1, <1>9, <3>1, <3>2
      <4> QED BY <1>2, <1>4, <2>1, <3>1, <4>1, SMTT(30)
    <3>3. CASE p \notin G
      <4>1. At(w, p) = node
        BY <1>1, <3>1, <3>3
      <4>2. V(At(h, p)) > V(node) /\ At(h, p) \in Nodes
        BY <1>2, <1>6, <2>1, <2>4
      <4> QED BY <1>3, <3>1, <4>1, <4>2
    <3> QED BY <3>2, <3>3
  <2>5. CASE k \in path /\ k \notin G
    <3>1. At(w, k) = node /\ ~(V(At(h, p)) > V(node)) /\ At(h, p) \in Nodes
      BY <1>1, <1>2, <1>6, <2>1, <2>5
    <3>2. p \notin path
      BY <1>7, <2>1, <2>5 DEF PathFrom
    <3>3. At(w, p) = At(h, p)
      BY <1>8, <2>1, <3>2, Zenon
    <3> QED BY <1>3, <3>1, <3>3
  <2> QED BY <2>2, <2>3, <2>4, <2>5
<1> QED BY <1>8, <1>11 DEF Ordered, V, w

\* The heap h and one node more, n
HeapWith(w, h, Nodes, dl, n) ==
  /\ HeapOf(w, Nodes) /\ Ordered(w, dl) /\ Size(w) = Size(h) + 1
  /\ \A m \in Nodes : Active(w, m) <=> Active(h, m) \/ m = n

\* min_heap_insert() of a node that is not in the heap adds it, and leaves the heap
\* ordered and indexed.
THEOREM InsertSound ==
  ASSUME NEW Nodes, NEW h, HeapOf(h, Nodes), NEW dl \in [Nodes -> Normal], Ordered(h, dl),
         NEW n \in Nodes, ~Active(h, n)
  PROVE  HeapWith(Insert(h, dl, n), h, Nodes, dl, n)
<1> DEFINE s == Size(h)
           w == Insert(h, dl, n)
           path == PathUp(h, dl, s, n)
           G == Above(h, dl, n)
<1>1. /\ s \in Nat
      /\ \A i \in 0 .. s - 1 : At(h, i) \in Nodes /\ h.idx[At(h, i)] = i
      /\ \A m \in Nodes : Active(h, m) => h.idx[m] \in 0 .. s - 1 /\ At(h, h.idx[m]) = m
      /\ \A i \in 0 .. s - 1 : At(h, i) # n
  BY HeapFacts
<1>2. w = ShiftUp(h, dl, s, n, s + 1)
  BY DEF Insert
<1>3. s \in 0 .. Size(h) /\ s + 1 \in Nat /\ s < s + 1
  BY <1>1
<1>4. Ordered(w, dl)
  BY <1>1, <1>2, <1>3, ShiftUpOrdered
<1>5. /\ Rewritten(w, h, Nodes, s + 1, path)
      /\ \A i \in path : /\ i \in G => Parent(i) \in 0 .. s - 1 /\ Parent(i) \in path
                         /\ At(w, i) = IF i \in G THEN At(h, Parent(i)) ELSE n
  <2> DEFINE size == s + 1
  <2>1. s \in 0 .. Size(h) /\ \A i \in 0 .. s - 1 : At(h, i) # n
    BY <1>1
  <2>2. size \in Nat /\ s < size
    BY <1>3
  <2>3. size = Size(h) \/ (size = Size(h) + 1 /\ s = Size(h))
    OBVIOUS
  <2> HIDE DEF w, s, size
  <2>4. ShiftedUp(ShiftUp(h, dl, s, n, size), h, Nodes, dl, s, n, size)
    BY <2>1, <2>2, <2>3, ShiftUpIs
  <2>5. ShiftedUp(w, h, Nodes, dl, s, n, s + 1)
    BY <1>2, <2>4 DEF size
  <2> QED BY <2>5 DEF ShiftedUp
<1>6. PathFrom(path, s, G)
  BY <1>1, PathUpSound
<1> HIDE DEF w, path, G, s
<1>7. /\ w.events \in Seq(Nodes) /\ Size(w) = s + 1 /\ w.idx \in [Nodes -> {Absent} \cup Nat]
      /\ path \subseteq 0 .. s
      /\ \A i \in 0 .. s : i \notin path => i < s /\ At(w, i) = At(h, i)
      /\ \A i \in path : w.idx[At(w, i)] = i
      /\ \A m \in Nodes : (\A i \in path : At(w, i) # m) => w.idx[m] = h.idx[m]
  <2>1. (s + 1) - 1 = s /\ s = Size(h)
    BY <1>1 DEF s
  <2> QED BY <1>5, <2>1 DEF Rewritten
<1>8. /\ s \in path /\ \A j \in path : j # s => \E k \in path : k \in G /\ Parent(k) = j
      /\ \E j \in path : j \notin G
  <2>1. path \subseteq Nat /\ path # {} /\ s \in path
    BY <1>1, <1>6, <1>7 DEF PathFrom
  <2>2. PICK j \in path : \A k \in path : j <= k
    BY <2>1, LeastOf, Zenon
  <2>3. j \in G => Parent(j) \in path /\ j \in Nat /\ Parent(j) \in Nat /\ Parent(j) < j
    BY <1>5, <2>1, ParentIs DEF G, Above
  <2>4. j \notin G
    BY <2>2, <2>3
  <2> QED BY <1>6, <2>1, <2>4 DEF PathFrom
\* Every node of the heap is still there.
<1>9. ASSUME NEW m \in Nodes
      PROVE  \/ \E i \in path : At(w, i) = m
             \/ /\ w.idx[m] = h.idx[m]
                /\ Active(h, m) => h.idx[m] \notin path
  <2> SUFFICES ASSUME \A i \in path : At(w, i) # m, Active(h, m), h.idx[m] \in path PROVE FALSE
    BY <1>7
  <2>1. h.idx[m] \in 0 .. s - 1 /\ At(h, h.idx[m]) = m
    BY <1>1
  <2>2. PICK k \in path : k \in G /\ Parent(k) = h.idx[m]
    BY <1>1, <1>8, <2>1
  <2> QED BY <1>5, <2>1, <2>2
<1>10. ASSUME NEW i \in 0 .. s PROVE w.idx[At(w, i)] = i
  <2>1. CASE i \in path
    BY <1>7, <2>1
  <2>2. CASE i \notin path
    <3>1. i \in 0 .. s - 1 /\ At(w, i) = At(h, i)
      BY <1>1, <1>7, <2>2
    <3>2. ASSUME NEW j \in path PROVE At(w, j) # At(h, i)
      <4>1. CASE j \in G
        <5>1. Parent(j) # i /\ Parent(j) \in 0 .. s - 1 /\ At(w, j) = At(h, Parent(j))
          BY <1>5, <2>2, <4>1
        <5> QED BY <1>1, <3>1, <5>1
      <4>2. CASE j \notin G
        BY <1>1, <1>5, <3>1, <4>2
      <4> QED BY <4>1, <4>2
    <3>3. w.idx[At(h, i)] = h.idx[At(h, i)]
      BY <1>1, <1>7, <3>1, <3>2
    <3> QED BY <1>1, <3>1, <3>3
  <2> QED BY <2>1, <2>2
<1>11. ASSUME NEW m \in Nodes, Active(w, m)
       PROVE  w.idx[m] < s + 1 /\ At(w, w.idx[m]) = m
  <2>1. CASE \E i \in path : At(w, i) = m
    <3>1. PICK i \in path : At(w, i) = m
      BY <2>1
    <3>2. w.idx[m] = i /\ i \in 0 .. s
      BY <1>7, <3>1
    <3> QED BY <1>1, <3>1, <3>2
  <2>2. CASE ~ \E i \in path : At(w, i) = m
    <3>1. w.idx[m] = h.idx[m] /\ Active(h, m) /\ h.idx[m] \notin path
      BY <1>9, <1>11, <2>2 DEF Active
    <3>2. h.idx[m] \in 0 .. s - 1 /\ At(h, h.idx[m]) = m
      BY <1>1, <3>1
    <3> QED BY <1>1, <1>7, <3>1, <3>2
  <2> QED BY <2>1, <2>2
<1>12. HeapOf(w, Nodes)
  <2>1. DOMAIN w.idx = Nodes /\ 0 .. Size(w) - 1 = 0 .. s
    BY <1>1, <1>7
  <2>2. Indexed(w)
    BY <1>7, <1>10, <1>11, <2>1, Zenon DEF Indexed
  <2> QED BY <1>7, <2>2 DEF HeapOf
<1>13. ASSUME NEW m \in Nodes PROVE Active(w, m) <=> Active(h, m) \/ m = n
  <2>1. \A i \in path : Active(w, At(w, i))
    BY <1>1, <1>7 DEF Active, Absent
  <2>2. CASE m = n
    <3>1. PICK j \in path : j \notin G
      BY <1>8
    <3>2. At(w, j) = n
      BY <1>5, <3>1
    <3> QED BY <2>1, <2>2, <3>2
  <2>3. CASE m # n /\ \E i \in path : At(w, i) = m
    <3>1. PICK i \in path : At(w, i) = m
      BY <2>3
    <3>2. i \in G /\ Parent(i) \in 0 .. s - 1 /\ m = At(h, Parent(i))
      BY <1>5, <2>3, <3>1
    <3>3. Active(h, m)
      BY <1>1, <3>2 DEF Active, Absent
    <3> QED BY <2>1, <3>1, <3>3
  <2>4. CASE m # n /\ ~ \E i \in path : At(w, i) = m
    BY <1>9, <2>4 DEF Active
  <2> QED BY <2>2, <2>3, <2>4
<1> QED BY <1>4, <1>7, <1>12, <1>13 DEF w, s, HeapWith
-----------------------------------------------------------------------------
(* Erasing.                                                                 *)

\* A set of natural numbers with a bound has a greatest element.
LEMMA GreatestOf ==
  ASSUME NEW n \in Nat, NEW S, S \subseteq 0 .. n, S # {}
  PROVE  \E x \in S : \A y \in S : y <= x
<1> DEFINE T == {k \in Nat : n - k \in S}
<1>1. PICK z : z \in S
  OBVIOUS
<1>2. n - z \in Nat /\ n - (n - z) = z
  BY <1>1
<1>3. T \subseteq Nat /\ T # {}
  BY <1>1, <1>2, Zenon
<1>4. PICK k \in T : \A j \in T : k <= j
  BY <1>3, LeastOf, Zenon
<1>5. n - k \in S /\ k \in Nat
  BY <1>4
<1>6. ASSUME NEW y \in S PROVE y <= n - k
  <2>1. y \in Nat /\ n - y \in Nat /\ n - (n - y) = y
    OBVIOUS
  <2>2. n - y \in T
    BY <2>1
  <2>3. k <= n - y
    BY <1>4, <2>2, Zenon
  <2> HIDE DEF T
  <2>4. n \in Nat /\ k \in Nat /\ y \in Nat
    BY <1>5, <2>1
  <2> QED BY <2>3, <2>4
<1> QED BY <1>5, <1>6

\* Of the children of a place, MinChild() is due first.
LEMMA MinChildFirst ==
  ASSUME NEW Nodes, NEW h, HeapOf(h, Nodes), NEW dl \in [Nodes -> Normal],
         NEW size \in 0 .. Size(h), NEW i \in Nat, 2 * i + 2 <= size,
         NEW k \in 1 .. size - 1, Parent(k) = i
  PROVE  Value(dl[At(h, MinChild(h, dl, i, size))]) <= Value(dl[At(h, k)])
<1> DEFINE l == 2 * i + 1
           r == 2 * i + 2
<1>1. Size(h) \in Nat /\ \A j \in 0 .. Size(h) - 1 : At(h, j) \in Nodes
  BY HeapFacts
<1>2. k = l \/ k = r
  BY ParentIs
<1>3. l \in 0 .. Size(h) - 1
  BY <1>1
<1>4. \A m, n \in Nodes : /\ TimeGreater(dl, m, n) <=> Value(dl[m]) > Value(dl[n])
                          /\ Value(dl[m]) \in Nat
  BY GreaterIs
<1>5. CASE r = size
  <2>1. MinChild(h, dl, i, size) = l /\ k = l
    BY <1>2, <1>5 DEF MinChild
  <2> QED BY <1>1, <1>3, <1>4, <2>1
<1>6. CASE r < size
  <2>1. r \in 0 .. Size(h) - 1 /\ r # size
    BY <1>1, <1>6
  <2>2. MinChild(h, dl, i, size) = IF TimeGreater(dl, At(h, r), At(h, l)) THEN l ELSE r
    BY <1>6, <2>1 DEF MinChild
  <2> HIDE DEF l, r
  <2> QED BY <1>1, <1>2, <1>3, <1>4, <2>1, <2>2
<1> QED BY <1>1, <1>5, <1>6

\* What min_heap_shift_down() leaves when the last node of the heap is to take the
\* hole: children moved up along the path and the node to its end.
ShiftedDown(w, h, Nodes, dl, hole, size) ==
  LET node == At(h, size)
      path == PathDown(h, dl, hole, node, size)
      G == Below(h, dl, node, size)
      C(i) == MinChild(h, dl, i, size)
  IN /\ Rewritten(w, h, Nodes, size + 1, path)
     /\ \A i \in path : /\ i \in G => C(i) \in path /\ C(i) \in 1 .. size - 1 /\ Parent(C(i)) = i
                        /\ At(w, i) = IF i \in G THEN At(h, C(i)) ELSE node

LEMMA ShiftDownIs ==
  ASSUME NEW Nodes, NEW h, HeapOf(h, Nodes), NEW dl,
         NEW size \in Nat, Size(h) = size + 1, NEW hole \in 0 .. size
  PROVE  ShiftedDown(ShiftDown(h, dl, hole, At(h, size), size), h, Nodes, dl, hole, size)
<1> DEFINE node == At(h, size)
           w == ShiftDown(h, dl, hole, node, size)
           path == PathDown(h, dl, hole, node, size)
           G == Below(h, dl, node, size)
           C(i) == MinChild(h, dl, i, size)
           last == CHOOSE i \in path : \A j \in path : j <= i
           f == [i \in path |-> IF i = last THEN node ELSE At(h, C(i))]
<1>1. /\ node \in Nodes /\ h.idx[node] = size
      /\ \A i \in 0 .. size - 1 : At(h, i) \in Nodes /\ h.idx[At(h, i)] = i /\ At(h, i) # node
  <2>1. \A i \in 0 .. size : At(h, i) \in Nodes /\ h.idx[At(h, i)] = i
    BY HeapFacts
  <2> QED BY <2>1
<1>2. PathTo(path, hole, h, dl, size, G)
  BY PathDownSound
<1>3. \A i \in G : /\ i \in Nat /\ C(i) \in Nat /\ i < C(i)
                   /\ C(i) \in 1 .. size - 1 /\ Parent(C(i)) = i
  <2> SUFFICES ASSUME NEW i \in G
               PROVE  /\ i \in Nat /\ C(i) \in Nat /\ i < C(i)
                      /\ C(i) \in 1 .. size - 1 /\ Parent(C(i)) = i
    OBVIOUS
  <2>1. i \in Nat /\ 2 * i + 2 <= size
    BY DEF Below
  <2>2. C(i) \in Nat /\ i < C(i) /\ C(i) < size /\ Parent(C(i)) = i
    BY <2>1, MinChildIs
  <2> HIDE DEF C, G
  <2> QED BY <2>1, <2>2
<1>4. w = Store(h, f, size + 1)
  BY DEF ShiftDown
<1>5. /\ path \subseteq hole .. size /\ hole \in path
      /\ \A j \in path : IF j \in G THEN C(j) \in path ELSE \A k \in path : k <= j
  BY <1>2 DEF PathTo
<1> HIDE DEF w, path, G, C, node
<1>6. last \in path /\ \A j \in path : j <= last
  <2>1. path \subseteq 0 .. size /\ path # {}
    BY <1>5
  <2>2. \E x \in path : \A y \in path : y <= x
    BY <2>1, GreatestOf, Zenon
  <2> QED BY <2>2, Zenon
<1> HIDE DEF last
<1>7. \A i \in path : i \in Nat /\ i <= size
  BY <1>5
<1>8. ASSUME NEW i \in path PROVE i = last <=> i \notin G
  <2>1. CASE i \in G
    BY <1>3, <1>5, <1>6, <1>7, <2>1
  <2>2. CASE i \notin G
    BY <1>5, <1>6, <1>7, <2>2
  <2> QED BY <2>1, <2>2
<1>9. DOMAIN f = path /\ \A i \in path : f[i] = IF i \in G THEN At(h, C(i)) ELSE node
  BY <1>8
<1> HIDE DEF f
<1>10. \A i \in path : i \in G => C(i) \in 0 .. size - 1
  BY <1>3
<1>11. \A i \in path : f[i] \in Nodes
  BY <1>1, <1>9, <1>10
<1>12. \A i, j \in path : f[i] = f[j] => i = j
  <2> SUFFICES ASSUME NEW i \in path, NEW j \in path, f[i] = f[j] PROVE i = j
    OBVIOUS
  <2>1. CASE i \in G /\ j \in G
    <3>1. C(i) = C(j)
      BY <1>1, <1>9, <1>10, <2>1
    <3> QED BY <1>3, <2>1, <3>1
  <2>2. CASE i \notin G /\ j \notin G
    BY <1>8, <2>2
  <2>3. CASE (i \in G) # (j \in G)
    BY <1>1, <1>9, <1>10, <2>3
  <2> QED BY <2>1, <2>2, <2>3
<1>13. path \subseteq 0 .. (size + 1) - 1
  BY <1>7
<1>14. \A i \in 0 .. (size + 1) - 1 : i \notin path => i < Size(h)
  OBVIOUS
<1>15. /\ w.events \in Seq(Nodes) /\ Size(w) = size + 1
       /\ w.idx \in [Nodes -> {Absent} \cup Nat]
       /\ \A i \in 0 .. (size + 1) - 1 : At(w, i) = IF i \in path THEN f[i] ELSE At(h, i)
       /\ \A i \in path : w.idx[f[i]] = i
       /\ \A m \in Nodes : (\A i \in path : f[i] # m) => w.idx[m] = h.idx[m]
  <2>1. path \subseteq Nat /\ size + 1 \in Nat
    BY <1>7
  <2>2. StoredAt(w, h, Nodes, f, size + 1)
    BY <1>4, <1>9, <1>11, <1>12, <1>14, <2>1, StoreAt, Zenon
  <2> QED BY <1>9, <2>2, SMTT(30) DEF StoredAt
<1>16. \A i \in path : At(w, i) = f[i]
  BY <1>13, <1>15
<1>17. Rewritten(w, h, Nodes, size + 1, path)
  BY <1>13, <1>14, <1>15, <1>16 DEF Rewritten
<1>18. \A i \in path : i \in G => C(i) \in path /\ C(i) \in 1 .. size - 1 /\ Parent(C(i)) = i
  BY <1>3, <1>5
<1> QED BY <1>9, <1>16, <1>17, <1>18, Zenon DEF w, path, G, C, node, ShiftedDown

\* The order after that, of the places that stay.  The parent of the hole may not be
\* due after the node that moves in.
LEMMA ShiftDownOrdered ==
  ASSUME NEW Nodes, NEW h, HeapOf(h, Nodes), NEW dl \in [Nodes -> Normal], Ordered(h, dl),
         NEW size \in Nat, Size(h) = size + 1, NEW hole \in 0 .. size,
         hole # 0 => ~TimeGreater(dl, At(h, Parent(hole)), At(h, size)),
         NEW w, w = ShiftDown(h, dl, hole, At(h, size), size),
         NEW k \in 1 .. size - 1
  PROVE  Value(dl[At(w, Parent(k))]) <= Value(dl[At(w, k)])
<1> DEFINE node == At(h, size)
           path == PathDown(h, dl, hole, node, size)
           G == Below(h, dl, node, size)
           C(i) == MinChild(h, dl, i, size)
           V(m) == Value(dl[m])
           p == Parent(k)
<1>1. ShiftedDown(w, h, Nodes, dl, hole, size)
  BY ShiftDownIs
<1>2. /\ Rewritten(w, h, Nodes, size + 1, path)
      /\ \A i \in path : /\ i \in G => C(i) \in path /\ C(i) \in 1 .. size - 1 /\ Parent(C(i)) = i
                         /\ At(w, i) = IF i \in G THEN At(h, C(i)) ELSE node
  BY <1>1, Zenon DEF ShiftedDown
<1>3. \A i \in 0 .. size : At(h, i) \in Nodes
  BY HeapFacts
<1>4. \A m \in Nodes : V(m) \in Nat
  BY ValueType
<1>5. \A i \in 1 .. size : V(At(h, Parent(i))) <= V(At(h, i))
  BY DEF Ordered
<1>6. \A m, n \in Nodes : TimeGreater(dl, m, n) <=> V(m) > V(n)
  BY GreaterIs
<1>7. PathTo(path, hole, h, dl, size, G)
  BY PathDownSound
<1>8. /\ p \in Nat /\ p < k /\ k \in Nat /\ 2 * p + 2 <= size
      /\ p \in 0 .. size - 1 /\ k \in 0 .. size - 1 /\ k \in 1 .. size
  BY ParentIs
<1>9. p \in G <=> TimeGreater(dl, node, At(h, C(p)))
  BY <1>8 DEF Below
<1>10. V(At(h, C(p))) <= V(At(h, k))
  <2>1. size \in 0 .. Size(h)
    OBVIOUS
  <2> QED BY <1>8, <2>1, MinChildFirst
<1>11. C(p) \in 0 .. size
  <2>1. C(p) \in Nat /\ C(p) < size
    BY <1>8, MinChildIs
  <2> HIDE DEF C
  <2> QED BY <2>1
<1>12. hole \in path /\ path \subseteq hole .. size
       /\ \A j \in path : j # hole => \E i \in path : i \in G /\ C(i) = j
  BY <1>7, SMTT(30) DEF PathTo
<1>13. \A i \in 0 .. size : i \notin path => At(w, i) = At(h, i)
  <2>1. (size + 1) - 1 = size
    OBVIOUS
  <2> QED BY <1>2, <2>1 DEF Rewritten
<1>14. /\ V(At(h, p)) \in Nat /\ V(At(h, k)) \in Nat /\ V(At(h, C(p))) \in Nat
       /\ V(node) \in Nat /\ V(At(h, p)) <= V(At(h, k))
       /\ p \in G <=> V(node) > V(At(h, C(p)))
  <2>1. node \in Nodes /\ At(h, C(p)) \in Nodes /\ At(h, p) \in Nodes /\ At(h, k) \in Nodes
    BY <1>3, <1>8, <1>11
  <2> QED BY <1>4, <1>5, <1>6, <1>8, <1>9, <2>1
<1>15. hole # 0 => V(At(h, Parent(hole))) <= V(node)
  <2> SUFFICES ASSUME hole # 0 PROVE V(At(h, Parent(hole))) <= V(node)
    OBVIOUS
  <2>1. Parent(hole) \in 0 .. size
    BY ParentIs
  <2>2. At(h, Parent(hole)) \in Nodes /\ node \in Nodes
    BY <1>3, <2>1
  <2> QED BY <1>4, <1>6, <2>2
<1> SUFFICES V(At(w, p)) <= V(At(w, k))
  OBVIOUS
<1> HIDE DEF path, G, C, V, p, node
<1>16. k \in path /\ k \in G => V(At(w, k)) \in Nat /\ V(At(h, k)) <= V(At(w, k))
  <2> SUFFICES ASSUME k \in path, k \in G
               PROVE  V(At(w, k)) \in Nat /\ V(At(h, k)) <= V(At(w, k))
    OBVIOUS
  <2>1. At(w, k) = At(h, C(k)) /\ C(k) \in 1 .. size - 1 /\ Parent(C(k)) = k
    BY <1>2
  <2>2. C(k) \in 1 .. size /\ C(k) \in 0 .. size
    BY <2>1
  <2> QED BY <1>3, <1>4, <1>5, <2>1, <2>2
<1>17. k \in path /\ k \notin G => At(w, k) = node
  BY <1>2
<1>18. k # hole /\ k \in path => p \in path /\ p \in G /\ C(p) = k
  <2> SUFFICES ASSUME k # hole, k \in path PROVE p \in path /\ p \in G /\ C(p) = k
    OBVIOUS
  <2>1. PICK i \in path : i \in G /\ C(i) = k
    BY <1>12
  <2>2. i = p
    BY <1>2, <2>1 DEF p
  <2> QED BY <2>1, <2>2
<1>19. p \in path => At(w, p) = IF p \in G THEN At(h, C(p)) ELSE node
  BY <1>2
<1>20. p \notin path => At(w, p) = At(h, p)
  BY <1>8, <1>13
<1>21. k \notin path => At(w, k) = At(h, k)
  BY <1>8, <1>13
<1>22. k = hole => p \notin path /\ V(At(h, p)) <= V(node)
  BY <1>8, <1>12, <1>15 DEF p
<1>23. CASE k \notin path
  BY <1>10, <1>14, <1>19, <1>20, <1>21, <1>23
<1>24. CASE k \in path /\ k = hole
  BY <1>14, <1>16, <1>17, <1>20, <1>22, <1>24, SMTT(30)
<1>25. CASE k \in path /\ k # hole
  BY <1>14, <1>16, <1>17, <1>18, <1>19, <1>25, SMTT(30)
<1> QED BY <1>23, <1>24, <1>25

\* The last node of h, which has size + 1 places, moved to the place hole or beyond, and
\* the other nodes on path moved along it.
LastMoved(v, h, Nodes, hole, size, path) ==
  /\ Rewritten(v, h, Nodes, size + 1, path)
  /\ hole \in path /\ hole \in 0 .. size
  /\ IF hole = size THEN path = {size} ELSE path \subseteq 0 .. size - 1
  /\ \A i \in path : \/ At(v, i) = At(h, size)
                     \/ \E j \in path : j # hole /\ At(v, i) = At(h, j)
  /\ \E i \in path : At(v, i) = At(h, size)
  /\ \A j \in path : j # hole => \E i \in path : At(v, i) = At(h, j)

\* min_heap_shift_up() from a hole in the heap does that.
LEMMA ShiftUpMoves ==
  ASSUME NEW Nodes, NEW h, HeapOf(h, Nodes), NEW dl, NEW size \in Nat, Size(h) = size + 1,
         NEW hole \in 0 .. size - 1
  PROVE  LastMoved(ShiftUp(h, dl, hole, At(h, size), Size(h)), h, Nodes, hole, size,
                   PathUp(h, dl, hole, At(h, size)))
<1> DEFINE node == At(h, size)
           v == ShiftUp(h, dl, hole, node, Size(h))
           path == PathUp(h, dl, hole, node)
           G == Above(h, dl, node)
<1>1. \A i \in 0 .. size : At(h, i) \in Nodes /\ h.idx[At(h, i)] = i
  BY HeapFacts
<1>2. /\ node \in Nodes /\ hole \in 0 .. Size(h) /\ Size(h) \in Nat /\ hole < Size(h)
      /\ hole \in Nat
  BY <1>1
<1>3. \A i \in 0 .. hole - 1 : At(h, i) # node
  BY <1>1
<1>4. Size(h) = Size(h) \/ (Size(h) = Size(h) + 1 /\ hole = Size(h))
  OBVIOUS
<1>5. ShiftedUp(v, h, Nodes, dl, hole, node, Size(h))
  BY <1>2, <1>3, <1>4, ShiftUpIs
<1>6. PathFrom(path, hole, G)
  BY <1>2, PathUpSound
<1> HIDE DEF v
<1>7. /\ Rewritten(v, h, Nodes, size + 1, path)
      /\ \A i \in path : /\ i \in G => Parent(i) \in 0 .. hole - 1 /\ Parent(i) \in path
                         /\ At(v, i) = IF i \in G THEN At(h, Parent(i)) ELSE node
  BY <1>5 DEF ShiftedUp
<1>8. G \subseteq Nat /\ 0 \notin G
  BY DEF Above
<1> HIDE DEF path, G, node
<1>9. /\ path \subseteq 0 .. hole /\ hole \in path
      /\ \A j \in path : j # hole => \E k \in path : k \in G /\ Parent(k) = j
  BY <1>6 DEF PathFrom
<1>10. path \subseteq 0 .. size - 1 /\ hole # size /\ hole \in 0 .. size
  BY <1>9
<1>11. \A i \in path : i \in G => Parent(i) # hole
  BY <1>7
<1>12. \A i \in path : At(v, i) = node \/ \E j \in path : j # hole /\ At(v, i) = At(h, j)
  BY <1>7, <1>11
<1>13. \A j \in path : j # hole => \E i \in path : At(v, i) = At(h, j)
  BY <1>7, <1>9
<1>14. \E i \in path : i \notin G
  <2>1. path \subseteq Nat /\ path # {}
    BY <1>9
  <2>2. PICK j \in path : \A k \in path : j <= k
    BY <2>1, LeastOf, Zenon
  <2>3. j \in G => Parent(j) \in path /\ j \in Nat /\ Parent(j) \in Nat /\ Parent(j) < j
    BY <1>7, <1>8, <2>1, ParentIs
  <2> QED BY <2>2, <2>3
<1>15. \E i \in path : At(v, i) = node
  BY <1>7, <1>14, SMTT(30)
<1> QED BY <1>7, <1>9, <1>10, <1>12, <1>13, <1>15, Zenon DEF LastMoved, v, path, node

\* So does min_heap_shift_down().
LEMMA ShiftDownMoves ==
  ASSUME NEW Nodes, NEW h, HeapOf(h, Nodes), NEW dl, NEW size \in Nat, Size(h) = size + 1,
         NEW hole \in 0 .. size
  PROVE  LastMoved(ShiftDown(h, dl, hole, At(h, size), size), h, Nodes, hole, size,
                   PathDown(h, dl, hole, At(h, size), size))
<1> DEFINE node == At(h, size)
           v == ShiftDown(h, dl, hole, node, size)
           path == PathDown(h, dl, hole, node, size)
           G == Below(h, dl, node, size)
           C(i) == MinChild(h, dl, i, size)
<1>1. ShiftedDown(v, h, Nodes, dl, hole, size)
  BY ShiftDownIs
<1> HIDE DEF v
<1>2. /\ Rewritten(v, h, Nodes, size + 1, path)
      /\ \A i \in path : /\ i \in G => C(i) \in path /\ C(i) \in 1 .. size - 1 /\ Parent(C(i)) = i
                         /\ At(v, i) = IF i \in G THEN At(h, C(i)) ELSE node
  BY <1>1 DEF ShiftedDown
<1>3. PathTo(path, hole, h, dl, size, G)
  BY PathDownSound
<1>4. /\ path \subseteq hole .. size /\ hole \in path
      /\ \A j \in path : j # hole => \E i \in path : i \in G /\ C(i) = j
  BY <1>3 DEF PathTo
<1>5. \A i \in G : i \in Nat /\ C(i) \in Nat /\ i < C(i)
  <2> SUFFICES ASSUME NEW i \in G PROVE i \in Nat /\ C(i) \in Nat /\ i < C(i)
    OBVIOUS
  <2>1. i \in Nat /\ 2 * i + 2 <= size
    BY DEF Below
  <2> QED BY <2>1, MinChildIs
<1> HIDE DEF path, G, node, C
<1>6. \A i \in path : i \in Nat /\ hole <= i /\ i <= size
  BY <1>4
<1>7. \A i \in path : i \in G => C(i) # hole
  BY <1>5, <1>6
<1>8. \A i \in path : At(v, i) = node \/ \E j \in path : j # hole /\ At(v, i) = At(h, j)
  BY <1>2, <1>7
<1>9. \A j \in path : j # hole => \E i \in path : At(v, i) = At(h, j)
  BY <1>2, <1>4
<1>10. \E i \in path : i \notin G
  <2>1. path \subseteq 0 .. size /\ path # {}
    BY <1>4
  <2>2. PICK j \in path : \A k \in path : k <= j
    BY <2>1, GreatestOf, Zenon
  <2>3. j \in G => C(j) \in path /\ j \in Nat /\ C(j) \in Nat /\ j < C(j)
    BY <1>2, <1>5
  <2> QED BY <2>2, <2>3
<1>11. \E i \in path : At(v, i) = node
  BY <1>2, <1>10
<1>12. IF hole = size THEN path = {size} ELSE path \subseteq 0 .. size - 1
  <2>1. CASE hole = size
    <3>1. \A i \in path : i = size
      BY <1>6, <2>1
    <3> QED BY <1>4, <2>1, <3>1, Zenon
  <2>2. CASE hole # size
    <3>1. ASSUME NEW j \in path PROVE j # size
      <4>1. CASE j = hole
        BY <2>2, <4>1
      <4>2. CASE j # hole
        <5>1. PICK i \in path : i \in G /\ C(i) = j
          BY <1>4, <4>2
        <5> QED BY <1>2, <5>1
      <4> QED BY <4>1, <4>2
    <3> QED BY <1>6, <2>2, <3>1
  <2> QED BY <2>1, <2>2
<1> QED BY <1>2, <1>4, <1>8, <1>9, <1>11, <1>12 DEF LastMoved, v, path, node

\* What is left when the last place is then given up and n is out of the heap
LastDropped(e, v, h, Nodes, n, size) ==
  /\ HeapOf(e, Nodes) /\ Size(e) = size
  /\ \A m \in Nodes : Active(e, m) <=> Active(h, m) /\ m # n
  /\ \A i \in 0 .. size - 1 : At(e, i) = At(v, i)

LEMMA DropLast ==
  ASSUME NEW Nodes, NEW h, HeapOf(h, Nodes), NEW size \in Nat, Size(h) = size + 1,
         NEW n \in Nodes, Active(h, n),
         NEW v, NEW path, LastMoved(v, h, Nodes, h.idx[n], size, path),
         NEW e, e = [events |-> SubSeq(v.events, 1, size), idx |-> [v.idx EXCEPT ![n] = Absent]]
  PROVE  LastDropped(e, v, h, Nodes, n, size)
<1> DEFINE hole == h.idx[n]
<1>1. /\ \A i \in 0 .. size : At(h, i) \in Nodes /\ h.idx[At(h, i)] = i
      /\ \A m \in Nodes : Active(h, m) => h.idx[m] \in 0 .. size /\ At(h, h.idx[m]) = m
  BY HeapFacts, SMTT(30)
<1>2. /\ v.events \in Seq(Nodes) /\ Len(v.events) = size + 1
      /\ v.idx \in [Nodes -> {Absent} \cup Nat]
      /\ path \subseteq 0 .. size
      /\ \A i \in 0 .. size : i \notin path => At(v, i) = At(h, i)
      /\ \A i \in path : v.idx[At(v, i)] = i
      /\ \A m \in Nodes : (\A i \in path : At(v, i) # m) => v.idx[m] = h.idx[m]
  <2>1. (size + 1) - 1 = size
    BY SMTT(30)
  <2> QED BY <2>1 DEF LastMoved, Rewritten, Size
<1>3. /\ hole \in path /\ hole \in 0 .. size
      /\ hole = size => path = {size}
      /\ hole # size => path \subseteq 0 .. size - 1
      /\ \A i \in path : \/ At(v, i) = At(h, size)
                         \/ \E j \in path : j # hole /\ At(v, i) = At(h, j)
      /\ \E i \in path : At(v, i) = At(h, size)
      /\ \A j \in path : j # hole => \E i \in path : At(v, i) = At(h, j)
  BY Zenon DEF LastMoved
<1>4. At(h, hole) = n
  BY <1>1, Zenon
<1>5. /\ e.events \in Seq(Nodes) /\ Len(e.events) = size
      /\ \A j \in 1 .. size : e.events[j] = v.events[j]
  <2>1. size <= Len(v.events)
    BY <1>2, SMTT(30)
  <2>2. SubSeq(v.events, 1, size) \in Seq(Nodes) /\ Len(SubSeq(v.events, 1, size)) = size
        /\ \A j \in 1 .. size : SubSeq(v.events, 1, size)[j] = v.events[j]
    BY <1>2, <2>1, SMTT(30)
  <2> QED BY <2>2, Zenon
<1>6. /\ e.idx \in [Nodes -> {Absent} \cup Nat] /\ e.idx[n] = Absent
      /\ \A m \in Nodes : m # n => e.idx[m] = v.idx[m]
  BY <1>2, Zenon
<1>7. \A i \in 0 .. size - 1 : At(e, i) = At(v, i)
  <2> SUFFICES ASSUME NEW i \in 0 .. size - 1 PROVE At(e, i) = At(v, i)
    BY Zenon
  <2>1. i + 1 \in 1 .. size
    BY SMTT(30)
  <2> QED BY <1>5, <2>1 DEF At
<1> HIDE DEF hole
\* Nodes on the path come from the path, or are the last one.
<1>8. \A i \in path : At(v, i) \in Nodes /\ Active(h, At(v, i)) /\ (i < size => At(v, i) # n)
  <2> SUFFICES ASSUME NEW i \in path
               PROVE  At(v, i) \in Nodes /\ Active(h, At(v, i)) /\ (i < size => At(v, i) # n)
    BY Zenon
  <2>1. i \in 0 .. size
    BY <1>2, Zenon
  <2>2. \E j \in 0 .. size : At(v, i) = At(h, j) /\ (i < size => j # hole)
    <3>1. CASE At(v, i) = At(h, size)
      BY <1>3, <2>1, <3>1, SMTT(30)
    <3>2. CASE \E j \in path : j # hole /\ At(v, i) = At(h, j)
      BY <1>2, <3>2, Zenon
    <3> QED BY <1>3, <3>1, <3>2, Zenon
  <2>3. PICK j \in 0 .. size : At(v, i) = At(h, j) /\ (i < size => j # hole)
    BY <2>2, Zenon
  <2>4. h.idx[n] = hole
    BY Zenon DEF hole
  <2> QED BY <1>1, <2>3, <2>4, SMTT(30) DEF Active, Absent
<1>9. \A i \in path : i = size => At(v, i) = n
  BY <1>3, <1>4, SMTT(30)
<1>10. ASSUME NEW i \in 0 .. size - 1 PROVE At(v, i) # n /\ At(v, i) \in Nodes /\ v.idx[At(v, i)] = i
  <2>1. CASE i \in path
    BY <1>2, <1>8, <2>1, SMTT(30)
  <2>2. CASE i \notin path
    <3>1. At(v, i) = At(h, i) /\ i # hole /\ At(h, i) \in Nodes /\ h.idx[At(h, i)] = i
      BY <1>1, <1>2, <1>3, <2>2, SMTT(30)
    <3>2. At(h, i) # n
      BY <3>1, Zenon DEF hole
    <3>3. ASSUME NEW k \in path PROVE At(v, k) # At(h, i)
      <4>1. CASE At(v, k) = At(h, size)
        BY <1>1, <3>1, <4>1, SMTT(30)
      <4>2. CASE \E j \in path : j # hole /\ At(v, k) = At(h, j)
        BY <1>1, <1>2, <2>2, <3>1, <4>2, SMTT(30)
      <4> QED BY <1>3, <4>1, <4>2, Zenon
    <3> QED BY <1>2, <3>1, <3>2, <3>3, Zenon
  <2> QED BY <2>1, <2>2, Zenon
\* A node of h other than n keeps its place or is on the path.
<1>11. ASSUME NEW m \in Nodes, m # n, \A i \in path : At(v, i) # m, Active(h, m)
       PROVE  /\ v.idx[m] = h.idx[m] /\ h.idx[m] \in 0 .. size - 1 /\ h.idx[m] \notin path
              /\ At(v, h.idx[m]) = m
  <2>1. h.idx[m] \in 0 .. size /\ At(h, h.idx[m]) = m
    BY <1>1, <1>11, Zenon
  <2>2. h.idx[m] \notin path
    BY <1>3, <1>4, <1>11, <2>1, Zenon
  <2>3. h.idx[m] # size
    BY <1>3, <1>11, <2>1, Zenon
  <2> QED BY <1>2, <1>11, <2>1, <2>2, <2>3, SMTT(30)
<1>12. ASSUME NEW m \in Nodes PROVE Active(e, m) <=> Active(h, m) /\ m # n
  <2>1. CASE m = n
    BY <1>6, <2>1, Zenon DEF Active
  <2>2. CASE m # n /\ \E i \in path : At(v, i) = m
    <3>1. PICK i \in path : At(v, i) = m
      BY <2>2, Zenon
    <3>2. e.idx[m] = i /\ i \in Nat /\ Active(h, m)
      BY <1>2, <1>6, <1>8, <2>2, <3>1, SMTT(30)
    <3> QED BY <2>2, <3>2, SMTT(30) DEF Active, Absent
  <2>3. CASE m # n /\ \A i \in path : At(v, i) # m
    <3>1. e.idx[m] = h.idx[m]
      BY <1>2, <1>6, <2>3
    <3> QED BY <2>3, <3>1, Zenon DEF Active
  <2> QED BY <2>1, <2>2, <2>3, Zenon
<1>13. ASSUME NEW m \in Nodes, Active(e, m) PROVE e.idx[m] < size /\ At(e, e.idx[m]) = m
  <2>1. Active(h, m) /\ m # n /\ e.idx[m] = v.idx[m]
    BY <1>6, <1>12, <1>13, Zenon
  <2>2. CASE \E i \in path : At(v, i) = m
    <3>1. PICK i \in path : At(v, i) = m
      BY <2>2, Zenon
    <3>2. i # size /\ i \in 0 .. size /\ v.idx[m] = i
      BY <1>2, <1>9, <2>1, <3>1, Zenon
    <3>3. i \in 0 .. size - 1 /\ i < size
      BY <3>2
    <3>4. At(e, i) = m
      BY <1>7, <3>1, <3>3, Zenon
    <3> QED BY <2>1, <3>2, <3>3, <3>4, Zenon
  <2>3. CASE \A i \in path : At(v, i) # m
    <3>1. v.idx[m] \in 0 .. size - 1 /\ At(v, v.idx[m]) = m
      BY <1>11, <2>1, <2>3
    <3>2. At(e, v.idx[m]) = m
      BY <1>7, <3>1, Zenon
    <3>3. v.idx[m] < size
      BY <3>1
    <3> QED BY <2>1, <3>2, <3>3, Zenon
  <2> QED BY <2>2, <2>3, Zenon
<1>14. ASSUME NEW i \in 0 .. size - 1 PROVE e.idx[At(e, i)] = i
  BY <1>6, <1>7, <1>10, Zenon
<1>15. HeapOf(e, Nodes)
  <2>1. DOMAIN e.idx = Nodes /\ Size(e) = size
    BY <1>5, <1>6 DEF Size
  <2>2. Indexed(e)
    BY <1>13, <1>14, <2>1, ZenonT(30) DEF Indexed
  <2> QED BY <1>5, <1>6, <2>2, Zenon DEF HeapOf
<1> QED BY <1>5, <1>7, <1>12, <1>15, Zenon DEF Size, LastDropped

\* The heap h without the node n
HeapWithout(w, h, Nodes, dl, n) ==
  /\ HeapOf(w, Nodes) /\ Ordered(w, dl)
  /\ \A m \in Nodes : Active(w, m) <=> Active(h, m) /\ m # n

\* min_heap_erase() takes the node out, whichever way the last node moves, and leaves the
\* heap ordered and indexed; a node that is not in the heap changes nothing.
THEOREM EraseSound ==
  ASSUME NEW Nodes, NEW h, HeapOf(h, Nodes), NEW dl \in [Nodes -> Normal], Ordered(h, dl),
         NEW n \in Nodes
  PROVE  HeapWithout(Erase(h, dl, n), h, Nodes, dl, n)
<1> DEFINE w == Erase(h, dl, n)
           size == Size(h) - 1
           last == At(h, size)
           hole == h.idx[n]
           up == hole > 0 /\ TimeGreater(dl, At(h, Parent(hole)), last)
           v == IF up THEN ShiftUp(h, dl, hole, last, Size(h))
                      ELSE ShiftDown(h, dl, hole, last, size)
           path == IF up THEN PathUp(h, dl, hole, last) ELSE PathDown(h, dl, hole, last, size)
<1>1. CASE ~Active(h, n)
  <2>1. w = h
    BY <1>1 DEF Erase
  <2> QED BY <1>1, <2>1 DEF HeapWithout
<1>2. CASE Active(h, n)
  <2>1. w = [events |-> SubSeq(v.events, 1, size), idx |-> [v.idx EXCEPT ![n] = Absent]]
    BY <1>2, Zenon DEF Erase
  <2>2. size \in Nat /\ Size(h) = size + 1 /\ hole \in 0 .. size /\ hole \in Nat
    BY <1>2, HeapFacts, SMTT(30)
  <2>3. up => hole \in 0 .. size - 1 /\ hole \in Above(h, dl, last)
    <3> SUFFICES ASSUME up PROVE hole \in 0 .. size - 1 /\ hole \in Above(h, dl, last)
      BY Zenon
    <3>1. hole \in Above(h, dl, last)
      BY <2>2 DEF Above
    <3>2. hole # size
      <4> SUFFICES ASSUME hole = size PROVE FALSE
        BY Zenon
      <4>1. hole \in 1 .. Size(h) - 1 /\ Parent(hole) \in 0 .. Size(h) - 1 /\ size \in 0 .. Size(h) - 1
        BY <2>2, ParentIs, SMTT(30)
      <4>2. At(h, Parent(hole)) \in Nodes /\ last \in Nodes
        BY <4>1, HeapFacts, Zenon
      <4>3. Value(dl[At(h, Parent(hole))]) <= Value(dl[last])
        BY <4>1, Zenon DEF Ordered
      <4>4. /\ Value(dl[At(h, Parent(hole))]) > Value(dl[last])
            /\ Value(dl[last]) \in Nat /\ Value(dl[At(h, Parent(hole))]) \in Nat
        BY <4>2, GreaterIs, Zenon
      <4> HIDE DEF size, last, hole
      <4> QED BY <4>3, <4>4
    <3> QED BY <2>2, <3>1, <3>2, SMTT(30)
  <2>4. ~up => (hole # 0 => ~TimeGreater(dl, At(h, Parent(hole)), last))
    BY <2>2, SMTT(30)
  <2> HIDE DEF size, hole, up, w
  <2>5. LastMoved(v, h, Nodes, h.idx[n], size, path)
    <3>1. CASE up
      BY <2>2, <2>3, <3>1, ShiftUpMoves, Zenon DEF hole
    <3>2. CASE ~up
      BY <2>2, <3>2, ShiftDownMoves, Zenon DEF hole
    <3> QED BY <3>1, <3>2, Zenon
  <2>6. \A k \in 1 .. size - 1 : Value(dl[At(v, Parent(k))]) <= Value(dl[At(v, k)])
    <3>1. CASE up
      <4>1. \A i \in 0 .. size : At(h, i) \in Nodes /\ h.idx[At(h, i)] = i
        BY <2>2, HeapFacts, SMTT(30)
      <4>2. /\ last \in Nodes /\ hole \in 0 .. Size(h) /\ Size(h) \in Nat /\ hole < Size(h)
            /\ \A i \in 0 .. hole - 1 : At(h, i) # last
        BY <2>2, <2>3, <3>1, <4>1
      <4>3. \/ Size(h) = Size(h) /\ hole \in Above(h, dl, last)
            \/ Size(h) = Size(h) + 1 /\ hole = Size(h)
        BY <2>3, <3>1
      <4>4. Ordered(v, dl)
        BY <3>1, <4>2, <4>3, ShiftUpOrdered, SMTT(30)
      <4>5. Size(v) = size + 1
        BY <2>5, Zenon DEF LastMoved, Rewritten
      <4> HIDE DEF v
      <4> QED BY <2>2, <4>4, <4>5, SMTT(30) DEF Ordered
    <3>2. CASE ~up
      <4>1. v = ShiftDown(h, dl, hole, At(h, size), size)
        BY <3>2
      <4> HIDE DEF v
      <4> QED BY <2>2, <2>4, <3>2, <4>1, ShiftDownOrdered
    <3> QED BY <3>1, <3>2
  <2> HIDE DEF v, path
  <2>7. /\ HeapOf(w, Nodes) /\ Size(w) = size
        /\ \A m \in Nodes : Active(w, m) <=> Active(h, m) /\ m # n
        /\ \A i \in 0 .. size - 1 : At(w, i) = At(v, i)
    <3>1. LastDropped(w, v, h, Nodes, n, size)
      BY <1>2, <2>1, <2>2, <2>5, DropLast, Zenon
    <3> QED BY <3>1 DEF LastDropped
  <2>8. Ordered(w, dl)
    <3> SUFFICES ASSUME NEW k \in 1 .. size - 1
                 PROVE  Value(dl[At(w, Parent(k))]) <= Value(dl[At(w, k)])
      BY <2>7 DEF Ordered
    <3>1. Parent(k) \in 0 .. size - 1 /\ k \in 0 .. size - 1
      BY <2>2, ParentIs
    <3> QED BY <2>6, <2>7, <3>1, Zenon
  <2> QED BY <2>7, <2>8, Zenon DEF w, HeapWithout
<1> QED BY <1>1, <1>2

-----------------------------------------------------------------------------
(* Times.                                                                   *)

\* time_now() splits a number of microseconds exactly.
LEMMA NowExact ==
  ASSUME NEW n \in Nat
  PROVE  TimeNow(n) \in Normal /\ Value(TimeNow(n)) = n
<1>1. PICK q \in Nat : q = n \div USec
  BY UnitsAssumption
<1>2. PICK r \in 0 .. USec - 1 : r = n % USec
  BY UnitsAssumption
<1>3. n = q * USec + r
  BY <1>1, <1>2, UnitsAssumption
<1>4. TimeNow(n) = [sec |-> q, usec |-> r]
  BY <1>1, <1>2 DEF TimeNow
<1> QED BY <1>3, <1>4 DEF Normal, Value

\* A time is zero only when both fields are.
LEMMA ZeroIs ==
  /\ Zero \in Normal /\ Value(Zero) = 0
  /\ \A a \in Normal : Value(a) = 0 <=> a.sec = 0 /\ a.usec = 0
<1>1. Zero \in Normal /\ Value(Zero) = 0
  BY UnitsAssumption DEF Zero, Normal, Value
<1>2. ASSUME NEW a \in Normal PROVE Value(a) = 0 <=> a.sec = 0 /\ a.usec = 0
  <2>1. a.sec \in Nat /\ a.usec \in Nat
    BY UnitsAssumption DEF Normal
  <2>2. CASE a.sec = 0
    BY <2>1, <2>2, UnitsAssumption DEF Value
  <2>3. CASE a.sec # 0
    <3>1. a.sec * USec >= 0 * USec + USec
      BY <2>1, <2>3, LaterSecond
    <3>2. a.sec * USec \in Nat
      BY <2>1, UnitsAssumption, SMTT(30)
    <3> QED BY <2>1, <2>3, <3>1, <3>2, UnitsAssumption DEF Value
  <2> QED BY <2>2, <2>3
<1> QED BY <1>1, <1>2

\* The first node of the heap is due first.
LEMMA TopIsFirst ==
  ASSUME NEW Nodes, NEW h, HeapOf(h, Nodes), NEW d \in [Nodes -> Normal], Ordered(h, d),
         NEW m \in Nodes, Active(h, m)
  PROVE  /\ Size(h) > 0 /\ At(h, 0) \in Nodes /\ Active(h, At(h, 0))
         /\ Value(d[At(h, 0)]) <= Value(d[m])
<1> DEFINE V(i) == Value(d[At(h, i)])
           bad == {i \in 0 .. Size(h) - 1 : ~(V(0) <= V(i))}
<1>1. /\ Size(h) \in Nat /\ h.idx[m] \in 0 .. Size(h) - 1 /\ At(h, h.idx[m]) = m
      /\ \A i \in 0 .. Size(h) - 1 : At(h, i) \in Nodes /\ h.idx[At(h, i)] = i
  BY HeapFacts, Zenon
<1>2. \A i \in 0 .. Size(h) - 1 : V(i) \in Nat
  BY <1>1, ValueType
<1>3. \A i \in 1 .. Size(h) - 1 : V(Parent(i)) <= V(i)
  BY DEF Ordered
<1>4. 0 \in 0 .. Size(h) - 1 /\ Size(h) > 0
  BY <1>1
<1> HIDE DEF V
<1>5. bad = {}
  <2> SUFFICES ASSUME bad # {} PROVE FALSE
    OBVIOUS
  <2>1. bad \subseteq Nat
    OBVIOUS
  <2>2. PICK i \in bad : \A j \in bad : i <= j
    BY <2>1, LeastOf, Zenon
  <2>3. i \in 0 .. Size(h) - 1 /\ ~(V(0) <= V(i))
    BY <2>2
  <2>4. i # 0
    BY <1>2, <1>4, <2>3, SMTT(30)
  <2>5. Parent(i) \in 0 .. Size(h) - 1 /\ ~(i <= Parent(i)) /\ i \in 1 .. Size(h) - 1
    BY <1>1, <2>3, <2>4, ParentIs
  <2>6. V(0) <= V(Parent(i))
    BY <2>2, <2>5, Zenon
  <2> QED BY <1>2, <1>3, <1>4, <2>3, <2>5, <2>6
<1>6. V(0) <= V(h.idx[m])
  BY <1>1, <1>5, Zenon
<1>7. Active(h, At(h, 0))
  BY <1>1, <1>4, SMTT(30) DEF Active, Absent
<1> QED BY <1>1, <1>4, <1>6, <1>7, Zenon DEF V

\* The heap of no nodes
LEMMA EmptyHeapSound ==
  ASSUME NEW Nodes, NEW d
  PROVE  LET h == EmptyHeap(Nodes)
         IN HeapOf(h, Nodes) /\ Ordered(h, d) /\ \A m \in Nodes : ~Active(h, m)
<1> DEFINE h == EmptyHeap(Nodes)
<1>1. h.events = <<>> /\ h.idx = [m \in Nodes |-> Absent] /\ Size(h) = 0
  BY DEF EmptyHeap, Size
<1>2. \A m \in Nodes : ~Active(h, m)
  BY <1>1 DEF Active
<1>3. h.events \in Seq(Nodes) /\ h.idx \in [Nodes -> {Absent} \cup Nat]
  BY <1>1
<1> HIDE DEF h
<1>4. 0 .. Size(h) - 1 = {} /\ 1 .. Size(h) - 1 = {} /\ DOMAIN h.idx = Nodes
  BY <1>1
<1>5. Ordered(h, d) /\ Indexed(h)
  BY <1>2, <1>4, Zenon DEF Ordered, Indexed
<1> QED BY <1>2, <1>3, <1>5 DEF HeapOf, h

\* The deadlines of the nodes in the heap, counted from k microseconds later
Recounted(e, d, h, Nodes, k) ==
  \A m \in Nodes : Active(h, m) => Value(e[m]) = Value(d[m]) - k

\* The order depends on the deadlines of the nodes in the heap only, and not on where
\* they are counted from.
LEMMA OrderKept ==
  ASSUME NEW Nodes, NEW h, HeapOf(h, Nodes), NEW d \in [Nodes -> Normal],
         NEW e \in [Nodes -> Normal], NEW k \in Int, Ordered(h, d), Recounted(e, d, h, Nodes, k)
  PROVE  Ordered(h, e)
<1> SUFFICES ASSUME NEW i \in 1 .. Size(h) - 1
             PROVE  Value(e[At(h, Parent(i))]) <= Value(e[At(h, i)])
  BY Zenon DEF Ordered
<1> DEFINE m == At(h, Parent(i))
           n == At(h, i)
<1>1. \A j \in 0 .. Size(h) - 1 : At(h, j) \in Nodes /\ Active(h, At(h, j))
  BY HeapFacts, Zenon DEF Active, Absent
<1>2. i \in 0 .. Size(h) - 1 /\ Parent(i) \in 0 .. Size(h) - 1
  BY HeapFacts, ParentIs
<1>3. m \in Nodes /\ n \in Nodes /\ Active(h, m) /\ Active(h, n)
  BY <1>1, <1>2
<1>4. Value(d[m]) <= Value(d[n])
  BY DEF Ordered
<1>5. Value(d[m]) \in Nat /\ Value(d[n]) \in Nat
  BY <1>3, ValueType, Zenon
<1>6. Value(e[m]) = Value(d[m]) - k /\ Value(e[n]) = Value(d[n]) - k
  BY <1>3 DEF Recounted
<1> HIDE DEF m, n
<1>7. Value(e[m]) <= Value(e[n])
  BY <1>4, <1>5, <1>6
<1> QED BY <1>7 DEF m, n

\* A sound heap, in the states of the loop
HeapIs(h, d) == HeapOf(h, Timers) /\ Ordered(h, d)

\* min_heap_insert() in the loop
Inserted(w, e, h, t) ==
  HeapIs(w, e) /\ \A m \in Timers : Active(w, m) <=> Active(h, m) \/ m = t

LEMMA InsertIs ==
  ASSUME NEW h, NEW d \in [Timers -> Normal], HeapIs(h, d), NEW t \in Timers, ~Active(h, t),
         NEW v \in Normal, NEW e, e = [d EXCEPT ![t] = v]
  PROVE  Inserted(Insert(h, e, t), e, h, t)
<1>1. e \in [Timers -> Normal]
  OBVIOUS
<1>2. Ordered(h, e)
  <2>1. Recounted(e, d, h, Timers, 0)
    <3> SUFFICES ASSUME NEW m \in Timers, Active(h, m) PROVE Value(e[m]) = Value(d[m]) - 0
      BY DEF Recounted
    <3>1. e[m] = d[m] /\ Value(d[m]) \in Nat
      BY ValueType
    <3> QED BY <3>1
  <2>2. HeapOf(h, Timers) /\ Ordered(h, d) /\ 0 \in Int
    BY DEF HeapIs
  <2> QED BY <1>1, <2>1, <2>2, OrderKept, Zenon
<1>3. HeapOf(h, Timers)
  BY DEF HeapIs
<1>4. HeapWith(Insert(h, e, t), h, Timers, e, t)
  BY <1>1, <1>2, <1>3, InsertSound, Zenon
<1> QED BY <1>4, Zenon DEF HeapIs, Inserted, HeapWith

\* min_heap_erase() in the loop
Erased(w, d, h, t) ==
  HeapIs(w, d) /\ \A m \in Timers : Active(w, m) <=> Active(h, m) /\ m # t

LEMMA EraseIs ==
  ASSUME NEW h, NEW d \in [Timers -> Normal], HeapIs(h, d), NEW t \in Timers
  PROVE  Erased(Erase(h, d, t), d, h, t)
<1>1. HeapWithout(Erase(h, d, t), h, Timers, d, t)
  BY EraseSound DEF HeapIs
<1> QED BY <1>1 DEF HeapIs, Erased, HeapWithout

-----------------------------------------------------------------------------
(* The heap alone, under any sequence of operations: HeapMachine.           *)

\* Every operation leaves the heap ordered and indexed, with normal deadlines: those of the
\* nodes that are not in the heap are never read, so they may be anything.
HeapInv == due \in [Timers -> Normal] /\ HeapIs(heap, due)

\* The deadlines HeapMachine gives are normal.
LEMMA TimesNormal == Times \subseteq Normal
<1> SUFFICES ASSUME NEW n \in 0 .. MaxClock PROVE TimeNow(n) \in Normal
  BY DEF Times
<1>1. n \in Nat
  OBVIOUS
<1> QED BY <1>1, NowExact

\* timer_node_add() of a node that is not in the heap
LEMMA AddKeepsHeap ==
  ASSUME HeapInv, NEW n \in Timers, NEW t \in Times, TimerNodeAdd(n, t)
  PROVE  HeapInv'
<1>1. ~Active(heap, n) /\ due' = [due EXCEPT ![n] = t] /\ heap' = Insert(heap, due', n)
  BY DEF TimerNodeAdd
<1>2. t \in Normal /\ due \in [Timers -> Normal] /\ HeapIs(heap, due)
  BY TimesNormal DEF HeapInv
<1>3. Inserted(Insert(heap, due', n), due', heap, n)
  BY <1>1, <1>2, InsertIs, Zenon
<1> QED BY <1>1, <1>2, <1>3 DEF HeapInv, Inserted

\* timer_node_del(): the deadline of the node that was taken out does not matter.
LEMMA DelKeepsHeap ==
  ASSUME HeapInv, NEW n \in Timers, TimerNodeDel(n)
  PROVE  HeapInv'
<1>1. heap' = Erase(heap, due, n) /\ due' = [due EXCEPT ![n] = Zero]
  BY DEF TimerNodeDel
<1>2. due \in [Timers -> Normal] /\ HeapIs(heap, due) /\ due' \in [Timers -> Normal]
  BY <1>1, ZeroIs DEF HeapInv
<1>3. Erased(heap', due, heap, n)
  BY <1>1, <1>2, EraseIs
<1>4. HeapOf(heap', Timers) /\ Ordered(heap', due) /\ ~Active(heap', n) /\ 0 \in Int
  BY <1>3 DEF Erased, HeapIs
<1>5. Recounted(due', due, heap', Timers, 0)
  <2> SUFFICES ASSUME NEW m \in Timers, Active(heap', m) PROVE Value(due'[m]) = Value(due[m]) - 0
    BY DEF Recounted
  <2>1. due'[m] = due[m] /\ Value(due[m]) \in Nat
    BY <1>1, <1>2, <1>4, ValueType
  <2> QED BY <2>1
<1>6. Ordered(heap', due')
  BY <1>2, <1>4, <1>5, OrderKept, Zenon
<1> QED BY <1>2, <1>4, <1>6 DEF HeapInv, HeapIs

\* timers_adjust_backward() moves all the deadlines in the heap by the same time.
LEMMA AdjustKeepsHeap ==
  ASSUME HeapInv, NEW off \in Times, TimersAdjustBackward(off)
  PROVE  HeapInv'
<1>1. /\ \A n \in Timers : Active(heap, n) => TimeCmp(due[n], off) >= 0
      /\ due' = [n \in Timers |-> IF Active(heap, n) THEN TimeSub(due[n], off) ELSE due[n]]
      /\ heap' = heap
  BY DEF TimersAdjustBackward
<1>2. off \in Normal /\ due \in [Timers -> Normal] /\ HeapIs(heap, due) /\ Value(off) \in Int
  BY TimesNormal, ValueType DEF HeapInv
<1>3. \A n \in Timers : Active(heap, n) =>
        TimeSub(due[n], off) \in Normal /\ Value(TimeSub(due[n], off)) = Value(due[n]) - Value(off)
  BY <1>1, <1>2, SubExact
<1>4. due' \in [Timers -> Normal]
  BY <1>1, <1>2, <1>3
<1>5. Recounted(due', due, heap, Timers, Value(off))
  BY <1>1, <1>2, <1>3 DEF Recounted
<1>6. Ordered(heap, due')
  BY <1>2, <1>4, <1>5, OrderKept DEF HeapIs
<1> QED BY <1>1, <1>2, <1>4, <1>6 DEF HeapInv, HeapIs

\* The heap stays ordered and indexed under any sequence of additions, removals and
\* adjustments, for any number of nodes.
THEOREM HeapInvariance == HeapSpec => []HeapInv
<1>1. HeapInit => HeapInv
  BY EmptyHeapSound, ZeroIs DEF HeapInit, HeapInv, HeapIs
<1>2. HeapInv /\ [HeapNext]_nodeVars => HeapInv'
  <2> SUFFICES ASSUME HeapInv, [HeapNext]_nodeVars PROVE HeapInv'
    OBVIOUS
  <2>1. CASE UNCHANGED nodeVars
    BY <2>1 DEF nodeVars, HeapInv
  <2> QED BY <2>1, AddKeepsHeap, DelKeepsHeap, AdjustKeepsHeap DEF HeapNext
<1> QED BY <1>1, <1>2, PTL DEF HeapSpec

\* Erasing a node from any place leaves the heap ordered: __time_greater() never holds of a
\* parent and its child in heap->events.
THEOREM HeapStaysOrdered == HeapSpec => []HeapOrder
<1>1. HeapInv => HeapOrder
  BY DEF HeapInv, HeapIs, HeapOrder
<1> QED BY <1>1, HeapInvariance, PTL

\* min_heap_idx of every node is its place, so that min_heap_erase() takes out the node it is
\* given.
THEOREM HeapStaysIndexed == HeapSpec => []HeapIndex
<1>1. HeapInv => HeapIndex
  BY DEF HeapInv, HeapIs, HeapOf, HeapIndex
<1> QED BY <1>1, HeapInvariance, PTL
=============================================================================

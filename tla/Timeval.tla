------------------------------ MODULE Timeval --------------------------------
(***************************************************************************)
(* Time values: time_add(), time_sub() and time_cmp() of nanoev_misc.c,    *)
(* timers_timeout() of nanoev_timer.c and the conversion to milliseconds   *)
(* of epoll_poller_poll().                                                 *)
(***************************************************************************)
EXTENDS Integers

CONSTANTS
  USec,       \* microseconds in a second (1000000)
  UMilli,     \* microseconds in a millisecond (1000)
  IntLimit    \* an int is one of -IntLimit .. IntLimit - 1 (2^31)

ASSUME UnitsAssumption ==
  /\ USec \in Nat \ {0} /\ UMilli \in Nat \ {0}
  /\ USec % UMilli = 0
  /\ IntLimit \in Nat \ {0}

\* struct timeval as nanoev_now() and nanoev_timer_add() let it through
Normal == [sec : Nat, usec : 0 .. USec - 1]

\* The time a value stands for, in microseconds.
Value(t) == t.sec * USec + t.usec

Zero == [sec |-> 0, usec |-> 0]

\* time_now() when the system clock stands at n microseconds
TimeNow(n) == [sec |-> n \div USec, usec |-> n % USec]

-----------------------------------------------------------------------------
\* time_add()
TimeAdd(t, add) ==
  LET usec == t.usec + add.usec
  IN IF usec >= USec
       THEN [sec |-> t.sec + add.sec + 1, usec |-> usec - USec]
       ELSE [sec |-> t.sec + add.sec, usec |-> usec]

\* time_sub()
TimeSub(t, sub) ==
  IF sub.usec > t.usec
    THEN [sec |-> t.sec - sub.sec - 1, usec |-> t.usec + USec - sub.usec]
    ELSE [sec |-> t.sec - sub.sec, usec |-> t.usec - sub.usec]

\* Mutant: seconds that compare equal hide the microseconds.
TimeCmpSeconds(tv0, tv1) ==
  CASE tv0.sec > tv1.sec -> 1
    [] tv0.sec < tv1.sec -> -1
    [] OTHER -> 0

\* time_cmp()
TimeCmp(tv0, tv1) ==
  CASE tv0.sec > tv1.sec -> 1
    [] tv0.sec < tv1.sec -> -1
    [] tv0.sec = tv1.sec /\ tv0.usec > tv1.usec -> 1
    [] tv0.sec = tv1.sec /\ tv0.usec < tv1.usec -> -1
    [] OTHER -> 0

\* timers_timeout() for a heap that is not empty
TimersTimeout(top, now) ==
  IF TimeCmp(top, now) <= 0 THEN Zero ELSE TimeSub(top, now)

\* What an int holds after the assignment of a long
ToInt(n) == ((n + IntLimit) % (2 * IntLimit)) - IntLimit

\* A time value in whole milliseconds
Milliseconds(t) == t.sec * (USec \div UMilli) + (t.usec \div UMilli)

\* Mutant: milliseconds rounded up.
PollMillisecondsUp(t) == ToInt(Milliseconds(t) + 1)

\* timeout_in_ms of epoll_poller_poll() for a timer that is armed
PollMilliseconds(t) == ToInt(Milliseconds(t))
=============================================================================

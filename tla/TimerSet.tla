------------------------------ MODULE TimerSet -------------------------------
(***************************************************************************)
(* What the timers of a loop promise: a set of armed timers, of which the  *)
(* loop only ever runs one that is due and that no armed timer precedes.   *)
(***************************************************************************)
EXTENDS Integers

CONSTANTS
  Timers,     \* timers
  Delays,     \* what timers are armed with
  NotArmed,   \* the deadline of a timer that is not armed
  None        \* no timer is running

VARIABLES
  due,        \* the deadline of each timer
  now,        \* the time of the loop
  running,    \* the timer whose callback is running
  inRun       \* the loop is being run

vars == <<due, now, running, inRun>>

Armed == {t \in Timers : due[t] # NotArmed}

Init ==
  /\ due = [t \in Timers |-> NotArmed]
  /\ now = 0
  /\ running = None
  /\ inRun = FALSE

\* A delay from the time of the loop, or from any time before the first run
SetDue(t) ==
  \E d \in Delays :
    /\ due' = [due EXCEPT ![t] = due'[t]]
    /\ IF now # 0 THEN due'[t] = now + d ELSE due'[t] >= d

Arm(t) ==
  /\ t \notin Armed
  /\ SetDue(t)
  /\ UNCHANGED <<now, running, inRun>>

Disarm(t) ==
  /\ t \in Armed
  /\ due' = [due EXCEPT ![t] = NotArmed]
  /\ UNCHANGED <<now, running, inRun>>

\* The callback of a timer begins, which disarms it.
Fire(t) ==
  /\ inRun
  /\ running = None
  /\ t \in Armed
  /\ due[t] <= now
  /\ \A u \in Armed : due[t] <= due[u]
  /\ due' = [due EXCEPT ![t] = NotArmed]
  /\ running' = t
  /\ UNCHANGED <<now, inRun>>

\* The callback returns; a repeating timer is armed again.
Return ==
  /\ running # None
  /\ \/ UNCHANGED due
     \/ /\ running \notin Armed
        /\ SetDue(running)
  /\ running' = None
  /\ UNCHANGED <<now, inRun>>

\* Time advances.
Advance ==
  /\ inRun
  /\ running = None
  /\ now' > now
  /\ UNCHANGED <<due, running, inRun>>

\* The clock is set back during a run: what is left to wait for stays the same.
SetBack ==
  /\ inRun
  /\ running = None
  /\ now' < now
  /\ due' = [t \in Timers |-> IF t \in Armed THEN due[t] - (now - now') ELSE NotArmed]
  /\ UNCHANGED <<running, inRun>>

\* A run begins, at any time: deadlines are kept even if the clock was set back
\* since the last run.
Begin ==
  /\ ~inRun
  /\ inRun' = TRUE
  /\ now' \in Nat
  /\ UNCHANGED <<due, running>>

End ==
  /\ inRun
  /\ running = None
  /\ inRun' = FALSE
  /\ UNCHANGED <<due, now, running>>

Next ==
  \/ \E t \in Timers : Arm(t) \/ Disarm(t) \/ Fire(t)
  \/ Return \/ Advance \/ SetBack \/ Begin \/ End

Spec == Init /\ [][Next]_vars
=============================================================================

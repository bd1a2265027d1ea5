-------------------------------- MODULE Loop ---------------------------------
(***************************************************************************)
(* nanoev_loop_run() and nanoev_loop_break() of nanoev_loop.c, with the    *)
(* wakeup of the poller (epoll_poller_notify(), epoll_poller_poll()).      *)
(*                                                                         *)
(* Any thread may ask the loop to stop.  is_break is only touched under    *)
(* loop->lock, but the loop reads the notification without it.  The loop   *)
(* may be run again after it has returned, with whatever the last run left *)
(* in the eventfd.                                                         *)
(***************************************************************************)

CONSTANTS
  Breakers,   \* threads other than the loop's that call nanoev_loop_break()
  Nobody      \* nobody holds the lock

ASSUME NobodyAssumption == Nobody \notin Breakers

VARIABLES
  is_break,   \* loop->is_break
  loopLock,   \* holder of loop->lock
  bpc,        \* where each thread is in nanoev_loop_break()
  notified,   \* the counter of the eventfd is not zero
  rpc         \* "out", "body", "poll" or "batch"

breakVars == <<is_break, loopLock, bpc, notified, rpc>>

LoopTypeOK ==
  /\ is_break \in BOOLEAN
  /\ loopLock \in Breakers \cup {Nobody}
  /\ bpc \in [Breakers -> {"idle", "called", "set"}]
  /\ notified \in BOOLEAN
  /\ rpc \in {"out", "body", "poll", "batch"}

LoopInit ==
  /\ is_break = FALSE
  /\ loopLock = Nobody
  /\ bpc = [b \in Breakers |-> "idle"]
  /\ notified = FALSE
  /\ rpc = "out"

-----------------------------------------------------------------------------
(* nanoev_loop_break() in another thread.                                   *)

BreakCall(b) ==
  /\ bpc[b] = "idle"
  /\ bpc' = [bpc EXCEPT ![b] = "called"]
  /\ UNCHANGED <<is_break, loopLock, notified, rpc>>

\* mutex_lock(), is_break = 1; or nothing, when is_break is set
BreakSet(b) ==
  /\ bpc[b] = "called"
  /\ loopLock = Nobody
  /\ IF is_break
       THEN bpc' = [bpc EXCEPT ![b] = "idle"] /\ UNCHANGED <<is_break, loopLock>>
       ELSE bpc' = [bpc EXCEPT ![b] = "set"] /\ is_break' = TRUE /\ loopLock' = b
  /\ UNCHANGED <<notified, rpc>>

\* Mutant: the eventfd is written only while the loop waits in the poller.
BreakNotifyWaiting(b) ==
  /\ bpc[b] = "set"
  /\ notified' = (notified \/ rpc = "poll")
  /\ loopLock' = Nobody
  /\ bpc' = [bpc EXCEPT ![b] = "idle"]
  /\ UNCHANGED <<is_break, rpc>>

\* poller_notify(), then mutex_unlock()
BreakNotify(b) ==
  /\ bpc[b] = "set"
  /\ notified' = TRUE
  /\ loopLock' = Nobody
  /\ bpc' = [bpc EXCEPT ![b] = "idle"]
  /\ UNCHANGED <<is_break, rpc>>

-----------------------------------------------------------------------------
(* The loop thread.                                                         *)

\* nanoev_loop_run() up to its loop
RunBegins ==
  /\ rpc = "out"
  /\ loopLock = Nobody
  /\ is_break' = FALSE
  /\ rpc' = "body"
  /\ UNCHANGED <<loopLock, bpc, notified>>

\* nanoev_loop_break() in a callback of a timer or of an event
BreakInCallback ==
  /\ rpc \in {"body", "batch"}
  /\ loopLock = Nobody
  /\ ~is_break
  /\ is_break' = TRUE
  /\ notified' = TRUE
  /\ UNCHANGED <<loopLock, bpc, rpc>>

\* Mutant: is_break is reset on every turn of the loop.
EnterPollResets ==
  /\ rpc = "body"
  /\ loopLock = Nobody
  /\ is_break' = FALSE
  /\ rpc' = "poll"
  /\ UNCHANGED <<loopLock, bpc, notified>>

\* The time, the timers and the endgame list are done.
EnterPoll ==
  /\ rpc = "body"
  /\ rpc' = "poll"
  /\ UNCHANGED <<is_break, loopLock, bpc, notified>>

\* epoll_wait() reports the eventfd, which is read.
PollNotified ==
  /\ rpc = "poll"
  /\ notified
  /\ notified' = FALSE
  /\ rpc' = "batch"
  /\ UNCHANGED <<is_break, loopLock, bpc>>

\* The poller returns for another reason and the eventfd is not read: there
\* were submitted completions, 256 other descriptors are ready, the time is
\* up, or a signal came.
PollOther ==
  /\ rpc = "poll"
  /\ rpc' = "batch"
  /\ UNCHANGED <<is_break, loopLock, bpc, notified>>

\* The poller fails: nanoev_loop_run() returns NANOEV_ERROR_FAIL.
PollFails ==
  /\ rpc = "poll"
  /\ rpc' = "out"
  /\ UNCHANGED <<is_break, loopLock, bpc, notified>>

\* events[] has been processed: check is_break.
CheckBreak ==
  /\ rpc = "batch"
  /\ loopLock = Nobody
  /\ rpc' = IF is_break THEN "out" ELSE "body"
  /\ UNCHANGED <<is_break, loopLock, bpc, notified>>

-----------------------------------------------------------------------------
RunStep == EnterPoll \/ PollNotified \/ CheckBreak

LoopNext ==
  \/ \E b \in Breakers : BreakCall(b) \/ BreakSet(b) \/ BreakNotify(b)
  \/ RunBegins \/ BreakInCallback \/ RunStep \/ PollOther \/ PollFails

LoopSpec == LoopInit /\ [][LoopNext]_breakVars

-----------------------------------------------------------------------------
\* The wakeup is not lost: while the loop is on its way into the poller or waits
\* in it with is_break set, the eventfd is readable or is about to be written.
BreakIsNoticed ==
  rpc \in {"body", "poll"} /\ is_break => notified \/ loopLock # Nobody

\* nanoev_loop_break() stops a running loop, wherever the loop is when it is
\* called and although nothing else happens.
BreakStopsLoop ==
  (is_break \/ \E b \in Breakers : bpc[b] = "called") /\ rpc # "out" ~> rpc = "out"
=============================================================================

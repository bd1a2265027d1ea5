------------------------------- MODULE Poller --------------------------------
(***************************************************************************)
(* The loop together with its poller: nanoev_loop_run() and                *)
(* nanoev_loop_break() (module Loop) on top of the array of submitted      *)
(* completions (module FakeEvents).  The two meet in epoll_poller_poll(),  *)
(* which returns submitted completions without asking the kernel, so that  *)
(* the notification of nanoev_loop_break() stays in the eventfd meanwhile. *)
(***************************************************************************)
EXTENDS Loop, FakeEvents

pollerVars == <<breakVars, fakeVars>>

PollerInit == LoopInit /\ FakeInit

\* submit_fake_io() in the loop thread: in a callback or outside
\* nanoev_loop_run()
Submit(e) ==
  /\ rpc \in {"out", "body", "batch"}
  /\ SubmitInPlace(e) \/ SubmitGrow(e)
  /\ UNCHANGED breakVars

\* Mutant: submitted completions are returned only when epoll_wait() has come
\* back with the eventfd.
PollSubmittedAfterWait ==
  /\ notified
  /\ FakePoll
  /\ PollOther

\* epoll_poller_poll() that has completions to return: the eventfd is not read.
PollSubmitted ==
  /\ FakePoll
  /\ PollOther

\* epoll_poller_poll() that asks the kernel
AskKernel(Answer) ==
  /\ events_count = 0
  /\ Answer
  /\ UNCHANGED fakeVars

Woken == AskKernel(PollNotified)
OtherReport == AskKernel(PollOther \/ PollFails)

\* The steps of the loop that do not call the poller
Turn == (EnterPoll \/ CheckBreak) /\ UNCHANGED fakeVars

OtherThread(b) ==
  /\ BreakCall(b) \/ BreakSet(b) \/ BreakNotify(b)
  /\ UNCHANGED fakeVars

PollerNext ==
  \/ \E b \in Breakers : OtherThread(b)
  \/ \E e \in Events : Submit(e)
  \/ (RunBegins \/ BreakInCallback) /\ UNCHANGED fakeVars
  \/ Turn \/ PollSubmitted \/ Woken \/ OtherReport

\* The loop thread and a thread inside nanoev_loop_break() go on.  Nothing but the
\* notification is guaranteed to end a wait in the kernel.
PollerSpec ==
  /\ PollerInit /\ [][PollerNext]_pollerVars
  /\ WF_pollerVars(Turn \/ PollSubmitted \/ Woken)
  /\ \A b \in Breakers :
       WF_pollerVars((BreakSet(b) \/ BreakNotify(b)) /\ UNCHANGED fakeVars)

-----------------------------------------------------------------------------
Among(s, e) == \E i \in 1 .. Len(s) : s[i] = e

\* A completion that is submitted is returned while the loop runs, although the
\* kernel has nothing to report and other completions keep being submitted:
\* submit_fake_io() needs no wakeup of its own.
SubmittedIsReturned ==
  \A e \in Events :
    Among(queue, e) /\ rpc # "out" ~> Among(returned, e) \/ rpc = "out"
=============================================================================

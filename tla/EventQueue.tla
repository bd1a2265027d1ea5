----------------------------- MODULE EventQueue ------------------------------
(***************************************************************************)
(* What poller_submit() promises: completions that need no system call are *)
(* handed to the loop in the order of submission, each once, a batch at a  *)
(* time.                                                                   *)
(***************************************************************************)
EXTENDS Sequences, Integers

CONSTANTS
  Events,     \* completions
  MaxEvents   \* the most a poll returns

VARIABLES
  queue,      \* submitted, not yet returned by a poll
  returned    \* what the last poll returned

vars == <<queue, returned>>

Init ==
  /\ queue = <<>>
  /\ returned = <<>>

Submit(e) ==
  /\ queue' = Append(queue, e)
  /\ UNCHANGED returned

BatchSize == IF Len(queue) > MaxEvents THEN MaxEvents ELSE Len(queue)

Poll ==
  /\ Len(queue) > 0
  /\ returned' = SubSeq(queue, 1, BatchSize)
  /\ queue' = SubSeq(queue, BatchSize + 1, Len(queue))

Next == Poll \/ \E e \in Events : Submit(e)

Spec == Init /\ [][Next]_vars
=============================================================================

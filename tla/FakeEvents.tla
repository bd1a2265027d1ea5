----------------------------- MODULE FakeEvents ------------------------------
(***************************************************************************)
(* The array of submitted completions in the epoll and kqueue pollers:     *)
(* epoll_poller_submit() and the part of epoll_poller_poll() that returns  *)
(* what was submitted.  kqueue_poller_submit() and kqueue_poller_poll()    *)
(* are the same code.                                                      *)
(***************************************************************************)
EXTENDS Integers, Sequences

CONSTANTS
  Events,       \* completions: a proactor with its io_context
  Junk,         \* memory that has not been written
  Chunk,        \* what submit grows the array by (128)
  MaxEvents,    \* max_events (256)
  MaxCapacity   \* memory is out beyond this

ASSUME JunkAssumption == Junk \notin Events
ASSUME BoundsAssumption ==
  /\ Chunk \in Nat \ {0} /\ MaxEvents \in Nat \ {0} /\ MaxCapacity \in Nat

VARIABLES
  events,           \* _p->events
  events_start,     \* _p->events_start
  events_count,     \* _p->events_count
  events_capacity,  \* _p->events_capacity
  returned          \* what the last poll of this kind left in events[] of the loop

fakeVars == <<events, events_start, events_count, events_capacity, returned>>

FakeTypeOK ==
  /\ events_start \in Nat
  /\ events_count \in Nat
  /\ events_capacity \in 0 .. MaxCapacity
  /\ events \in [0 .. events_capacity - 1 -> Events \cup {Junk}]
  /\ returned \in Seq(Events)

FakeInit ==
  /\ events = [i \in 0 .. -1 |-> Junk]
  /\ events_start = 0
  /\ events_count = 0
  /\ events_capacity = 0
  /\ returned = <<>>

\* memmove() to the front, when the last place of the array is taken
MustMove == events_start + events_count = events_capacity /\ events_start > 0

\* Mutant: one completion too few is moved.
MovedShort ==
  [i \in 0 .. events_capacity - 1 |->
     IF MustMove /\ i < events_count - 1 THEN events[events_start + i] ELSE events[i]]

Moved ==
  [i \in 0 .. events_capacity - 1 |->
     IF MustMove /\ i < events_count THEN events[events_start + i] ELSE events[i]]

\* epoll_poller_submit() with room in the array
SubmitInPlace(e) ==
  /\ events_count < events_capacity
  /\ LET start == IF MustMove THEN 0 ELSE events_start
     IN /\ events' = [Moved EXCEPT ![start + events_count] = e]
        /\ events_start' = start
  /\ events_count' = events_count + 1
  /\ UNCHANGED <<events_capacity, returned>>

\* epoll_poller_submit() that finds the array full (events_start is 0 then) and
\* gets more memory
SubmitGrow(e) ==
  /\ events_count = events_capacity
  /\ events_capacity + Chunk <= MaxCapacity
  /\ events_capacity' = events_capacity + Chunk
  /\ events' = [i \in 0 .. events_capacity + Chunk - 1 |->
                  CASE i < events_count -> events[i]
                    [] i = events_count -> e
                    [] OTHER -> Junk]
  /\ events_count' = events_count + 1
  /\ UNCHANGED <<events_start, returned>>

BatchSize == IF events_count > MaxEvents THEN MaxEvents ELSE events_count

\* Mutant: a poll that does not rewind the array it has emptied.
PollNoRewind ==
  /\ events_count > 0
  /\ returned' = [i \in 1 .. BatchSize |-> events[events_start + i - 1]]
  /\ events_count' = events_count - BatchSize
  /\ events_start' = events_start + BatchSize
  /\ UNCHANGED <<events, events_capacity>>

\* epoll_poller_poll() while completions are waiting
FakePoll ==
  /\ events_count > 0
  /\ returned' = [i \in 1 .. BatchSize |-> events[events_start + i - 1]]
  /\ events_count' = events_count - BatchSize
  /\ events_start' = IF events_count > BatchSize THEN events_start + BatchSize ELSE 0
  /\ UNCHANGED <<events, events_capacity>>

FakeNext == FakePoll \/ \E e \in Events : SubmitInPlace(e) \/ SubmitGrow(e)

FakeSpec == FakeInit /\ [][FakeNext]_fakeVars

-----------------------------------------------------------------------------
\* The places in use are within the array, and those before them are counted
\* only while there is something after them: submit never writes outside the
\* array and an empty queue starts at its front.
WithinArray ==
  /\ events_start + events_count <= events_capacity
  /\ events_count = 0 => events_start = 0

\* The array is a FIFO queue: completions are returned once, in the order of
\* submission, through all moves and reallocations.
queue == [i \in 1 .. events_count |-> events[events_start + i - 1]]
EQ == INSTANCE EventQueue
ImplementsEventQueue == EQ!Spec
=============================================================================

# A TLA+ model of nanoev

nanoev is a small event library in C: one loop per thread, timers, TCP, UDP and
DNS events on it, and async events by which other threads wake it. This
directory models it in TLA+, checks the models with TLC and proves some of what
is checked with TLAPS. TCP and UDP events are modelled on the three pollers of the
library (epoll, kqueue, IOCP), the other parts in their unix variant; the
benchmark programs beside the library are modelled too. Paths below are relative
to `src/`.

## Inventory

| Part | Source | State | Operations | Module |
|---|---|---|---|---|
| loop | `source/nanoev_loop.c` | `is_break`, `lock`, `now`, the endgame list | `nanoev_loop_run`, `_break`, `_free`, `_now` | Loop, Poller; the turn of the loop in every event module |
| async events | `source/nanoev_async.c` | `async_sent`, the pipe, `lock`, DELETED | `async_new`, `_start`, `_send`, `async_free`, the callback | Async |
| timers | `source/nanoev_timer.c` | the heap, `min_heap_idx`, `timeout`, `after`, `repeat`, INVOKING_CALLBACK, DELETED | `timer_new`, `_add`, `_del`, `timer_free`, `timers_process`, `timers_adjust_backward` | TimerHeap, HeapMachine, Timers, TimerSet |
| time values | `source/nanoev_misc.c` | none | `time_add`, `time_sub`, `time_cmp`, and `timers_timeout` | Timeval, used by TimerHeap and Timers |
| epoll poller | `source/nanoev_poller_epoll.c` | `events[]` with start, count and capacity; the eventfd; what the kernel watches | `modify`, `poll`, `submit`, `notify` | FakeEvents, EventQueue, Loop, Poller, Sockets |
| TCP events | `source/nanoev_tcp.c` | flags, callbacks, contexts, two timeouts, `socket_accept`, `reactor_events` | connect, listen, accept, read, write, free, two timeouts, completion | Tcp, Sockets, SocketOps |
| UDP events | `source/nanoev_udp.c` | flags, callbacks, contexts, `reactor_events` | bind, connect, read, write, free, completion | Udp, Sockets, SocketOps |
| DNS events | `source/nanoev_dns.c` | `pending`, `completed`, `host`, DELETED; the queue, the workers, `stopping` | resolve, free, `dns_on_async`, `dns_worker`, `dns_init`, `dns_term` | Dns |
| kqueue poller | `source/nanoev_poller_kqueue.c` | as epoll; one filter for each direction | as epoll | FakeEvents (`submit` is the same code), Sockets (`modify`, `poll`) |
| IOCP poller | `source/nanoev_poller_iocp.c` | operations in flight, the port | `modify`, `poll` | Sockets |
| benchmark | `bench/tcp_client.c`, `bench/tcp_server.c`, `bench/protocol.h` | connections with phase, buffer and progress; the list of the server; counts | set-up, callbacks, stop timer, SIGINT, end | BenchNet, BenchClient, BenchServer, Bench |
| Windows layer, addresses, socket options, statistics of the benchmark | | | | not modelled |

How they interact. A turn of the loop brings the time up to date, runs the
timers that are due, releases events whose deletion was put off (the endgame
list), polls, and runs the callback of every completion that the poll returned.
The application runs in the callbacks and may start operations on any event and
free any event there. Operations that succeed at once are queued in the poller
(`submit_fake_io`) and come back from the next poll. TCP timeouts are nodes of
the timer heap. A DNS request is carried to a worker by a queue and back by an
async event. The benchmark client and server are two processes, each with a loop
of its own, and TCP connections between them.

What is hard here:

- threads: senders of async events and callers of `nanoev_loop_break` against a
  loop that reads pipe and eventfd without their locks; DNS workers against an
  application that frees their event;
- callbacks: anything may be freed, added or deleted in the middle of
  `timers_process`, of a batch and of the endgame list;
- two ways of ending an operation (completion and timeout) and a deferred
  release that has to wait for both; on Windows a third, the late completion of an
  operation that has timed out or whose event was freed;
- an array queue with a moving window, a heap with back pointers, carries and
  borrows, and an `int` of milliseconds.

## Modules

**Async.** A send is three steps (lock, write the byte, set `async_sent` and
unlock), because the loop reads the pipe without the lock. What the loop thread
does under the lock is one step. A sender posts a work item before each send;
`on_async` takes all items posted so far, which is the use that coalescing has to
be harmless for. `EndgameFree` is the second call of `async_free`, from the
endgame list, with what happens there in a build without assertions.

**TimerHeap, HeapMachine, Timers, TimerSet.** TimerHeap has the heap operations
as operators on a record of an array and the back pointers. HeapMachine runs them
in any order. Timers is the timer events under the loop; `Fire` takes the top off
the heap, the application acts, `CallbackReturn` is the rest of
`timer_event_node_callback`. The clock may be set back at any time. TimerSet is
the abstract specification: timers fire in order of their deadlines, not before
them, and setting the clock back during a run changes no wait. Timers implements
it with the heap mapped to the set of armed deadlines. Timers computes with the
time values of the code and TimerSet with integers, so the refinement also says
that carries, borrows and comparisons are right wherever the loop uses them.

**Timeval.** `time_add`, `time_sub`, `time_cmp`, `timers_timeout` and the two
conversions on the way to `epoll_wait`, as operators on records of seconds and
microseconds. `Value` is the number of microseconds that a record stands for.

**FakeEvents, EventQueue.** The array of submitted completions, with its window,
moves and reallocations, and the FIFO queue it implements.

**Loop.** `is_break`, its lock and the eventfd. The loop may be run again and find
the notification of an earlier run.

**Poller.** Loop and FakeEvents together, as `epoll_poller_poll` joins them:
submitted completions are returned without asking the kernel, and the eventfd is
not read meanwhile. Loop and FakeEvents stay modules of their own because each
is proved on its own; the run is of the composition.

**Dns.** One pool for all loops of the process, with its queue and condition
variable (with spurious wakeups), the steps of a worker between its locks,
requests, deferred destruction, and `dns_term` with `dns_init` after it. The
first request starts the workers. When a thread cannot be created, those that
were are told to stop (`StartFails`) and joined (`StartFailed`), and requests of
other loops may come in between. The async event of a request is the flag
`signal`, which Async justifies: one wakeup per send, and none lost.

**Sockets.** What TCP and UDP events share: `struct nanoev_proactor`, the turn of
the loop, the endgame list, the batch and the pollers. The variable `backend` is
the build, and one run covers the three. `kernel` is what the kernel watches
the socket for, as opposed to `reactor_events`, which is what the library
believes; on IOCP it is the operations in flight. `CanRegister` and `Registered`
are the three `modify` functions, `Reports` what `poll` makes of the readiness
of sockets (epoll: one report for each socket, in which `EPOLLIN` hides
`EPOLLOUT`; kqueue: one for each direction, in any order), `PollQueue` the queue
of submitted completions or of packets. A socket that is closed takes its
registrations with it, while an operation in flight completes later with an
error (`KernelDone`).

**Tcp, Udp, SocketOps.** The operations, timeouts and completions of each type.
SocketOps is what the API promises of both: one callback for each operation
accepted, one pending operation per direction, none for a freed event. A callback
is the last thing the library does in a handler, so what the application does in
it is the next step. `alloc_userdata`, which `tcp_proactor_callback` calls before it is
done with an accept, is the exception: it is taken to allocate and release its data
only, and what a call of the library from it would do is not modelled.

**BenchNet, BenchClient, BenchServer, Bench.** BenchNet has the frames of
`protocol.h`, byte by byte since their integrity is a property, and the TCP
connections: bytes in order, in pieces of any size. BenchClient and BenchServer
are the two programs, with an action for each callback, on top of what SocketOps
promises. The system takes the bytes of a write before the callback of the write
is made (`ClientSends`, `ServerSends`), so an answer may overtake it. Bench joins
the two with a network that may break a connection.

Operators whose comment begins with "Mutant" are changed forms of the definition
that follows them. Nothing uses them; replacing the definition by one makes the
property that `PROJECT.json` pairs with it fail.

## What the runs show

`PROJECT.json` lists the runs. Those that pass:

| Run | Question |
|---|---|
| async | do `async_sent` and the pipe agree in every interleaving; is any posted item left behind; is released memory called back |
| heap | is the heap in order, and do the nodes know their places, after erasing from anywhere |
| timers | does the heap survive what callbacks do to it; do timers fire when and only when they should, with deadlines that carry and borrow; does the poller wake in time; does the loop end |
| poller | is the array of completions within its bounds and a FIFO queue; is a wakeup by `nanoev_loop_break` lost, does the run end, and is what was submitted returned |
| dns | is every request in one place; does a worker touch freed memory; does `nanoev_term` lose requests; is every request answered; does every join end, that of a pool that failed to start included |
| tcp | on the three builds: does a pointer outlive its event; is a completion stale or doubled, an OVERLAPPED used twice; is an accepted socket lost; is each operation answered once |
| tcp_live | can something other than its timeout complete every pending operation of an event without error; does every operation with a timeout end; is interest in output left behind; is an event freed on Windows released |
| udp | the questions of tcp, and the first of tcp_live, for UDP: of every completion but the stray ones of a socket to which datagrams come unasked, while another socket does get such |
| bench | does what goes round a connection stay one frame however it is split; do the two processes count the same requests; does the client know its open connections; is the list of the server sound; does the client end |

The tests of READING and WRITING in `tcp_proactor_callback`, with comments that "a
stale event can still arrive here", are never false on a reactor back end:
ContextIsPending holds there. On IOCP the tests are needed for the callback, which a
timeout has taken, but again not for the flag. On a reactor a timeout runs before the
poll of its turn and closes the socket, and submitted completions belong to operations
that have no timeout.

The runs that TLC must find violated each show a place where the program breaks
an assertion or a rule of its own:

| Run | What happens |
|---|---|
| async_endgame | an async event freed between a send and its delivery is freed again while it is marked deleted, which fails the assertion of `add_endgame_proactor`; in a build without assertions it is never released |
| timers_full | a repeating timer is written one place beyond the array that its callback has filled |
| udp_unsolicited | a datagram that comes while no read is pending becomes the completion of one, against the assertion in `udp_proactor_callback` |

### What the properties do not promise

The models have these behaviours of the code too. They are the reason for the
conditions in some properties or for the choice of constants in some runs:

- A repeating timer of delay zero is due again whenever it is put back, so
  `timers_process` does not end and `nanoev_loop_break` has no effect. The delays
  of the run timers are not zero; with zero among them BreakEndsRun is false.
- `nanoev_timer_add` in a callback of the timer that runs out of memory leaves the new
  delay behind although it fails. It takes a 65th timer (`HeapChunk`), which no run has;
  the theorems about timers hold for every `HeapChunk`.
- A callback that adds its own timer and then deletes it leaves the timer armed,
  although `nanoev_timer_del` returns success (`Del`, first branch).
- A clock set back between two runs of the loop is not noticed, because
  `nanoev_loop_run` overwrites `now` first: the waits of armed timers grow
  (`Begin` of TimerSet).
- A wait of 2^31 milliseconds or more wraps. PollWakesInTime is checked, and
  TimersPollWakes proved, for waits that fit.
- The wait is counted from `loop->now`, which is read before the timer callbacks.
  After long callbacks the loop sleeps that much past the next deadline.
- A timeout of one direction closes the socket under an operation of the other.
  On a reactor that operation ends only by a timeout of its own; its callback
  is never made if it has none. PendingCanComplete therefore speaks of events
  without error, and OperationEnds is checked where all operations that wait
  have a timeout.
- An event freed with an operation pending stays allocated until the loop is
  freed on epoll and kqueue, since nothing completes an operation of a closed
  socket there. FreedIsReleased is about IOCP.
- On Windows an operation has already been started when there turns out to be no
  memory for its timer; the call fails and leaves an OVERLAPPED in flight that
  nothing remembers. `TimerFails` leaves IOCP out; with it, ContextIsPending and
  NothingDangles are false. `nanoev_loop_free` on Windows does not wait for
  operations in flight either; PointersAreLive excludes a freed loop there.
- Readiness of sockets is arbitrary in Tcp. Whether the two directions of a
  connection starve each other (submitted completions come before the kernel, and
  `EPOLLIN` hides `EPOLLOUT`) is outside the properties.
- `nanoev_loop_break` before `nanoev_loop_run` has reset `is_break` is forgotten.
- `reactor_events` keeps its value when a socket is closed; an event connected again
  after an error would be registered as if the kernel knew its new socket.
  `nanoev.h` asks the application to free such an event, and Tcp has it do so.
- The kqueue poller adds its `EVFILT_USER` event without `EV_CLEAR`; whether it stays
  triggered after the first `nanoev_loop_break` is not modelled.
- The benchmark frees the buffer of a connection together with its event, which on
  Windows may still have an operation in flight, and keeps `signal_async` after the
  async event was freed.
- One error of `accept` ends the benchmark server: its listener is in the error
  state and refuses the next accept (`OnAcceptError`).

### Bounds

Events, threads and timers are few (two or three): each property is about one event,
one event and its neighbour in a batch or a list, or a thread and another that it
races with. Six heap nodes make a tree of three levels in which the node that fills a
gap may have to move up. In Poller the array has a chunk of 2, batches of 2 and room
for 4, so that windows wrap, move and grow. In Timers there are 4 microseconds to the
second and 2 to the millisecond, the clock goes from 3 to 4 and delays are 1 and 3, so
that additions carry, subtractions borrow, and a step back may be shorter than a delay
or as long; `HeapChunk` is 64 as in the code except in timers_full, where it is 1 so
that a full heap is in reach.

`Backends`, `Unsolicited`, `CtlFails`, `TimerFails`, `Timed` and `Created` choose what
the environment does. `Unsolicited` is the set of UDP events to which datagrams and
errors come while no read is pending. In udp that is one of two events, and
ExpectedIsLive and ExpectedIsPending say of all completions but the stray ones what
PointersAreLive and ContextIsPending say of all; in udp_unsolicited it is both. In tcp
`epoll_ctl` and `kevent` may fail where their result is ignored; in tcp_live they do
not, since such a failure does leave an operation waiting, and the application creates
one event, the other being for an accept. `Timed` is {TRUE}: in a safety property an
operation without a timeout behaves as one whose timer does not fire. Events are
interchangeable in tcp, hence the symmetry set; in udp they are not. `MaxEvents`, the
size of `events[]` in `nanoev_loop_run` (256), is 3: a poll can return what one event
may have under way and a part of what two may have.

Dns has two loops, two events and two workers, so that a request may be made
while another loop starts the pool or waits for it to stop, and a worker may be
woken for a request that the other takes.

In Bench a byte is 0 or 1 (`Base`), and a number of the header has one byte
(`Width`), so that the sequence number wraps after two requests; the payload is
one byte. A frame has three bytes and is split in every way on one connection.
The other connection (`Brief`) has one request in one piece and is not broken:
it is there for the list, the accepts, and the count of open connections. The
number of requests is not bounded.

Timers, Async, Dns, Tcp and Udp let the application use an event only as
`nanoev.h` allows: on the loop thread, not after it was freed, not freed while
another thread is inside `nanoev_async_send`. In Tcp an event in the error state
is only freed.

Deadlock is not checked in the runs whose system may stop: once the loop has been
freed nothing is left to do.

### Fairness

The loop thread keeps running and callbacks return (weak fairness of its steps);
a thread inside a call of the library goes on. A thread that waits for a mutex
which is released again and again gets it (strong fairness in Async). In Poller
nothing but the notification is guaranteed to end a wait in the poller. In Dns
the system resolver returns, joins of threads that have returned return, the
async event is served (strong fairness of `OnAsync`, which other events and
`dns_term` may interrupt), and a callback returns however many requests it makes
(strong fairness, since it is interrupted while the pool stops). In Tcp a
timeout that stays armed fires in some turn (strong fairness: turns pass), and
Windows completes what it has cancelled (`Cancelled`); readiness is not assumed.
In Bench time passes, the stop timer fires when it is due and a loop that was
broken returns; neither the network nor the server is fair.

## Proofs

The theorems hold for every value of the constants that the assumptions named below
allow: any number of events, timers, threads, loops and workers, any units, sizes and
delays. Each safety theorem is an inductive invariant, a lemma for each action that
keeps it, and a last step from the invariant to the property that a run checks.

| Module | Theorem | States |
|---|---|---|
| ThreadsProofs | DnsInvariance, RequestsStayInOnePlace, WorkersAreSafe, TermAnswersAll | the invariants of run dns |
| | AsyncTypes, AsyncInvariance, WakeupPerSend, NothingIsLost, BatchIsAllocated | the invariants of run async |
| HeapProofs | AddExact, SubExact, CmpExact, WaitEndsInTime | the arithmetic of time values |
| | InsertSound, EraseSound, HeapInvariance, HeapStaysOrdered, HeapStaysIndexed | the heap operations; the invariants of run heap |
| LoopProofs | TimersInvariance, TimersHeapSound, TimersDoNotDangle, RepeatingTimersStayArmed, TimersPollWakes, TimersImplementTimerSet | the safety of run timers and the refinement of TimerSet |
| | LoopInvariance, BreakIsNotLost; ArrayInvariance, ArrayBounds, Fifo; Composition, PollerNoticesBreak, PollerArrayBounds, PollerFifo | the safety of run poller, for the loop, the array of completions, and the two together |
| SocketsProofs | lemmas only | what the queues, the poll and the batch do, for TcpProofs and UdpProofs |
| UdpProofs | UdpInvariance, UdpContextsAreLive, UdpContextIsPending, UdpPendingCanComplete, UdpImplementsSocketOps | the invariants of run udp and the refinement of SocketOps |
| TcpProofs | lemmas only | the invariant of Tcp, and that the calls, the timeouts and the completions keep it |
| TcpOpsProofs | TcpInvariance, TcpNothingDangles, TcpContextIsPending, TcpAcceptedSocketHasOwner, TcpInterestMatchesWrite, TcpPendingCanComplete, TcpImplementsSocketOps | the invariants of runs tcp and tcp_live and the refinement of SocketOps |
| BenchProofs | ActiveConnectionsAreOpen, ServerListIsSound, ServerEndFreesAll | two of the invariants of run bench, and what `server_close_connections` does |

LoopProofs extends HeapProofs, and TcpOpsProofs extends TcpProofs. Dns, Loop and Poller
have names of their own for what every module has (`DnsInit`, `LoopInit`, `dnsVars`), so
that proofs about them can stand beside those about Async and Timers.

**Async.** The inductive invariant adds to TypeOK who holds the lock (a sender past
its lock step holds it, and nobody else does), that nothing is under way for an event
that is not started, and OneWakeupPerSend and NoLostItem themselves. A sender that is
about to write has the lock and finds `async_sent` clear, so OneWakeupPerSend says
that no byte is under way: it is the first. A callback finds the lock free, so the
announcement of its wakeup is `async_sent`, which it clears with the wakeup.
NoUseAfterFree follows because what is in a batch is announced, and `async_free` does
not release an event with `async_sent` set. There is one lemma for each action, and
before them one for each conjunct that says on which variables it depends.

**Loop and poller.** The lock is held exactly between the setting of `is_break` and
the notification; with it BreakIsNoticed is inductive. The invariant of the array is
FakeTypeOK, WithinArray and that the window holds no memory that was not written. Fifo
shows the refinement: submit appends to the window, wherever it lies after a move or a
reallocation, and a poll takes a prefix off. Every step of the composition is a step
of Loop and of FakeEvents or leaves either alone, so that the theorems about the two
hold of it.

**Time values.** On normalised values of any size `time_add` and `time_sub` are exact
and normalised and `time_cmp` is the order of the times, by cases on the carry or the
borrow. The milliseconds handed to `epoll_wait` are not negative and do not reach past
the deadline, provided they fit the int.

**Heap.** The paths of the two shifts are recursive functions. What they do is proved
from their defining equations by least and greatest elements in place of induction:
the places on a path from which the claim fails, if there were any, would have one
nearest to the end of the path, and the equation takes it one step further. So the
hole ends where the node belongs, the nodes on the way move one place, and the order
between every node and its parent follows by cases on which of the two moved.
EraseSound needs that the last node, put into the hole, is not out of order with both
the parent and the children of the hole. Timers extends HeapMachine, so that the heap
of the loop is the one that HeapProofs is about. The invariant of HeapMachine is
HeapOrder and HeapIndex with the types; deadlines of nodes outside the heap do not
matter (`OrderKept`), which is why a removal may forget the deadline and
`timers_adjust_backward` may shift the others.

**Timers.** The inductive invariant has, besides the three properties: a timer is
running exactly while the loop is in a callback; `loop->now` is a time of the clock; a
repeating timer has a delay it was added with; and bounds of the deadlines in the heap.
These say that no deadline is before the least time of the clock when
`timers_adjust_backward` takes the offset off it, so that `time_sub` is not asked for a
negative time; that none has passed while the poller waits; and that none is further
off than a delay. TimersPollWakes has the hypothesis DelaysFit: the longest wait, a
delay and the largest step back of the clock, fits an int of milliseconds. The code
does not check it, and without it the wait wraps. The refinement of TimerSet maps every
step: the top of the heap is a deadline that no other precedes because the heap is
ordered, and the value arithmetic becomes that of integers.

**Dns.** RequestIsInOnePlace says that the places of a pending request are a set of
one element; the invariant says the same by uniqueness of places (OnePlace), which is
inductive together with what a pending request keeps alive (Kept: the event, its host
name) and with the states of the pool (PoolSound: workers have left only with the
queue empty, a pool that is starting or down has no queue). The step that needs most
of it is the end of a join, after which nothing may be pending that is not signalled.

**Udp and Tcp.** The invariant is about the structure of one event and the set of
directions for which a context is on its way (in the batch, among the submitted
completions, or in flight on Windows): such a context is of a pending operation, a
pending operation keeps the event allocated, no direction has two contexts, a closed
socket is not watched, and what the kernel watches is `reactor_events`. Tcp adds that
a callback belongs to what the socket is (connected, listening), that a timer is armed
only with its callback, and that on a reactor a completion that was submitted is of an
operation without a timer; the last is what keeps a timeout and a completion of one
operation apart. The theorems about UDP have no hypothesis: they hold whatever
`Unsolicited` is. The invariant counts, for an event, the contexts that are due: all of
them, or on a reactor the writes only if the event gets datagrams unasked. What a stray
`ctx_read` does, an abort or the end of a read that was started meanwhile, touches
neither the writes of its event nor another event. The hypotheses about TCP name
behaviour of the environment that the section above describes as breaking the
properties: there is memory for timers on Windows (`"iocp" \notin TimerFails`), and for
InterestMatchesWrite and PendingCanComplete of Tcp registrations do not fail
(`~CtlFails`). The refinement of SocketOps maps each handler to the acceptance of an
operation, its one callback, or the end of the event.

**Bench.** While the loop of the client runs, `active` is the number of open
connections, and each `conn_close` takes one off both; this holds of the record that a
handler works on, not only between handlers, because a handler may send and then close.
The list of the server is described by an enumeration q[1] .. q[n] of the allocated
connections that `head`, `prev` and `next` agree with. `alloc_userdata` puts a
connection before it and `conn_unlink` takes one out wherever it is. A new connection
must not be in the list already: it comes from the backlog, and a connection gets there
once, when the client connects or gives up. The walk along the list and the loop of
`server_close_connections` are recursive functions; what they reach after k steps
follows by a least counterexample.

Assumptions are those named in the modules, which TLC evaluates: distinct names (no
timer or event is None), positive sizes, units that divide, a clock
whose largest step back is not more than its least time (it does not go back beyond
the epoch), at least one DNS worker, room for at least one event in `events[]`, and
finitely many connections of the benchmark, but not none.

Only model-checked:

- liveness (BreakEndsRun, RequestIsAnswered, OperationEnds, ClientEnds and the others
  stated with `~>`): the prover has no rule for fairness and ENABLED;
- FrameIsWhole and CountsAgree of the benchmark, which are not proved yet;
- the three violations, which are counterexamples.

## Not modelled

- The Windows variant of async events and the wakeups of kqueue (`EVFILT_USER`) and
  IOCP (`PostQueuedCompletionStatus`); Loop has the eventfd of epoll.
- The Windows and unix layers: wrappers of system calls, modelled where they are
  used.
- Addresses, options and error strings, which keep no state; the contents of
  buffers and datagrams in Tcp and Udp; memory hooks.
- Descriptor numbers, so not that a failing `tcp_alloc_client` closes one twice.
- The signal handlers of the benchmark as interrupts: SIGINT is a step of its own
  there, so not that it may come while the loop thread holds the lock which
  `nanoev_async_send` takes. Statistics, latencies, the report timers, `main.c`
  and the libevent baseline.

## Plan

1. The modules in the order above, bottom up: heap, time values, completion
   queue; then the loop and its poller; then one module per event type; then the
   three builds of the socket events, the start of the DNS pool, and the
   benchmark. Done.
2. Further modules: the endgame list with events of several types at once; Dns with
   Async in place of its flag; both directions of a connection with the bytes in
   the kernel's buffers, for the question which of them may starve.
3. Next theorems: FrameIsWhole and CountsAgree of the benchmark.

------------------------------ MODULE BenchNet -------------------------------
(***************************************************************************)
(* What the two sides of the benchmark share: the frames of                *)
(* bench/protocol.h and the TCP connections between them.                  *)
(*                                                                         *)
(* A frame is a header, the size of the payload and a sequence number of   *)
(* Width bytes each, and the payload.  A byte is one of 0 .. Base - 1.     *)
(***************************************************************************)
EXTENDS Integers, Sequences, FiniteSets, FiniteSetsExt

CONSTANTS
  Conns,              \* connections the client opens (config->connections)
  Brief,              \* those of one request, whose transfers are not split and that
                      \* the network does not break
  Base,               \* values of a byte (256)
  Width,              \* bytes of a number in the header (4)
  MessageSize         \* config->message_size of the client

\* What a byte with k bytes behind it counts for in a number
Place[k \in Nat] == IF k = 0 THEN 1 ELSE Base * Place[k - 1]

\* main() refuses to open no connection.
ASSUME ConnsAssumption == IsFiniteSet(Conns) /\ Conns # {} /\ Brief \subseteq Conns

ASSUME FrameAssumption ==
  /\ Base \in Nat \ {0, 1} /\ Width \in Nat \ {0}
  /\ MessageSize \in 1 .. Place[Width] - 1

VARIABLES
  net,                \* the state of each connection
  backlog,            \* connections that wait to be accepted
  listening           \* the socket of the listener is open

netVars == <<net, backlog, listening>>

HeaderSize == 2 * Width
FrameSize == HeaderSize + MessageSize

\* bench_write_u32() and bench_read_u32()
WriteU32(n) == [i \in 1 .. Width |-> (n \div Place[Width - i]) % Base]
ReadU32(buf) ==
  LET read[i \in 0 .. Len(buf)] == IF i = 0 THEN 0 ELSE read[i - 1] * Base + buf[i]
  IN read[Len(buf)]

\* bench_frame_payload_size() and bench_frame_sequence()
PayloadSize(buf) == ReadU32(SubSeq(buf, 1, Width))
SequenceOf(buf) == ReadU32(SubSeq(buf, Width + 1, HeaderSize))

\* A buffer of n bytes as malloc() returns it; what is in it is not read before
\* it is written.
NewBuffer(n) == [i \in 1 .. n |-> 0]

\* Mutant: a read that starts over at the beginning of the buffer.
StoredAtStart(buf, at, bytes) ==
  [i \in DOMAIN buf |-> IF i \in 1 .. Len(bytes) THEN bytes[i] ELSE buf[i]]

\* bytes are stored in buf behind the first `at' bytes: both programs read to
\* conn->buf + conn->progress.
Stored(buf, at, bytes) ==
  [i \in DOMAIN buf |-> IF i \in at + 1 .. at + Len(bytes) THEN bytes[i - at] ELSE buf[i]]

\* The numbers of bytes an operation may move when it could move up to n
Pieces(c, n) == IF c \in Brief THEN {n} \ {0} ELSE 1 .. n

-----------------------------------------------------------------------------
(* A connection: the bytes on their way up to the server and down to the    *)
(* client, the ends that are closed, whether the network has broken it, and *)
(* the requests on it that the server has counted less those the client has *)
(* (stats.requests of the two).                                             *)

NewConnection ==
  [up |-> <<>>, down |-> <<>>, clientClosed |-> FALSE, serverClosed |-> FALSE, broken |-> FALSE,
   ahead |-> 0]

NetInit ==
  /\ net = [c \in Conns |-> NewConnection]
  /\ backlog = {}
  /\ listening = TRUE

\* A side closes the sockets of some connections: what is on its way to it is
\* lost.
ClientCloses(n, C) ==
  [c \in Conns |-> IF c \in C THEN [n[c] EXCEPT !.clientClosed = TRUE, !.down = <<>>] ELSE n[c]]
ServerCloses(n, C) ==
  [c \in Conns |-> IF c \in C THEN [n[c] EXCEPT !.serverClosed = TRUE, !.up = <<>>] ELSE n[c]]

\* Operations of a side may fail once the other has closed its socket.
ClientMayFail(c) == net[c].serverClosed \/ net[c].broken
ServerMayFail(c) == net[c].clientClosed \/ net[c].broken
=============================================================================

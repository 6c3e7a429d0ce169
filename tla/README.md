# MiniProtobufFramework: TLA+ models and proofs

The repository holds a small framework that sends protobuf messages over TCP:
a shared message route, a C++ server and client on asio, an Android client, and
an HTTP server that lives in the server program but is not started by `main`.
This directory models the parts whose correctness depends on the order of
events, checks them with TLC and proves their safety properties with TLAPS.

## The system

| Part | Source | Module | State |
| --- | --- | --- | --- |
| `MessageRoute` | `Shared/code/utility/MessageRoute.*` | `MessageRoute`, `FrameChannel` | modelled but for its `catch`, proved |
| dispatcher, processors (server) | `BaseMessageDispatcher.cpp`, `ServerMessageDispatcher.cpp`, `*Processor.cpp` | in `MessageRoute` (`Dispatch`, `ProcessorMap`) | modelled; processors by their answers |
| `BaseSocketConnection`, `TcpConnection` | `BaseSocketConnection.cpp`, `TcpServer.cpp` | `TcpConnection` | modelled, proved |
| `TcpServer` (accept loop, all connections) | `TcpServer.h`, `main.cpp` | `TcpServer` | modelled, proved |
| `TcpClient` and the client program | `MiniProtobufClient/` | `TcpClient`, `Session` | sending and receiving modelled apart, proved |
| client dispatcher, processors | `ClientMessageDispatcher.cpp`, `*Processor.cpp` | `Session`, `Exchange` | modelled, proved |
| HTTP `request_parser` | `HttpServer/request_parser.*` | `RequestParser` | modelled, proved |
| HTTP server, `connection_manager`, `connection` | `HttpServer/http_server.cpp`, `connection*.cpp` | `HttpServer` | modelled, proved |
| HTTP `request_handler`, `reply`, `mime_types` | `HttpServer/` | | not modelled |
| Android client | `AndroidProj/app/src/main/java/` | | not modelled |
| asio, eventpp, protobuf, generated messages | `Shared/` | | third party or generated |

How they interact. A client puts packets (`"pbh\0"`, total length, head length,
`CmdType`, message) into a TCP stream. The server's `TcpConnection` reads the
stream in pieces and gives them to its `MessageRoute`, which finds the packets,
creates the messages and dispatches each to the processor registered for its
type. A processor may answer with `MessageRoute::Send`, which appends a packet to
`mDataStreamSend`; `Process` posts a `Send` handler that writes that buffer to the
socket. All handlers of the server run on the one thread in `io_context::run`.
The HTTP server shares none of this: it has an `io_service`, a signal handler and
one connection object per client, each of which reads one request and sends one
reply.

## Modules and how they follow the code

**`MessageRoute`**. A byte stream is never spelled out: it is the sequence of the
packets in it, each with the position `at` of its first byte, and a buffer is a
pair of positions. `mDataStreamReceive` is the bytes from `pos` to `arrived` of
`wire`; `mDataStreamSend` is the bytes from `con` (in `TcpConnection`) to
`StreamEnd(out)` of `out`. `Receive` copies what was read. `ProcessRecv` is the
disjunction of the returns of the function: `NoData`, `Resume` (a length is
known), `NotHead`, `IsHead`; `Unpack` is the part they share. `BlockRead` is the
number of bytes the block-wise `IstreamInputStream` takes from the buffer, which
is why a packet rejected for its length still leaves the buffer completely. `Rest`
keeps the unsigned subtraction. `preTotalLen` starts with any value of
`GarbageLen`, since the constructor does not set the member. `dispatched` is a
history variable.

Two assumptions about the data: the marker occurs only at the start of a packet
(the four bytes are not part of a message), and a packet comes from
`MessageRoute::Send`, so its lengths are right and its `CmdType`, which contains
the type name, has at least four bytes.

**`FrameChannel`** is what a route promises, without bytes: packets are handled
one by one in order, delivered if they fit and have a processor, skipped if not.
`MessageRoute` implements it with `handled` = number of packets whose last byte
has been consumed.

**`TcpConnection`** extends `MessageRoute`. `queue` is the FIFO of posted handlers
of the `Process` chain (`Process`, `Send`, and `Written`, the completion of a
write); the read chain (`start_read`, `handle_read`) meets it only in the receive
buffer and in `error`, so it is interleaved freely. `WriteSome` is asio's composed
`async_write`: it takes the buffer's contents when it is started, writes at most
`MaxTransfer` bytes at a time, and consumes from the front of the buffer when it is
done. With `Backpressure` a write may stay in `inflight` until the socket has room
(`SocketDrains`). `tx` is the history of what went on the wire. The client may
send, close (end of file) and reset at any time.

**`RequestParser`** has one operator per group of cases of `consume`, over classes
of characters; the strings of the request are counted. `do_read` is the completion
handler of `connection::do_read`, with pieces of any size. The second half of the
module defines a request, its header lines, the lines folded into each and the lengths
of their names and values by positions in the text, without a state machine; the
parser is compared with these definitions.

**`HttpServer`** keeps for the accept, the signal and each connection whether an
operation is pending or complete, with its error code; a handler runs some time
after its completion. Closing a socket aborts what is pending on it; an operation
started on a closed socket fails with an error other than `operation_aborted`. The
parser's answer is a free choice.

**`TcpClient`** has the application thread (`clientStart`: connect, start the io
thread, send, close, join, start again) beside the io thread with its FIFO of
handlers. `mDataStreamSend` is the last `size` of the `sent` messages. An `async_write`
covers what is there when it starts and completes as a whole; `wire` is the history of the
messages that the socket has taken. `MessageRoute::Send` is
two steps, so that the io thread runs while the application holds
`gSocketSendMutex`; the size that `ProcessSend` reads and the consume at the end of a write
do not take that mutex, so the size may be stale, and the consume may leave any number of
messages. `clash` is the history of uses of `mDataStreamSend` by two at once: such a
consume, a message appended while a write is outstanding (the streambuf may move the bytes
the write points to), and a write started before the previous one has been consumed.
`wire` is not followed after a clash, because the code does nothing to keep the bytes whole.
`closed` is a plain `bool` shared by
the threads; a handler that reads an old value is the same as one that ran before
`Close`. Members that the constructor leaves unset have the value "unset".

**`Session`** extends `TcpConnection` with the receiving side of a client: a second
instance of `MessageRoute` whose `wire` is the server's `out`. `read_handler` takes bytes
that are on the wire (`TxEnd`), `ClientProcess` is the client's `Process` as far as it
receives. `asked` is a history variable: the request that each reply answers. Requests
are whole packets in the stream; what overlapping writes of the client do to them
(finding 3) is not part of this model.

**`Exchange`** is what client and server promise each other, without bytes: requests are
served one by one in order, each gets one reply exactly if it reaches a processor that
answers, and the client takes the replies one by one and shows those it has a processor
for. `Session` implements it with `served` and `taken` = number of packets whose last byte
the two routes have consumed.

**`TcpServer`** puts the accept loop and all connections on one queue. Of a connection
it keeps the handlers, the outstanding read and write, and `error`; these are also what
keeps the object alive, so a connection with none of them is destroyed. `Process` may find
something to send or nothing (`MaySend`). `start` throws
if its client has gone (`remote_endpoint`), which ends `run` and the server.

Definitions whose comment starts with *Mutant* are deliberately wrong versions of
the definition that follows; they show that a property depends on it.

## Runs

| Run | Instance | What it shows |
| --- | --- | --- |
| `route` | three packets out of six kinds, pieces of any size, length 0 or negative | `Aligned`, `NoneSkipped`; `ImplementsChannel`: the refinement with liveness |
| `route_garbage` | two kinds, start lengths 0, 1, 4, 6, 9, 20 | with a lost boundary still nothing is dispatched twice, out of order or half received |
| `route_garbage_skips` | as above | **violation**: a positive start length loses a good first packet (finding 1) |
| `connection` | three requests, a socket that takes every reply at once | one write at a time, bytes in order, every request processed, every reply sent |
| `connection_stalled` | two requests, a socket without room, two writes in flight | both requests are still processed, whatever the overlapping writes do; `AfterError`: once a read has failed nothing is started but what was queued; the connection still ends |
| `connection_overlap` | two requests, a socket without room | **violation**: writes overlap (finding 2) |
| `http_parser` | 2596 inputs: three texts and all that differ in one character | the parser accepts exactly the requests and fills in their fields |
| `http_server` | three clients | `connections_` = open sockets; a signal ends the server, and `WindsDown`: each step after it leaves less to do |
| `client` | three messages, two writes in flight | one read and one `Process` until `Close`; `Close` leads to the join, and `StopComesUp`: each handler brings the `stop_event` nearer, also with writes outstanding; `WrittenInOrder`, `EachWritten`: without a clash each message goes on the wire, once and in order |
| `client_overlap` | two messages | **violation**: writes overlap in the client too (finding 3) |
| `session` | two requests out of three kinds, one reply too long for the client | `ImplementsExchange`: each request is served once, in order, and answered exactly if its processor answers; `AnswersMatch`: the client's processors see these answers in order; `RequestAnswered` |
| `server` | two clients, one of which is answered | always one accept; every waiting client is served; `FailsThenFreed`: a connection whose read failed starts nothing more; every connection is freed |

Bounds. `TEMP_BUFFER_SIZE` is 6, so that heads and bodies of the limit and one more
occur; three packets are enough for a rejected packet between two good ones, and
for a reply queued while another is written. The alignment of packet lengths modulo
four, which matters to the search of `NotHead`, occurs with lengths 16 and 19. A
transfer of 20 bytes holds a reply of 18 (`connection`) and splits two, which wait together where the socket has no room
(`connection_stalled`); there two requests let the second arrive, be read and be processed
while the write of the first reply stands still. Three HTTP clients let
one be accepted, one be reading and one be writing when the signal comes. Three
messages of the client let one be in flight, one be queued and one be appended. A `Send` of
the client at `MaxWrites` does not wait: the oldest write completes as the new one starts.
A session of two requests has one reply dispatched while another is received, and one
dropped, or one request unanswered, before an answered one. `SessionTypeOK` and
`ServerTypeOK` are parts of the theorems below and no property of a run. The server has two clients, one whose requests
are answered and one who only listens, so that one can come, go or be served at any
point of the other's connection. `Overlap` is FALSE there: a connection posts no further
`Send` while its write is outstanding. With TRUE, as in the code, the run has 1,386,665
states and takes a quarter of an hour; all properties hold there too, and the theorems are
for both values.
Deadlock is not checked where the system may stop: a lost connection, a stopped
server, a client that sends no more.

Fairness. `io_context::run` takes every posted handler, so the read chain and the
`Process` chain are weakly fair, and a socket operation that can complete does
(`SocketDrains`, a reply being written). Nothing is assumed about what clients send
or when they close; an idle HTTP client may stay for ever. The client's application
thread finishes the calls it has begun; when it sends or closes is left open. Its
io thread is fair, and so is the completion of writes until `Close`, but not that of reads,
resolves and connects; so `CloseJoins` waits for none of them. In `TcpServer` the accept of a client that waits and the read of
one that has gone complete (strongly fair, since a new operation takes the place of the
old one).

## Findings

1. `mPreRecivesTotalLen` is read before it is set (`MessageRoute.h:56`,
   `MessageRoute.cpp:84`). With a positive value in the fresh memory the start of
   the first packet is taken for the rest of an earlier one. The theorems name the
   assumption that excludes it.
2. `TcpConnection::Process` posts a `Send` whenever the buffer is not empty, also
   while a write is in flight. asio requires that no other write is started before
   the first completes. On a socket that takes every reply at once this never
   happens (proved below); on a socket without room it does, and then the first
   reply is sent twice and a later one is consumed unsent (`ReplySent` fails there).
3. `TcpClient::Process` does the same on the client's socket (`TcpClient.cpp:77`,
   `:87`). There the application also appends while a write is outstanding, which may move
   the bytes that the write points to. So `WrittenInOrder` and `EachWritten` hold only until
   a clash.

## Proofs

`MessageRouteProofs`
- `RouteSound`: `RouteTypeOK` and `DispatchedInOrder` for any constants and any
  start length. The invariant `SoundInv` adds that a position with a known length is
  a read point (start of stream, or behind some packet's length), which bounds what
  a lost boundary can read.
- `RouteAligned`: `Aligned` and `NoneSkipped` if no start length is positive. The two
  are inductive only together with `SoundInv`: a packet consumed without being
  dispatched can be excluded only where the position is known to be a boundary.
- `RouteImplementsChannel`: under the same assumption every step is a step of
  `FrameChannel` or none. The argument counts the packets behind the read point
  (`Consumed`): a step leaves the count or raises it by one, and then the packet read is
  the next one (`ConsumedStep`).
- `RouteCompleteHandled`: a packet whose last byte is buffered is handled by the very next
  `ProcessRecv`, also if an earlier call has stopped behind its length. This is the step
  that the liveness of the refinement rests on. It holds in every state of a route
  (`RouteReady`) and needs `LongHeads`, that every packet
  carries a type name of at least four bytes: `ProcessRecv` returns while fewer than eight
  bytes are buffered, and a shorter rest would wait for the next packet. It is a statement
  about the action, since a call that does nothing is a stuttering step and no box formula
  excludes it. That `ProcessRecv` is called again and again is left to TLC.

`TcpConnectionProofs`
- `ConnectionRoutes`: every handler makes a step of the route or none, so the route's
  theorems hold in the connection, with and without room in the socket.
- `ConnectionSound`: if the socket has room and a reply fits in one transfer
  (`RoomForReplies`), then `OneWriteAtATime` and `TxInOrder`. The invariant `SendInv`
  lists the seven shapes the handler queue can have; it holds because `Process` posts
  the `Send` before the next `Process`, so that a write is started, completed and
  consumed within two rounds of the queue, before the next `Send` runs.
- `ConnectionAnySocket`: without `RoomForReplies`, so also on the sockets where writes
  overlap (finding 2), `ConnTypeOK` and `DispatchedInOrder` hold, and so does
  `ChainsOnce`: there is one `Process` in the queue while there is no error and at most
  one later, and reading stops with the error and not before. So an overlap can damage
  what is sent and nothing of what is received.
- `ConnectionRunsOut` (`AfterError`), on every socket: once a read has failed, `error`
  stays, nothing more is read, there are never more handlers and writes than before, and a
  `Process` or `Send` that runs was queued before the error. A `Process` looks at `error`
  only after it has dispatched, so the one that is queued still handles a packet. The
  invariant `WrittenAfter` says that only completions of writes are queued behind a
  `Process`, so when the last `Process` runs no `Send` is left.

`HttpServerProofs`: `HttpServerSound`, for any set of clients. The strengthening is
that an aborted operation belongs to a connection already taken out of
`connections_`. `HttpServerWindsDown` (`WindsDown`): after the signal every step runs a
handler that is queued and leaves strictly less to run, since an operation that such a
handler starts on its closed socket fails at once; with fairness this is `SignalStops`. The
invariant `WaitsOpen` says that what is pending belongs to a connection in `connections_`,
or to an open acceptor; so after `stop_all` nothing waits for a client (`Quiesced`).

`TcpClientProofs`: `ClientSound`, for any number of messages and writes in flight. The
properties are not inductive alone: `connect_handler` starts both chains, so the
invariant says that there is one connect at most (`OneConnect`) and that nothing of the
chains exists before its handler and nothing of the connect after it (`Phase`).
`ClientStops` (`StopComesUp`): while the application waits in `join`, a `stop_event` is in
the queue of the io thread, and each handler that runs brings it one place nearer,
whatever the handlers and the network post behind it; with a fair io thread this is
`CloseJoins`. The invariant `StopInv` has to follow the stop from `Close`, which may come
before the io thread has started. `ClientWrites` (`WrittenInOrder`): until a clash, the
messages on the wire are those sent, in order and each once, and none has left the buffer
unsent. The invariant `WireInv` says that then at most one write is outstanding or finished
and not yet consumed, and where in the buffer its messages are: at the front, on the
wire if it has finished and next for the wire if not.

`TcpServerProofs`: `ServerSound`, for any set of clients: the types, `OneAccept` and
`ConnectionWhole`. The invariant counts handlers: one of the accept loop in the queue or an
accept outstanding, never both; and for each connection without an error one handler of
its `Process` chain, and one of its read chain or a read outstanding. `OneAccept` is about a
server that has not ended (`start` may throw). `ServerFrees`
(`FailsThenFreed`): a connection is destroyed only after a read of its own has failed, and
from then on its handlers only end: a `Process` posts nothing, a `Send` becomes a write and
a write its completion. No action of another connection changes this.

`SessionProofs`
- `SessionSound`: `AnswersMatch`, for any constants, under `RoomForReplies`. The
  invariant `AskedInv` says that reply *i* answers a request that was dispatched, with a
  number of at least *i*, and that these numbers increase; so there are never more replies
  than requests, and each step of the server is a step of the peer of the client's
  route. The rest is `SoundInv` of the client's own instance of `MessageRoute`.
- `SessionRoutes`: the session implements that instance's specification, so
  `RouteAligned` holds for the client as well.
- `SessionImplementsExchange` (`ImplementsExchange`), if no start length is positive. The
  invariant `ExchangeInv` is `AlignedInv` of both routes and `AskedInv`. A step of the
  server serves the next request or none (`ConsumedStep` of its route), adds to `out`
  exactly what the processor of that request answers (`OutFollows`), and takes nothing for
  the client; a step of the client takes the next reply or none.

`RequestParserProofs`
- `ConsumeSafe`: for every parser state and character, `consume` keeps the parser well
  formed and uses no `headers.back()` of an empty vector.
- `ReadAlways`, and from it `ParserSound` (`ParserTypeOK` and `BackDefined`) and
  `ParserAccepts` (`AcceptsRequests`): for every text, cut into pieces in any way, the
  parser accepts as soon as the bytes read hold a request and never otherwise; where it
  answers `bad_request`, no prefix of the text, read or unread, is a request. The invariant `ReadKnown` says, for each of
  the parser's states, what the text read so far looks like (`Shape`: where the lines
  begin, where the present one is, which of its parts are complete). It is not enough to
  know that no request has been read: only the shape of the open line tells whether the
  next character completes one or excludes it.
- `parse` is a recursive function over the positions of a piece, and the lemmas that
  count characters go by induction too. Both are done with `Least`, the least
  counterexample of a set of numbers, since the library's induction theorems cannot be
  instantiated here.

`RequestHeadersProofs`: `ParserFields` (`FieldsOfText`): the parser's `method`, `uri` and
`headers` have the lengths that the text's lines give, for every text and every cut. The
invariant `ReadHeaders` adds to `ReadKnown` that the headers so far are `HeadersOf` the
text so far: one for each header line begun, with the characters of the name, of the
value and of the lines folded into the value. The lemmas before it say how each class
of character changes these counts.

With this every safety property of a passing run, invariants and action properties, is
proved for all values of the constants. Liveness stays with TLC, since it needs fairness
and `ENABLED`, which the prover does not handle: `ReplySent`, `RequestProcessed`,
`LostAfterClose`, `SignalStops`, `AnsweredThenClosed`, `CloseJoins`, `EachWritten`,
`RequestAnswered`, `EachServed`, `ConnectionFreed` and the liveness half of
`ImplementsChannel`. For `SignalStops`, `CloseJoins`, `ConnectionFreed`, `LostAfterClose`
and `ImplementsChannel` the step each rests on is proved: `WindsDown`, `StopComesUp`,
`FailsThenFreed`, `AfterError` and `RouteCompleteHandled`. `SessionSound` needs
`RoomForReplies`: the client reads `out` up to `TxEnd`, which is what is on the wire only
where bytes go out once and in order.

## Not modelled

- The repository contains complete copies of asio and protobuf, some 600,000 lines. The
  programs use a small part of them, and the models have reads, writes, accepts,
  connects and posted handlers where they are used. The rest (other platforms,
  protobuf's parser, compiler and reflection, tests and examples) is not run by these
  programs, or converts data without a state that the properties distinguish. So the
  mapped lines are a small share of all lines under `src/`.
- asio's `io_context` itself. The models rely on its contract: every posted handler, and
  every handler of a completed operation, runs once, in order with one thread in `run`;
  `stop` ends `run`. Which lock and completion port bring this about is not shown.
- Generated messages: a message is its type and its length.
- eventpp: only sample functions of the client's `main.cpp` use it, and `main` does not
  call them.
- HTTP `request_handler`, `reply` and `mime_types`: a computation on one request, without
  state that outlives it. In `HttpServer` it is part of the handler that calls it.
- The Android client, a program of its own in Java. Its threads share a socket and plain
  fields without locks; the hazards list the places.
- What processors print or show, the text of messages, HTTP version numbers.
- Code that is never called: `TcpConnection::WorkerThreadCallback`,
  `request_parser::reset`, the other functions of the client's `main.cpp`.
- Damaged bytes or a crash from the data races on `mDataStreamSend` (`TcpClient`); what is
  on the wire after a clash.
- Addresses. asio's `async_write` keeps pointers into `mDataStreamSend`, and an append that
  does not fit makes the streambuf move its bytes. In `TcpConnection` a write that needs
  more than one transfer could then send moved bytes. `TxInOrder` and `ReplySent` are
  checked and proved where each write is taken as it starts; with `Backpressure` nothing is
  claimed about the bytes sent.
- The `catch` of `MessageRoute::ProcessRecv` (`MessageRoute.cpp:193-197`), which returns with
  `preTotalLen` as it was. Of the code in its `try` block only a failed allocation raises.
- A server after `start` has thrown: `EachServed` and `OneAccept` end there, as the server does.

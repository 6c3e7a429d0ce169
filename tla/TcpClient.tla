------------------------------ MODULE TcpClient ------------------------------
(***************************************************************************)
(* The client program (MiniProtobufClient/main.cpp) with its TcpClient: the  *)
(* application thread, which connects, sends, closes and joins, beside the   *)
(* thread in io_context::run, which takes handlers in the order they were    *)
(* posted.  Both use mDataStreamSend; gSocketSendMutex protects              *)
(* MessageRoute::Send and TcpClient::Send, but neither ProcessSend nor the   *)
(* consume at the end of an async_write.                                     *)
(*                                                                           *)
(* mDataStreamSend is the number of messages in it: of the messages that     *)
(* were sent, the last ones.  An async_write covers those that are there     *)
(* when it starts, and its end consumes as many as it has transferred, from  *)
(* the front.  What is received, and ProcessRecv, are the subject of         *)
(* MessageRoute; the client's processors send nothing, so they do not meet   *)
(* the state below.                                                          *)
(***************************************************************************)
EXTENDS Naturals, Sequences

CONSTANTS
  MaxSends,    \* messages that clientStart sends (num - 1)
  MaxWrites    \* bound: writes that the socket has not completed

ASSUME ClientAssumption == MaxSends \in Nat /\ MaxWrites \in Nat \ {0}

VARIABLES
  app,         \* what the application thread does next, or "done"
  sent,        \* messages it has sent
  size,        \* messages in mDataStreamSend
  closed, connected,   \* the members of TcpClient: "unset", "no" or "yes"
  io,          \* the thread t: "none", "running" or "finished"
  stopped,     \* io_context::stopped
  queue,       \* the handlers posted to the io_context, oldest first
  ops,         \* outstanding operations other than writes
  writes,      \* outstanding async_writes, oldest first: the n messages after
               \* the first from ones
  socket,      \* "none", "failed" (to connect), "open" or "lost"
  clash,       \* history: two have used mDataStreamSend at once, see below
  wire         \* history: the messages the socket has taken, until a clash

appVars == <<app, sent>>
bufVars == <<size, wire, clash>>
clientVars ==
  <<appVars, bufVars, closed, connected, io, stopped, queue, ops, writes, socket>>

Ops == {"resolve_handler", "resolve_failed", "connect_handler", "Receive",
        "read_handler", "Process", "Send", "write_handler", "stop_event"}

\* A handler; n is the number of messages an async_write has transferred.
Handler == [op : Ops, n : Nat]
Write == [from : Nat, n : Nat]

Task(op) == [op |-> op, n |-> 0]

ClientInit ==
  /\ app = "connect" /\ sent = 0 /\ size = 0
  /\ closed = "unset" /\ connected = "unset"
  /\ io = "none" /\ stopped = FALSE
  /\ queue = <<>> /\ ops = {} /\ writes = <<>> /\ socket = "none"
  /\ clash = FALSE /\ wire = <<>>

-----------------------------------------------------------------------------
(* The application thread *)

Connect ==
  /\ app = "connect" /\ app' = "thread"
  /\ closed' = "no"
  /\ ops' = {"resolve"}
  /\ UNCHANGED <<sent, bufVars, connected, io, stopped, queue, writes, socket>>

StartThread ==
  /\ app = "thread" /\ app' = "send"
  /\ io' = "running"
  /\ UNCHANGED <<sent, bufVars, closed, connected, stopped, queue, ops, writes, socket>>

\* detectinput: MessageRoute::Send takes gSocketSendMutex.  The packet may not fit,
\* and then the buffer moves its bytes, also those of a write that is outstanding.
SendBegin ==
  /\ app = "send" /\ sent < MaxSends
  /\ app' = "appending"
  /\ clash' = (clash \/ writes # <<>>)
  /\ UNCHANGED <<sent, size, wire, closed, connected, io, stopped, queue, ops, writes, socket>>

\* The mutex is released when the packet is in mDataStreamSend.
SendEnd ==
  /\ app = "appending" /\ app' = "send"
  /\ sent' = sent + 1 /\ size' = size + 1
  /\ UNCHANGED <<wire, clash, closed, connected, io, stopped, queue, ops, writes, socket>>

Close ==
  /\ app = "send" /\ sent = MaxSends
  /\ app' = "stop"
  /\ closed' = "yes"
  /\ UNCHANGED <<sent, bufVars, connected, io, stopped, queue, ops, writes, socket>>

\* Mutant: Close does not stop the io_context.
CloseStopsNot ==
  /\ app = "stop" /\ app' = "join"
  /\ UNCHANGED <<sent, bufVars, closed, connected, io, stopped, queue, ops, writes, socket>>

\* TcpClient::Close, second statement: io_context::stop posts a stop event behind
\* the handlers that are queued, unless run has stopped the io_context already.
CloseStops ==
  /\ app = "stop" /\ app' = "join"
  /\ stopped' = TRUE
  /\ queue' = IF stopped THEN queue ELSE Append(queue, Task("stop_event"))
  /\ UNCHANGED <<sent, bufVars, closed, connected, io, ops, writes, socket>>

Join ==
  /\ app = "join" /\ io = "finished"
  /\ app' = "done"
  /\ UNCHANGED <<sent, bufVars, closed, connected, io, stopped, queue, ops, writes, socket>>

\* main calls clientStart again, with a new io_context, route and client.
Restart ==
  /\ app = "done" /\ app' = "connect" /\ sent' = 0 /\ size' = 0
  /\ closed' = "unset" /\ connected' = "unset"
  /\ io' = "none" /\ stopped' = FALSE
  /\ queue' = <<>> /\ ops' = {} /\ writes' = <<>> /\ socket' = "none"
  /\ clash' = FALSE /\ wire' = <<>>

-----------------------------------------------------------------------------
(* The io thread *)

Runs(op) == io = "running" /\ queue # <<>> /\ Head(queue).op = op

Posts(op) == queue' = Append(Tail(queue), Task(op))

resolve_handler ==
  /\ Runs("resolve_handler")
  /\ queue' = Tail(queue)
  /\ ops' = ops \cup {"connect"}
  /\ UNCHANGED <<appVars, bufVars, closed, connected, io, stopped, writes, socket>>

resolve_failed ==
  /\ Runs("resolve_failed")
  /\ queue' = Tail(queue)
  /\ UNCHANGED <<appVars, bufVars, closed, connected, io, stopped, ops, writes, socket>>

\* Mutant: connected stays as it was constructed.
connect_handlerUnset ==
  /\ Runs("connect_handler")
  /\ queue' = Append(Append(Tail(queue), Task("Receive")), Task("Process"))
  /\ UNCHANGED <<appVars, bufVars, closed, connected, io, stopped, ops, writes, socket>>

\* connect_handler does not look at its error code.
connect_handler ==
  /\ Runs("connect_handler")
  /\ connected' = "yes"
  /\ queue' = Append(Append(Tail(queue), Task("Receive")), Task("Process"))
  /\ UNCHANGED <<appVars, bufVars, closed, io, stopped, ops, writes, socket>>

Ended == closed = "yes" /\ connected = "yes"

\* TcpClient::Receive: async_read, also on a socket that is not connected.
Receive ==
  /\ Runs("Receive")
  /\ queue' = Tail(queue)
  /\ ops' = ops \cup {"read"}
  /\ UNCHANGED <<appVars, bufVars, closed, connected, io, stopped, writes, socket>>

\* Mutants: read_handler stops at an error; it reads on at once and posts as well.
read_handlerStops ==
  /\ Runs("read_handler")
  /\ IF Ended \/ socket # "open" THEN queue' = Tail(queue) ELSE Posts("Receive")
  /\ UNCHANGED <<appVars, bufVars, closed, connected, io, stopped, ops, writes, socket>>
read_handlerTwice ==
  /\ Runs("read_handler")
  /\ IF Ended THEN queue' = Tail(queue) /\ UNCHANGED ops
     ELSE Posts("Receive") /\ ops' = ops \cup {"read"}
  /\ UNCHANGED <<appVars, bufVars, closed, connected, io, stopped, writes, socket>>

\* read_handler does not look at its error code.
read_handler ==
  /\ Runs("read_handler")
  /\ IF Ended THEN queue' = Tail(queue) ELSE Posts("Receive")
  /\ UNCHANGED <<appVars, bufVars, closed, connected, io, stopped, ops, writes, socket>>

\* The size that ProcessSend may see without the mutex.
SizeSeen == IF app = "appending" THEN {size, size + 1} ELSE {size}

\* Mutant: Process posts only the Send when there is something to send.
ProcessElse ==
  /\ Runs("Process")
  /\ \E seen \in SizeSeen :
       IF seen > 0 THEN Posts("Send")
       ELSE IF Ended THEN queue' = Tail(queue) ELSE Posts("Process")
  /\ UNCHANGED <<appVars, bufVars, closed, connected, io, stopped, ops, writes, socket>>

\* TcpClient::Process with ProcessSend and SendData.
Process ==
  /\ Runs("Process")
  /\ \E seen \in SizeSeen :
       LET q == IF seen > 0 THEN Append(Tail(queue), Task("Send")) ELSE Tail(queue)
       IN  queue' = IF Ended THEN q ELSE Append(q, Task("Process"))
  /\ UNCHANGED <<appVars, bufVars, closed, connected, io, stopped, ops, writes, socket>>

\* The oldest of the outstanding writes w completes, with an error only when the
\* connection is lost; the other handlers in the queue are q.
WriteDone(w, q) ==
  \E n \in 0..Head(w).n :
    /\ socket = "open" => n = Head(w).n
    /\ queue' = Append(q, [op |-> "write_handler", n |-> n])
    /\ writes' = Tail(w)
    /\ wire' = IF clash' THEN wire ELSE wire \o [i \in 1..n |-> Head(w).from + i]

\* Some messages are covered by a write, or still in the buffer after one.
Covered ==
  writes # <<>> \/ \E i \in 1..Len(queue) : queue[i].op = "write_handler" /\ queue[i].n > 0

\* TcpClient::Send waits for gSocketSendMutex and starts an async_write of what
\* is there.  That of nothing, or on a socket that never connected, completes at
\* once.  Bound: at MaxWrites the oldest write completes when the next one starts.
Send ==
  /\ Runs("Send")
  /\ app # "appending"
  /\ IF socket = "failed" \/ size = 0
     THEN Posts("write_handler") /\ UNCHANGED <<writes, wire, clash>>
     ELSE LET w == Append(writes, [from |-> sent - size, n |-> size])
          IN  /\ clash' = (clash \/ Covered)
              /\ IF Len(w) > MaxWrites THEN WriteDone(w, Tail(queue))
                 ELSE writes' = w /\ queue' = Tail(queue) /\ UNCHANGED wire
  /\ UNCHANGED <<appVars, size, closed, connected, io, stopped, ops, socket>>

Consumed(n) == IF n <= size THEN size - n ELSE 0

\* Mutants: the whole buffer is cleared; one more message is consumed.
write_handlerClears ==
  /\ Runs("write_handler")
  /\ queue' = Tail(queue)
  /\ size' = 0 /\ clash' = (clash \/ app = "appending")
  /\ UNCHANGED <<appVars, wire, closed, connected, io, stopped, ops, writes, socket>>
write_handlerOver ==
  /\ Runs("write_handler")
  /\ queue' = Tail(queue)
  /\ size' = size - Head(queue).n - 1
  /\ UNCHANGED <<appVars, wire, clash, closed, connected, io, stopped, ops, writes, socket>>

\* The end of an async_write: the buffer consumes what was transferred, without
\* the mutex, so that beside a Send that moves the buffer it may take nothing or
\* more than it should; then write_handler, which only counts.
write_handler ==
  /\ Runs("write_handler")
  /\ queue' = Tail(queue)
  /\ size' \in IF app = "appending" THEN 0..size ELSE {Consumed(Head(queue).n)}
  /\ clash' = (clash \/ app = "appending")
  /\ UNCHANGED <<appVars, wire, closed, connected, io, stopped, ops, writes, socket>>

\* Mutant: run takes the stop event and goes on until nothing is left to do.
RunReturnsIdle ==
  /\ \/ Runs("stop_event") /\ Posts("stop_event") /\ UNCHANGED io
     \/ /\ io = "running" /\ queue = <<>> /\ ops = {} /\ writes = <<>>
        /\ queue' = <<Task("stop_event")>> /\ io' = "finished"
  /\ stopped' = TRUE
  /\ UNCHANGED <<appVars, bufVars, closed, connected, ops, writes, socket>>

\* io_context::run returns when it takes the stop event, which it posts again for
\* the next thread, or when nothing is left to do, which stops the io_context.
RunReturns ==
  /\ \/ Runs("stop_event") /\ Posts("stop_event")
     \/ /\ io = "running" /\ queue = <<>> /\ ops = {} /\ writes = <<>>
        /\ queue' = <<Task("stop_event")>>
  /\ io' = "finished" /\ stopped' = TRUE
  /\ UNCHANGED <<appVars, bufVars, closed, connected, ops, writes, socket>>

-----------------------------------------------------------------------------
(* The network: operations complete, and the server may close the connection *)

ResolveCompletes ==
  /\ "resolve" \in ops /\ ops' = ops \ {"resolve"}
  /\ \E op \in {"resolve_handler", "resolve_failed"} : queue' = Append(queue, Task(op))
  /\ UNCHANGED <<appVars, bufVars, closed, connected, io, stopped, writes, socket>>

ConnectCompletes ==
  /\ "connect" \in ops /\ ops' = ops \ {"connect"}
  /\ socket' \in {"open", "failed"}
  /\ queue' = Append(queue, Task("connect_handler"))
  /\ UNCHANGED <<appVars, bufVars, closed, connected, io, stopped, writes>>

\* With data, or with an error.
ReadCompletes ==
  /\ "read" \in ops /\ ops' = ops \ {"read"}
  /\ queue' = Append(queue, Task("read_handler"))
  /\ UNCHANGED <<appVars, bufVars, closed, connected, io, stopped, writes, socket>>

WriteCompletes ==
  /\ writes # <<>> /\ UNCHANGED clash
  /\ WriteDone(writes, queue)
  /\ UNCHANGED <<appVars, size, closed, connected, io, stopped, ops, socket>>

ServerCloses ==
  /\ socket = "open" /\ socket' = "lost"
  /\ UNCHANGED <<appVars, bufVars, closed, connected, io, stopped, queue, ops, writes>>

-----------------------------------------------------------------------------

clientStart ==
  Connect \/ StartThread \/ SendBegin \/ SendEnd \/ Close \/ CloseStops \/ Join \/ Restart

IoThread ==
  \/ resolve_handler \/ resolve_failed \/ connect_handler
  \/ Receive \/ read_handler \/ Process \/ Send \/ write_handler \/ RunReturns

Network ==
  \/ ResolveCompletes \/ ConnectCompletes \/ ReadCompletes \/ WriteCompletes
  \/ ServerCloses

ClientNext == clientStart \/ IoThread \/ Network

ClientSpec == ClientInit /\ [][ClientNext]_clientVars

\* The io thread runs, a socket completes the writes it has accepted, until Close,
\* and the application finishes the calls it has begun; when it sends the next
\* message or closes is left open, and so is whether the server ever sends anything.
ClientFairSpec ==
  /\ ClientSpec
  /\ WF_clientVars(IoThread)
  /\ WF_clientVars(closed # "yes" /\ WriteCompletes)
  /\ WF_clientVars(SendEnd \/ CloseStops \/ Join)

-----------------------------------------------------------------------------
(* Properties *)

ReadOps == {"Receive", "read_handler"}
ConnectOps == {"resolve_handler", "resolve_failed", "connect_handler"}
LaterOps == {"Receive", "read_handler", "Process", "Send", "write_handler"}

Posted(S) == {i \in 1..Len(queue) : queue[i].op \in S}

\* Every variable has its type; the buffer never holds more messages than were
\* sent, although two threads change it.
ClientTypeOK ==
  /\ app \in {"connect", "thread", "send", "appending", "stop", "join", "done"}
  /\ sent \in 0..MaxSends /\ size \in 0..sent
  /\ closed \in {"unset", "no", "yes"} /\ connected \in {"unset", "no", "yes"}
  /\ io \in {"none", "running", "finished"} /\ stopped \in BOOLEAN
  /\ queue \in Seq(Handler) /\ ops \subseteq {"resolve", "connect", "read"}
  /\ writes \in Seq(Write) /\ socket \in {"none", "failed", "open", "lost"}
  /\ clash \in BOOLEAN /\ wire \in Seq(Nat)

\* There is never more than one Process and one read: async_read is not started
\* on receivebuf while another one fills it or its data waits for read_handler.
OneChainEach ==
  /\ \A i, j \in Posted({"Process"}) : i = j
  /\ \A i, j \in Posted(ReadOps) : i = j
  /\ "read" \in ops => Posted(ReadOps) = {}

\* The members closed and connected, which the constructor does not set, are set
\* before Process or read_handler reads them, and the connection is established
\* only once.
SetBeforeRead ==
  \/ Posted(LaterOps) = {} /\ writes = <<>> /\ "read" \notin ops
  \/ /\ connected = "yes" /\ closed # "unset"
     /\ Posted(ConnectOps) = {} /\ ops \subseteq {"read"}

\* Once connect_handler has run, the client goes on processing and reading until
\* Close, whatever fails meanwhile.
ChainsUntilClose ==
  (connected = "yes" /\ closed = "no") =>
    /\ Posted({"Process"}) # {}
    /\ Posted(ReadOps) # {} \/ "read" \in ops

\* Close lets the application join the io thread: it never waits for a server
\* that sends nothing or for a write that is in flight, which need not complete.
CloseJoins == (closed = "yes") ~> (app = "done")

\* The way from Close to the end of the join: while the application waits, a stop
\* event is in the queue, every handler that the io thread runs brings it one place
\* forward, however many others it posts, and run returns when it is the first.
StopComesUp ==
  [][app = "join" /\ io = "running" =>
       /\ Posted({"stop_event"}) # {}
       /\ \A i \in Posted({"stop_event"}) :
            \/ io' = "finished"
            \/ IoThread /\ i > 1 /\ i - 1 \in Posted({"stop_event"})'
            \/ Network /\ i \in Posted({"stop_event"})']_clientVars

\* Every message that was sent, before or after the connection was established, is
\* written, and as the one that it is: the m-th on the wire is the m-th sent.  This
\* holds unless the connection is lost, the client closed, or mDataStreamSend used
\* by two at once: a write started before the end of the previous one, or a Send of
\* the application beside an outstanding write or the consume at its end.
EachWritten ==
  \A m \in 1..MaxSends :
    (sent >= m /\ socket = "open") ~>
      \/ Len(wire) >= m /\ wire[m] = m
      \/ clash \/ socket # "open" \/ closed = "yes"

\* What is on the wire are the messages in the order they were sent, each once, and
\* nothing is consumed from mDataStreamSend that is not there, however the sends of
\* the application, the writes and the consumes at their ends interleave, until
\* two use mDataStreamSend at once.
WrittenInOrder ==
  ~clash =>
    /\ \A i \in 1..Len(wire) : wire[i] = i
    /\ Len(wire) \in (sent - size)..sent

\* No async_write is started before the handler of the previous one has run.
OneClientWrite == \A i, j \in 1..Len(writes) : i = j

=============================================================================

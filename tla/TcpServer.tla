------------------------------ MODULE TcpServer ------------------------------
(***************************************************************************)
(* The protobuf server (MiniProtobufServer/TcpServer.h and main.cpp): the    *)
(* accept loop and any number of connections, all of whose handlers go       *)
(* through the one queue of the thread in io_context::run.  What a           *)
(* connection reads and writes is the subject of TcpConnection; here it is   *)
(* its handlers and its outstanding read and write, which are also what      *)
(* keeps the object alive.                                                   *)
(***************************************************************************)
EXTENDS Naturals, Sequences

CONSTANTS
  Clients,
  Answered,    \* the clients whose requests the server answers
  Overlap      \* whether Process may post a Send while a write is outstanding or
               \* its handle_write posted, as the code does; FALSE is a bound

NoClient == "server"       \* the handlers of TcpServer itself

ASSUME ClientsAssumption ==
  NoClient \notin Clients /\ Answered \subseteq Clients /\ Overlap \in BOOLEAN

VARIABLES
  server,     \* "running", or "ended" when TcpServerStart has returned
  queue,      \* the handlers posted to the io_context, oldest first
  accepting,  \* whether an async_accept is outstanding
  reading,    \* the connections with an outstanding async_read
  writing,    \* the connections with an outstanding async_write
  error,      \* the connections whose error is set
  client      \* a client: "away", "open" or "gone" (closed or reset)

serverVars == <<server, queue, accepting, reading, writing, error, client>>

ServerOps == {"TcpServer::Process", "accept_failed"}
ConnOps == {"handle_accept", "start_read", "handle_read", "read_failed",
            "Process", "Send", "handle_write"}
Handler == [op : ServerOps, c : {NoClient}] \cup [op : ConnOps, c : Clients]

Task(op, c) == [op |-> op, c |-> c]

Posted(op, c) == \E i \in 1..Len(queue) : queue[i] = Task(op, c)

\* The connection of c exists: a handler or an operation holds a shared_ptr to it.
Alive(c) == c \in reading \cup writing \/ \E op \in ConnOps : Posted(op, c)

\* TcpServer::start
ServerInit ==
  /\ server = "running"
  /\ queue = <<Task("TcpServer::Process", NoClient)>> /\ accepting = TRUE
  /\ reading = {} /\ writing = {} /\ error = {}
  /\ client = [c \in Clients |-> "away"]

-----------------------------------------------------------------------------
(* The handlers *)

Runs(op, c) == queue # <<>> /\ Head(queue) = Task(op, c)

\* TcpServer::Process posts itself again.
TcpServer_Process ==
  /\ Runs("TcpServer::Process", NoClient)
  /\ queue' = Append(Tail(queue), Head(queue))
  /\ UNCHANGED <<server, accepting, reading, writing, error, client>>

\* Mutants: only the read is posted; the next accept is not started.
handle_acceptDeaf(c) ==
  /\ Runs("handle_accept", c)
  /\ queue' = Append(Tail(queue), Task("start_read", c))
  /\ error' = error \ {c} /\ accepting' = TRUE
  /\ UNCHANGED <<server, reading, writing, client>>
handle_acceptOnce(c) ==
  /\ Runs("handle_accept", c)
  /\ queue' = Append(Append(Tail(queue), Task("start_read", c)), Task("Process", c))
  /\ error' = error \ {c}
  /\ UNCHANGED <<server, accepting, reading, writing, client>>

\* TcpServer::handle_accept without an error: TcpConnection::start, then
\* start_accept.  The loop that waits for sp_new_connection never waits, since
\* start_accept has reset it.
handle_accept(c) ==
  /\ Runs("handle_accept", c)
  /\ queue' = Append(Append(Tail(queue), Task("start_read", c)), Task("Process", c))
  /\ error' = error \ {c} /\ accepting' = TRUE
  /\ UNCHANGED <<server, reading, writing, client>>

\* remote_endpoint() throws when the client has gone meanwhile.  Nothing below
\* TcpServerStart catches that: run is left and the io_context destroyed, with
\* every handler and every connection.
start_throws(c) ==
  /\ Runs("handle_accept", c) /\ client[c] = "gone"
  /\ server' = "ended" /\ queue' = <<>>
  /\ accepting' = FALSE /\ reading' = {} /\ writing' = {} /\ error' = {}
  /\ UNCHANGED client

\* Mutant: an accept that failed is the last one.
accept_failedLast ==
  /\ Runs("accept_failed", NoClient)
  /\ queue' = Tail(queue)
  /\ UNCHANGED <<server, accepting, reading, writing, error, client>>

\* handle_accept with an error
accept_failed ==
  /\ Runs("accept_failed", NoClient)
  /\ queue' = Tail(queue) /\ accepting' = TRUE
  /\ UNCHANGED <<server, reading, writing, error, client>>

start_read(c) ==
  /\ Runs("start_read", c)
  /\ queue' = Tail(queue) /\ reading' = reading \cup {c}
  /\ UNCHANGED <<server, accepting, writing, error, client>>

\* Mutant: reading goes on at once and by a posted handler as well.
handle_readTwice(c) ==
  /\ Runs("handle_read", c)
  /\ queue' = Append(Tail(queue), Task("start_read", c))
  /\ reading' = reading \cup {c}
  /\ UNCHANGED <<server, accepting, writing, error, client>>

\* handle_read with data; error is not set while a read is outstanding.
handle_read(c) ==
  /\ Runs("handle_read", c)
  /\ queue' = IF c \in error THEN Tail(queue) ELSE Append(Tail(queue), Task("start_read", c))
  /\ UNCHANGED <<server, accepting, reading, writing, error, client>>

\* Mutant: a failed read is forgotten.
read_failedQuiet(c) ==
  /\ Runs("read_failed", c)
  /\ queue' = Tail(queue)
  /\ UNCHANGED <<server, accepting, reading, writing, error, client>>

\* handle_read with an error
read_failed(c) ==
  /\ Runs("read_failed", c)
  /\ queue' = Tail(queue) /\ error' = error \cup {c}
  /\ UNCHANGED <<server, accepting, reading, writing, client>>

\* Mutant: Process waits for the client instead of letting the others run.
ProcessHogs(c) ==
  /\ Runs("Process", c)
  /\ queue' = IF c \in error THEN Tail(queue) ELSE queue
  /\ UNCHANGED <<server, accepting, reading, writing, error, client>>

\* mDataStreamSend of c may hold something when its Process runs.
MaySend(c) ==
  c \in Answered /\ (Overlap \/ (c \notin writing /\ ~Posted("handle_write", c)))

\* Mutant: SendData does not ask for error.
ProcessSendsOn(c) ==
  /\ Runs("Process", c)
  /\ \E q \in {Tail(queue)} \cup
              (IF MaySend(c) THEN {Append(Tail(queue), Task("Send", c))} ELSE {}) :
       queue' = IF c \in error THEN q ELSE Append(q, Task("Process", c))
  /\ UNCHANGED <<server, accepting, reading, writing, error, client>>

\* TcpConnection::Process; there may be something to send, and then a Send goes
\* ahead of the next Process.
Process(c) ==
  /\ Runs("Process", c)
  /\ \E q \in {Tail(queue)} \cup
              (IF MaySend(c) /\ c \notin error
               THEN {Append(Tail(queue), Task("Send", c))} ELSE {}) :
       queue' = IF c \in error THEN q ELSE Append(q, Task("Process", c))
  /\ UNCHANGED <<server, accepting, reading, writing, error, client>>

\* Bound: the writes of a connection that are outstanding together complete
\* together.
Send(c) ==
  /\ Runs("Send", c)
  /\ queue' = Tail(queue) /\ writing' = writing \cup {c}
  /\ UNCHANGED <<server, accepting, reading, error, client>>

handle_write(c) ==
  /\ Runs("handle_write", c)
  /\ queue' = Tail(queue)
  /\ UNCHANGED <<server, accepting, reading, writing, error, client>>

-----------------------------------------------------------------------------
(* Clients and completions *)

\* A client connects; its connection waits in the acceptor's backlog.  It may come
\* back when its old connection is gone.
ClientConnects(c) ==
  /\ client[c] = "away" /\ client' = [client EXCEPT ![c] = "open"]
  /\ UNCHANGED <<server, queue, accepting, reading, writing, error>>

ClientLeaves(c) ==
  /\ client[c] = "open" /\ client' = [client EXCEPT ![c] = "gone"]
  /\ UNCHANGED <<server, queue, accepting, reading, writing, error>>

ClientForgets(c) ==
  /\ client[c] = "gone" /\ c \in error /\ ~Alive(c)
  /\ client' = [client EXCEPT ![c] = "away"] /\ error' = error \ {c}
  /\ UNCHANGED <<server, queue, accepting, reading, writing>>

\* async_accept completes with the connection of a client, present or gone ...
AcceptCompletes(c) ==
  /\ accepting /\ client[c] # "away" /\ c \notin error /\ ~Alive(c)
  /\ accepting' = FALSE /\ queue' = Append(queue, Task("handle_accept", c))
  /\ UNCHANGED <<server, reading, writing, error, client>>

\* ... or fails.
AcceptFails ==
  /\ accepting /\ accepting' = FALSE
  /\ queue' = Append(queue, Task("accept_failed", NoClient))
  /\ UNCHANGED <<server, reading, writing, error, client>>

\* The client sends, or it has gone.
ReadCompletes(c) ==
  /\ c \in reading /\ reading' = reading \ {c}
  /\ \/ queue' = Append(queue, Task("handle_read", c))
     \/ client[c] = "gone" /\ queue' = Append(queue, Task("read_failed", c))
  /\ UNCHANGED <<server, accepting, writing, error, client>>

\* The client takes the data, or it has gone.
WriteCompletes(c) ==
  /\ c \in writing /\ writing' = writing \ {c}
  /\ queue' = Append(queue, Task("handle_write", c))
  /\ UNCHANGED <<server, accepting, reading, error, client>>

-----------------------------------------------------------------------------

ConnHandler(c) ==
  \/ handle_accept(c) \/ start_throws(c) \/ start_read(c) \/ handle_read(c)
  \/ read_failed(c) \/ Process(c) \/ Send(c) \/ handle_write(c)

IoThread == TcpServer_Process \/ accept_failed \/ \E c \in Clients : ConnHandler(c)

ClientStep(c) == ClientConnects(c) \/ ClientLeaves(c) \/ ClientForgets(c)

Completion(c) == AcceptCompletes(c) \/ ReadCompletes(c) \/ WriteCompletes(c)

ServerNext ==
  IoThread \/ AcceptFails \/ \E c \in Clients : ClientStep(c) \/ Completion(c)

ServerSpec == ServerInit /\ [][ServerNext]_serverVars

\* The thread in run takes handlers; a client that waits is accepted if the
\* acceptor stays with it; what a client that has gone left behind completes.
ServerFairSpec ==
  /\ ServerSpec
  /\ WF_serverVars(IoThread)
  /\ \A c \in Clients :
       /\ SF_serverVars(AcceptCompletes(c))
       /\ WF_serverVars(client[c] = "gone" /\ WriteCompletes(c))
       /\ SF_serverVars(client[c] = "gone" /\ c \in reading /\ ReadCompletes(c)
                        /\ queue' = Append(queue, Task("read_failed", c)))

-----------------------------------------------------------------------------
(* Properties *)

\* Every variable has its type.
ServerTypeOK ==
  /\ server \in {"running", "ended"} /\ queue \in Seq(Handler)
  /\ accepting \in BOOLEAN
  /\ reading \subseteq Clients /\ writing \subseteq Clients /\ error \subseteq Clients
  /\ client \in [Clients -> {"away", "open", "gone"}]

AcceptHandlers == {i \in 1..Len(queue) : queue[i].op \in {"handle_accept", "accept_failed"}}
Handlers(ops, c) == {i \in 1..Len(queue) : queue[i].op \in ops /\ queue[i].c = c}
ReadOps == {"handle_accept", "start_read", "handle_read", "read_failed"}

\* As long as the server runs, there is exactly one accept outstanding or one of
\* its handlers posted: no accept is lost and no two are started on the acceptor.
OneAccept ==
  /\ \A i, j \in AcceptHandlers : i = j
  /\ accepting => AcceptHandlers = {}
  /\ server = "running" => accepting \/ AcceptHandlers # {}

\* Whatever happens to the others, a connection has one Process and one read until
\* a read of its own fails; after that no read is started.
ConnectionWhole ==
  \A c \in Clients :
    /\ \A i, j \in Handlers({"handle_accept", "Process"}, c) : i = j
    /\ \A i, j \in Handlers(ReadOps, c) : i = j
    /\ c \in reading => Handlers(ReadOps, c) = {}
    /\ c \in error => c \notin reading /\ Handlers(ReadOps, c) = {}
    /\ Alive(c) /\ c \notin error =>
         /\ Handlers({"handle_accept", "Process"}, c) # {}
         /\ c \in reading \/ Handlers(ReadOps, c) # {}

\* A client that waits is served, although every Process posts itself again,
\* unless it leaves or the server ends.
EachServed ==
  \A c \in Clients :
    (client[c] = "open" /\ ~Alive(c)) ~>
      (c \in reading \/ client[c] = "gone" \/ server = "ended")

\* The object of a connection whose client has gone is destroyed: no handler and
\* no operation holds it for ever, also when a write was outstanding.
ConnectionFreed ==
  \A c \in Clients : (client[c] = "gone" /\ Alive(c)) ~> (~Alive(c))

\* The way to the destructor: a connection is destroyed only after a read of its own
\* has failed, unless the server ends, and from the failure on nothing is started for
\* it: a Send it still has becomes a write and a write a handle_write, no more.
FailsThenFreed ==
  [][\A c \in Clients :
       /\ Alive(c) /\ ~Alive(c)' => c \in error \/ server' = "ended"
       /\ c \in error /\ Alive(c) /\ server' # "ended" =>
            /\ c \in error' /\ c \notin reading'
            /\ c \in writing' => c \in writing \/ Posted("Send", c)
            /\ \A op \in ConnOps :
                 Posted(op, c)' => Posted(op, c) \/ (op = "handle_write" /\ c \in writing)
    ]_serverVars

=============================================================================

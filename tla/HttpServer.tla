----------------------------- MODULE HttpServer -----------------------------
(***************************************************************************)
(* The life of the HTTP server (HttpServer/http_server.cpp), its             *)
(* connection_manager and its connections: accepting, reading, replying and  *)
(* stopping on a signal.  Every handler runs on the thread of                *)
(* io_service::run; an operation completes at some time, which queues its    *)
(* handler, and the handler runs later.  The handler sees the error code of  *)
(* the completion, although sockets may have been closed in between.         *)
(***************************************************************************)

EXTENDS Naturals

CONSTANT Conns      \* the clients that may connect, each once

VARIABLES
  acceptor,     \* acceptor_: "open" or "closed"
  accept,       \* the accept: NoOp, "pending", "error", "aborted" or a client
  signal,       \* the signal_set wait: "pending", "ready" or "done"
  connections,  \* connection_manager::connections_
  socket,       \* connection::socket_ of each client: "none", "open", "closed"
  op,           \* the operation of each connection: NoOp, "read" or "write"
  ec            \* its error code, "pending" until it is complete

httpVars == <<acceptor, accept, signal, connections, socket, op, ec>>

NoOp == "none"
Codes == {"ok", "error", "aborted"}

ASSUME ConnsAssumption == Conns \cap {NoOp, "pending", "error", "aborted"} = {}

HttpInit ==
  /\ acceptor = "open" /\ accept = "pending" /\ signal = "pending"
  /\ connections = {}
  /\ socket = [c \in Conns |-> "none"]
  /\ op = [c \in Conns |-> NoOp]
  /\ ec = [c \in Conns |-> "pending"]

-----------------------------------------------------------------------------
(* Starting and stopping *)

\* An operation on connection c is started; on a closed socket it completes at
\* once with bad_descriptor, which is an error other than operation_aborted.
Begin(c, what) ==
  /\ op' = [op EXCEPT ![c] = what]
  /\ ec' = [ec EXCEPT ![c] = IF socket[c] = "open" THEN "pending" ELSE "error"]

do_read(c) == Begin(c, "read")

do_write(c) == Begin(c, "write")

\* connection_manager::start: a connection with a new, open socket starts reading.
start(c) ==
  /\ connections' = connections \cup {c}
  /\ op' = [op EXCEPT ![c] = "read"]
  /\ ec' = [ec EXCEPT ![c] = "pending"]

\* Mutant: connection::stop is not called for a connection that has failed.
stopForgets(c) ==
  /\ connections' = connections \ {c}
  /\ UNCHANGED socket

\* connection_manager::stop: the connection is forgotten and its socket closed.
stop(c) ==
  /\ connections' = connections \ {c}
  /\ socket' = [socket EXCEPT ![c] = "closed"]

\* Mutant: the connections are forgotten, but what is pending on them goes on.
stop_allQuiet ==
  /\ connections' = {}
  /\ socket' = [c \in Conns |-> IF c \in connections THEN "closed" ELSE socket[c]]
  /\ UNCHANGED ec

\* connection_manager::stop_all: closing a socket aborts what is pending on it; an
\* operation that is complete keeps its code.
stop_all ==
  /\ connections' = {}
  /\ socket' = [c \in Conns |-> IF c \in connections THEN "closed" ELSE socket[c]]
  /\ ec' = [c \in Conns |->
              IF c \in connections /\ op[c] # NoOp /\ ec[c] = "pending"
              THEN "aborted" ELSE ec[c]]

-----------------------------------------------------------------------------
(* The handlers *)

\* Mutant: the handler does not ask whether the acceptor is still open.
accept_handlerUnchecked ==
  /\ accept \notin {NoOp, "pending"}
  /\ accept' = IF acceptor = "open" THEN "pending" ELSE "error"
  /\ IF accept \in Conns
     THEN socket' = [socket EXCEPT ![accept] = "open"] /\ start(accept)
     ELSE UNCHANGED <<connections, socket, op, ec>>
  /\ UNCHANGED <<acceptor, signal>>

\* Mutant: the accepted socket is not moved into the connection.
accept_handlerUnmoved ==
  /\ accept \notin {NoOp, "pending"}
  /\ accept' = IF acceptor = "open" THEN "pending" ELSE NoOp
  /\ IF acceptor = "open" /\ accept \in Conns
     THEN /\ connections' = connections \cup {accept}
          /\ op' = [op EXCEPT ![accept] = "read"]
          /\ ec' = [ec EXCEPT ![accept] = "error"]
     ELSE UNCHANGED <<connections, op, ec>>
  /\ UNCHANGED <<acceptor, signal, socket>>

\* Mutant: an accept that failed is the last one.
accept_handlerGivesUp ==
  /\ accept \notin {NoOp, "pending"}
  /\ IF acceptor = "open" /\ accept \in Conns
     THEN /\ socket' = [socket EXCEPT ![accept] = "open"] /\ start(accept)
          /\ accept' = "pending"
     ELSE accept' = NoOp /\ UNCHANGED <<connections, socket, op, ec>>
  /\ UNCHANGED <<acceptor, signal>>

\* do_accept's handler: nothing if the acceptor was closed meanwhile; otherwise
\* the new connection is started and the next accept begins.
accept_handler ==
  /\ accept \notin {NoOp, "pending"}
  /\ accept' = IF acceptor = "open" THEN "pending" ELSE NoOp
  /\ IF acceptor = "open" /\ accept \in Conns
     THEN socket' = [socket EXCEPT ![accept] = "open"] /\ start(accept)
     ELSE UNCHANGED <<connections, socket, op, ec>>
  /\ UNCHANGED <<acceptor, signal>>

Ends(c) == op' = [op EXCEPT ![c] = NoOp] /\ ec' = [ec EXCEPT ![c] = "pending"]

\* do_read's handler: the piece completes the request, spoils it or does neither.
read_handler(c) ==
  /\ op[c] = "read" /\ ec[c] # "pending"
  /\ \/ ec[c] = "ok" /\ (do_write(c) \/ do_read(c)) /\ UNCHANGED <<connections, socket>>
     \/ ec[c] = "error" /\ Ends(c) /\ stop(c)
     \/ ec[c] = "aborted" /\ Ends(c) /\ UNCHANGED <<connections, socket>>
  /\ UNCHANGED <<acceptor, accept, signal>>

\* Mutant: the connection is given up only after an error.
write_handlerKeeps(c) ==
  /\ op[c] = "write" /\ ec[c] # "pending"
  /\ Ends(c)
  /\ IF ec[c] = "error" THEN stop(c) ELSE UNCHANGED <<connections, socket>>
  /\ UNCHANGED <<acceptor, accept, signal>>

\* do_write's handler: one reply is sent for each connection.
write_handler(c) ==
  /\ op[c] = "write" /\ ec[c] # "pending"
  /\ Ends(c)
  /\ IF ec[c] # "aborted" THEN stop(c) ELSE UNCHANGED <<connections, socket>>
  /\ UNCHANGED <<acceptor, accept, signal>>

\* do_await_stop's handler
signal_handler ==
  /\ signal = "ready" /\ signal' = "done"
  /\ acceptor' = "closed"
  /\ accept' = IF accept = "pending" THEN "aborted" ELSE accept
  /\ stop_all
  /\ UNCHANGED op

-----------------------------------------------------------------------------
(* Completions: clients, the network and the signal *)

ClientConnects(c) ==
  /\ accept = "pending" /\ socket[c] = "none" /\ accept' = c
  /\ UNCHANGED <<acceptor, signal, connections, socket, op, ec>>

AcceptFails ==
  /\ accept = "pending" /\ accept' = "error"
  /\ UNCHANGED <<acceptor, signal, connections, socket, op, ec>>

Completes(c) ==
  /\ op[c] # NoOp /\ ec[c] = "pending"
  /\ \E e \in {"ok", "error"} : ec' = [ec EXCEPT ![c] = e]
  /\ UNCHANGED <<acceptor, accept, signal, connections, socket, op>>

Signal ==
  /\ signal = "pending" /\ signal' = "ready"
  /\ UNCHANGED <<acceptor, accept, connections, socket, op, ec>>

Handlers(c) == read_handler(c) \/ write_handler(c)

HttpNext ==
  \/ accept_handler \/ signal_handler
  \/ \E c \in Conns : Handlers(c) \/ Completes(c) \/ ClientConnects(c)
  \/ AcceptFails \/ Signal

HttpSpec == HttpInit /\ [][HttpNext]_httpVars

\* A queued handler runs, and a reply that is being written gets through or fails.
HttpFairSpec ==
  /\ HttpSpec
  /\ WF_httpVars(accept_handler) /\ WF_httpVars(signal_handler)
  /\ \A c \in Conns : /\ WF_httpVars(Handlers(c))
                      /\ WF_httpVars(op[c] = "write" /\ Completes(c))

-----------------------------------------------------------------------------
(* Properties *)

\* Every variable has its type, and only a connection that has been given its
\* socket reads or writes.
HttpTypeOK ==
  /\ acceptor \in {"open", "closed"} /\ signal \in {"pending", "ready", "done"}
  /\ accept \in Conns \cup {NoOp, "pending", "error", "aborted"}
  /\ connections \subseteq Conns
  /\ socket \in [Conns -> {"none", "open", "closed"}]
  /\ op \in [Conns -> {NoOp, "read", "write"}]
  /\ ec \in [Conns -> Codes \cup {"pending"}]
  /\ \A c \in Conns : socket[c] = "none" => op[c] = NoOp

\* connections_ holds exactly the connections whose socket is open, and each of
\* them has an operation outstanding that will end it: none is left in the set
\* for ever, and stop_all reaches them all.
Managed ==
  \A c \in Conns : /\ c \in connections <=> socket[c] = "open"
                   /\ c \in connections => op[c] # NoOp

\* server::run: "While the server is running, there is always at least one
\* asynchronous operation outstanding: the asynchronous accept call".
AcceptOutstanding == acceptor = "open" => accept # NoOp

\* Once the signal has been handled no connection is open or opens again, also
\* when a client was accepted just before.
StoppedForGood == signal = "done" => acceptor = "closed" /\ connections = {}

\* io_service::run has nothing left to wait for and returns.
RunReturns == accept = NoOp /\ signal = "done" /\ \A c \in Conns : op[c] = NoOp

\* do_await_stop: "Once all operations have finished the io_service::run() call
\* will exit": a signal ends the server, whatever is in progress.
SignalStops == (signal # "pending") ~> RunReturns

\* What is left to run for an operation: 2 for one that was successful and may start
\* another, 1 for one that failed, 0 for none.
Left(c) == CASE op[c] = NoOp -> 0 [] op[c] # NoOp /\ ec[c] = "ok" -> 2 [] OTHER -> 1

\* The way from the signal to the return of run: after signal_handler every step
\* runs one of the handlers that are queued, each leaves less to run, for the
\* accept or for its connection, and none gives another more to do.
WindsDown ==
  [][signal = "done" =>
       /\ accept' \in {accept, NoOp}
       /\ \A c \in Conns : Left(c)' <= Left(c)
       /\ accept' # accept \/ \E c \in Conns : Left(c)' < Left(c)]_httpVars

\* A connection that is being answered is given up afterwards.
AnsweredThenClosed == \A c \in Conns : (op[c] = "write") ~> (socket[c] = "closed")

=============================================================================

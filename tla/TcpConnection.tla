---------------------------- MODULE TcpConnection ----------------------------
(***************************************************************************)
(* One TcpConnection of the server (MiniProtobufServer/TcpServer.cpp) with   *)
(* its MessageRoute.  All its handlers run on the one thread that calls      *)
(* io_context::run, which takes posted handlers in the order they were       *)
(* posted.  Two chains of handlers keep the connection alive:                *)
(*                                                                           *)
(*   start_read -> handle_read -> start_read -> ...    until a read fails    *)
(*   Process -> Process -> ...                         until error is set    *)
(*                                                                           *)
(* and Process posts a Send whenever mDataStreamSend is not empty.  The      *)
(* order of the handlers of the second chain matters and is kept in queue;   *)
(* the first chain only meets it in mDataStreamReceive and error, so it may  *)
(* run at any time.                                                          *)
(***************************************************************************)
EXTENDS MessageRoute

CONSTANTS
  MaxTransfer,   \* asio: bytes async_write passes to one async_write_some
  Backpressure,  \* whether the socket may have no room: a write_some then
                 \* completes only later
  MaxInflight    \* bound: write_some operations the socket has not completed

ASSUME TransferAssumption ==
  MaxTransfer \in Nat \ {0} /\ Backpressure \in BOOLEAN /\ MaxInflight \in Nat

VARIABLES
  queue,      \* the posted handlers of the Process chain, oldest first
  inflight,   \* write_some operations the socket has not completed, oldest first
  con,        \* bytes consumed from mDataStreamSend
  tx,         \* history: the pieces of mDataStreamSend put on the wire
  rd,         \* the read chain: "posted", "reading" or "stopped"
  error,      \* TcpConnection::error
  peer        \* the client: "open", "closed" (it sent FIN) or "reset"

sendVars == <<queue, inflight, con, tx>>
connVars == <<routeVars, sendVars, rd, error, peer>>

(* A handler.  "Written" is the completion of a write_some inside async_write: *)
(* the write covers len bytes from position from on, n of them were done       *)
(* before and m are done by this write_some.                                   *)
Handler == [op : {"Process", "Send", "Written"},
            from : Nat, len : Nat, n : Nat, m : Nat]

Task(op) == [op |-> op, from |-> 0, len |-> 0, n |-> 0, m |-> 0]

Written(from, len, n, m) ==
  [op |-> "Written", from |-> from, len |-> len, n |-> n, m |-> m]

ConnInit ==
  /\ RouteInit
  /\ queue = <<Task("Process")>> /\ inflight = <<>>     \* TcpConnection::start
  /\ con = 0 /\ tx = <<>>
  /\ rd = "posted" /\ error = FALSE /\ peer = "open"

-----------------------------------------------------------------------------
(* Reading *)

start_read ==
  /\ rd = "posted"
  /\ rd' = "reading"
  /\ UNCHANGED <<routeVars, sendVars, error, peer>>

\* Mutant: no new read is started.
handle_readOnce(n) ==
  /\ rd = "reading"
  /\ Receive(n)
  /\ rd' = "stopped"
  /\ UNCHANGED <<sendVars, error, peer>>

\* handle_read without an error: n bytes go to MessageRoute::Receive.
handle_read(n) ==
  /\ rd = "reading"
  /\ Receive(n)
  /\ rd' = IF error THEN "stopped" ELSE "posted"
  /\ UNCHANGED <<sendVars, error, peer>>

\* handle_read with an error: end of file once everything has been read, or a
\* reset at any time.
handle_read_error ==
  /\ rd = "reading"
  /\ peer = "reset" \/ (peer = "closed" /\ arrived = StreamEnd(wire))
  /\ error' = TRUE
  /\ rd' = "stopped"
  /\ UNCHANGED <<routeVars, sendVars, peer>>

-----------------------------------------------------------------------------
(* Processing and sending *)

Runs(op) == queue # <<>> /\ Head(queue).op = op

\* TcpConnection::SendData: a Send is posted to the handlers q, unless error is set.
SendData(q) == IF error THEN q ELSE Append(q, Task("Send"))

\* MessageRoute::ProcessSend, called when ProcessRecv has made its step.
ProcessSend(q) == IF StreamEnd(out') > con THEN SendData(q) ELSE q

\* Mutant: the next Process is posted before the Send.
ProcessFirst ==
  /\ Runs("Process")
  /\ ProcessRecv
  /\ queue' = ProcessSend(IF error THEN Tail(queue)
                          ELSE Append(Tail(queue), Task("Process")))
  /\ UNCHANGED <<inflight, con, tx, rd, error, peer>>

\* Mutant: Process is posted again whether or not error is set.
ProcessForever ==
  /\ Runs("Process")
  /\ ProcessRecv
  /\ queue' = Append(ProcessSend(Tail(queue)), Task("Process"))
  /\ UNCHANGED <<inflight, con, tx, rd, error, peer>>

\* Mutant: SendData does not ask for error.
ProcessSendsOn ==
  /\ Runs("Process")
  /\ ProcessRecv
  /\ LET q == IF StreamEnd(out') > con THEN Append(Tail(queue), Task("Send"))
              ELSE Tail(queue)
     IN  queue' = IF error THEN q ELSE Append(q, Task("Process"))
  /\ UNCHANGED <<inflight, con, tx, rd, error, peer>>

\* Mutant: Process is posted again only if there is nothing to send.
ProcessElse ==
  /\ Runs("Process")
  /\ ProcessRecv
  /\ LET q == ProcessSend(Tail(queue))
     IN  queue' = IF error \/ q # Tail(queue) THEN q ELSE Append(q, Task("Process"))
  /\ UNCHANGED <<inflight, con, tx, rd, error, peer>>

\* TcpConnection::Process: one step of the route, then the next Process.
Process ==
  /\ Runs("Process")
  /\ ProcessRecv
  /\ LET q == ProcessSend(Tail(queue))
     IN  queue' = IF error THEN q ELSE Append(q, Task("Process"))
  /\ UNCHANGED <<inflight, con, tx, rd, error, peer>>

\* A piece of mDataStreamSend goes on the wire; an empty one leaves no trace.
Transmit(from, n) == IF n = 0 THEN tx ELSE Append(tx, [from |-> from, len |-> n])

\* async_write_some of what is left of a write of len bytes at from, n of which
\* are done; the other handlers in the queue are q.  On a reset socket it fails
\* at once and nothing is sent; with nothing left it completes at once.
WriteSome(from, len, n, q) ==
  LET left == len - n
      m    == IF left <= MaxTransfer THEN left ELSE MaxTransfer
  IN  IF peer = "reset"
      THEN /\ queue' = Append(q, Written(from, n, n, 0))    \* gives up
           /\ UNCHANGED <<inflight, tx>>
      ELSE IF Backpressure /\ m > 0
      THEN /\ Len(inflight) < MaxInflight
           /\ queue' = q
           /\ inflight' = Append(inflight, Written(from, len, n, m))
           /\ UNCHANGED tx
      ELSE /\ queue' = Append(q, Written(from, len, n, m))
           /\ tx' = Transmit(from + n, m)
           /\ UNCHANGED inflight

\* TcpConnection::Send: async_write of what mDataStreamSend holds now.
SendHandler ==
  /\ Runs("Send")
  /\ WriteSome(con, StreamEnd(out) - con, 0, Tail(queue))
  /\ UNCHANGED <<routeVars, con, rd, error, peer>>

\* Mutants: handle_write consumes what async_write has consumed already; nobody
\* consumes it; the whole buffer is cleared, replies queued meanwhile included.
handle_writeTwice ==
  /\ Runs("Written")
  /\ queue' = Tail(queue)
  /\ con' = con + 2 * (Head(queue).n + Head(queue).m)
  /\ UNCHANGED <<routeVars, inflight, tx, rd, error, peer>>
handle_writeKeeps ==
  /\ Runs("Written")
  /\ queue' = Tail(queue)
  /\ UNCHANGED <<routeVars, con, inflight, tx, rd, error, peer>>
handle_writeClears ==
  /\ Runs("Written")
  /\ queue' = Tail(queue)
  /\ con' = StreamEnd(out)
  /\ UNCHANGED <<routeVars, inflight, tx, rd, error, peer>>

\* The completion of a write_some: the rest is written, or the write is complete;
\* then its bytes are consumed, never more than there are, and handle_write runs.
handle_write ==
  /\ Runs("Written")
  /\ LET w    == Head(queue)
         done == w.n + w.m
     IN  IF done < w.len
         THEN /\ WriteSome(w.from, w.len, done, Tail(queue))
              /\ UNCHANGED con
         ELSE /\ queue' = Tail(queue)
              /\ con' = IF con + done <= StreamEnd(out) THEN con + done
                        ELSE StreamEnd(out)
              /\ UNCHANGED <<inflight, tx>>
  /\ UNCHANGED <<routeVars, rd, error, peer>>

\* The oldest write_some completes: the socket has room again, or was reset.
SocketDrains ==
  /\ inflight # <<>>
  /\ LET w == Head(inflight)
     IN  IF peer = "reset"
         THEN /\ queue' = Append(queue, Written(w.from, w.n, w.n, 0))
              /\ UNCHANGED tx
         ELSE /\ queue' = Append(queue, w)
              /\ tx' = Transmit(w.from + w.n, w.m)
  /\ inflight' = Tail(inflight)
  /\ UNCHANGED <<routeVars, con, rd, error, peer>>

-----------------------------------------------------------------------------
(* The client, seen from the server *)

ClientSends ==
  /\ peer = "open"
  /\ \E p \in Packets : PeerSend(p)
  /\ UNCHANGED <<sendVars, rd, error, peer>>

ClientCloses ==
  /\ peer = "open"
  /\ peer' = "closed"
  /\ UNCHANGED <<routeVars, sendVars, rd, error>>

ClientResets ==
  /\ peer # "reset"
  /\ peer' = "reset"
  /\ UNCHANGED <<routeVars, sendVars, rd, error>>

-----------------------------------------------------------------------------

ReadSome == \E n \in 1..(StreamEnd(wire) - arrived) : handle_read(n)

ReadChain == start_read \/ ReadSome \/ handle_read_error

ProcessChain == Process \/ SendHandler \/ handle_write

\* "Connect Lost": no handler refers to the connection, so it is destroyed.
Lost == queue = <<>> /\ inflight = <<>> /\ rd = "stopped"

ConnNext ==
  \/ ReadChain \/ ProcessChain \/ SocketDrains
  \/ ClientSends \/ ClientCloses \/ ClientResets

ConnSpec == ConnInit /\ [][ConnNext]_connVars

\* io_context::run takes every posted handler, and a socket operation that can
\* complete does.
ConnFairSpec ==
  /\ ConnSpec
  /\ WF_connVars(ReadChain) /\ WF_connVars(ProcessChain)
  /\ WF_connVars(SocketDrains)

-----------------------------------------------------------------------------
(* Properties *)

Chunk == [from : Nat, len : Nat]

\* The end of what has been put on the wire
TxEnd == IF tx = <<>> THEN 0 ELSE tx[Len(tx)].from + tx[Len(tx)].len

\* Every variable has its type; async_write never consumes more of
\* mDataStreamSend than Send has put there.
ConnTypeOK ==
  /\ RouteTypeOK
  /\ queue \in Seq(Handler) /\ inflight \in Seq(Handler)
  /\ con \in 0..StreamEnd(out) /\ tx \in Seq(Chunk)
  /\ rd \in {"posted", "reading", "stopped"}
  /\ error \in BOOLEAN /\ peer \in {"open", "closed", "reset"}

\* The bytes that Send puts on the wire are those of mDataStreamSend, each once
\* and in order, although async_write, the consume at its end and the next
\* replies interleave.
TxInOrder ==
  \A i \in 1..Len(tx) :
    tx[i].from = IF i = 1 THEN 0 ELSE tx[i - 1].from + tx[i - 1].len

\* At most one async_write is outstanding: the next is started only after the
\* handler of the previous one has run.
OneWriteAtATime ==
  LET Pending == {i \in 1..Len(queue) : queue[i].op = "Written"}
  IN  /\ \A i, j \in Pending : i = j
      /\ \A i, j \in 1..Len(inflight) : i = j
      /\ Pending = {} \/ inflight = <<>>

\* When the client is gone, both chains end and the connection is destroyed.
LostAfterClose == (peer # "open") ~> Lost

Queued(op) == \E i \in 1..Len(queue) : queue[i].op = op

\* What happens after a failed read: no read is started and no handler added, nor a
\* Process or Send in the place of another.  The Process that is still queued may
\* dispatch a request, but it is the last one, and no Send follows it: the reply
\* stays in mDataStreamSend.
AfterError ==
  [][error =>
       /\ error' /\ rd' = "stopped"
       /\ Len(queue') + Len(inflight') <= Len(queue) + Len(inflight)
       /\ \A op \in {"Process", "Send"} :
            Queued(op)' => Queued(op) /\ UNCHANGED <<pos, dispatched, out>>]_connVars

\* A deliverable request that the client has sent reaches its Processor, unless
\* the connection fails first.
RequestProcessed ==
  \A k \in 1..MaxPackets :
    (Len(wire) >= k /\ Deliverable(wire[k])) ~>
      (error \/ \E i \in 1..Len(dispatched) : dispatched[i] = k)

\* Every reply that a Processor has queued goes on the wire completely, unless
\* the connection fails first.
ReplySent ==
  \A k \in 1..MaxPackets :
    (Len(out) >= k) ~>
      (error \/ (Len(out) >= k /\ TxEnd >= out[k].at + FrameLen(out[k])))

=============================================================================

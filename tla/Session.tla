------------------------------- MODULE Session -------------------------------
(***************************************************************************)
(* A client and its TcpConnection in the server, joined by one TCP            *)
(* connection.  The server's half is TcpConnection; the client's half is the  *)
(* receiving side of its TcpClient with the client's own MessageRoute, which  *)
(* reads the stream that the server's route has written: what is out to the   *)
(* server is wire to the client.  The requests are whole packets in the       *)
(* stream, as MessageRoute::Send makes them; the client's processors send     *)
(* nothing, so its route has no packets of its own.                           *)
(*                                                                            *)
(* The socket has room for the replies, so that the bytes on the wire are     *)
(* those of out in order (TxInOrder).                                         *)
(***************************************************************************)
EXTENDS TcpConnection

CONSTANT
  ClientProcessorMap   \* m_ProcessorMap of the client: no processor answers

\* What the server's processors answer with.
Replies == UNION {ProcessorMap[t] : t \in DOMAIN ProcessorMap}

ASSUME SessionAssumption ==
  /\ Backpressure = FALSE
  /\ \A p \in Replies : p.head >= 4
  /\ DOMAIN ClientProcessorMap \subseteq KnownTypes
  /\ \A t \in DOMAIN ClientProcessorMap : ClientProcessorMap[t] = {}

VARIABLES
  cArrived, cPos, cPreTotalLen, cDispatched,  \* the client's MessageRoute
  asked   \* history: the request that each packet of out answers, by number

clientVars == <<cArrived, cPos, cPreTotalLen, cDispatched>>
sessionVars == <<connVars, clientVars, asked>>

Client == INSTANCE MessageRoute WITH
  Packets <- Replies, ProcessorMap <- ClientProcessorMap,
  wire <- out, out <- <<>>, arrived <- cArrived, pos <- cPos,
  preTotalLen <- cPreTotalLen, dispatched <- cDispatched

SessionInit ==
  /\ ConnInit
  /\ cArrived = 0 /\ cPos = 0 /\ cPreTotalLen \in GarbageLen
  /\ cDispatched = <<>> /\ asked = <<>>

\* A step A of the server, or of the application that sends, closes or resets.
Server(A) ==
  /\ A
  /\ asked' = IF Len(out') > Len(out) THEN Append(asked, dispatched'[Len(dispatched')])
              ELSE asked
  /\ UNCHANGED clientVars

\* TcpClient::read_handler: n of the bytes on the wire go to the client's route.
\* The next read is started at once; Close stops the io_context.
read_handler(n) ==
  /\ peer = "open"
  /\ cArrived + n <= TxEnd
  /\ Client!Receive(n)
  /\ UNCHANGED <<connVars, asked>>

ClientReads == \E n \in 1..(StreamEnd(out) - cArrived) : read_handler(n)

\* TcpClient::Process, as far as it receives.
ClientProcess ==
  /\ peer = "open"
  /\ Client!ProcessRecv
  /\ UNCHANGED <<connVars, asked>>

SessionNext ==
  \/ Server(ReadChain) \/ Server(ProcessChain)
  \/ Server(ClientSends) \/ Server(ClientCloses) \/ Server(ClientResets)
  \/ ClientReads \/ ClientProcess

SessionSpec == SessionInit /\ [][SessionNext]_sessionVars

\* Both io threads take every handler.
SessionFairSpec ==
  /\ SessionSpec
  /\ WF_sessionVars(Server(ReadChain)) /\ WF_sessionVars(Server(ProcessChain))
  /\ WF_sessionVars(ClientReads) /\ WF_sessionVars(ClientProcess)

-----------------------------------------------------------------------------
(* Properties *)

\* Every variable of the client's side has its type; the client has received
\* nothing that the server has not put on the wire.
SessionTypeOK ==
  /\ cArrived \in 0..TxEnd /\ cPos \in 0..cArrived
  /\ cPreTotalLen \in Int /\ cDispatched \in Seq(Nat) /\ asked \in Seq(Nat)

\* What reaches a processor of the client is a reply to a request of its own: the
\* j-th packet of the server answers the j-th request that was answered, with the
\* type registered for it, and replies are dispatched in the order of the
\* requests, whatever pieces both streams arrive in.
AnswersMatch ==
  /\ Len(asked) = Len(out)
  /\ \A i, j \in 1..Len(asked) : i < j => asked[i] < asked[j]
  /\ \A i \in 1..Len(cDispatched) :
       LET j == cDispatched[i]
       IN  /\ j \in 1..Len(out) /\ asked[j] \in 1..Len(wire)
           /\ wire[asked[j]].type \in DOMAIN ProcessorMap
           /\ \E p \in ProcessorMap[wire[asked[j]].type] : out[j] = Place(p, out[j].at)
  /\ \A i, j \in 1..Len(cDispatched) : i < j => cDispatched[i] < cDispatched[j]

Answered(p) ==
  Deliverable(p) /\ \E r \in ProcessorMap[p.type] : Client!Deliverable(r)

\* Every request that has an answer gets it: the reply reaches its processor in
\* the client, unless the client closes the connection or it is reset.
RequestAnswered ==
  \A k \in 1..MaxPackets :
    (Len(wire) >= k /\ Answered(wire[k])) ~>
      (peer # "open" \/ \E i \in 1..Len(cDispatched) : asked[cDispatched[i]] = k)

\* What a packet says, without its place in the stream.
Contents(p) == [type |-> p.type, head |-> p.head, body |-> p.body]

AnswersOf(p) == ProcessorMap[p.type]
ShownByClient(p) == Client!Deliverable(p)

\* Client and server implement Exchange: requests and replies are those whose
\* bytes have been appended to the streams, served and taken are those whose last
\* byte the ProcessRecv of the server and of the client has consumed.  In
\* particular no request is answered twice, or for another one, or not at all
\* though its processor answers, in whatever pieces the streams are read.
Abstract == INSTANCE Exchange WITH
  Requests <- Packets, Serves <- Deliverable, Answers <- AnswersOf,
  Shows    <- ShownByClient,
  requests <- [k \in 1..Len(wire) |-> Contents(wire[k])],
  served   <- Passed(pos),
  replies  <- [j \in 1..Len(out) |-> [to |-> asked[j], packet |-> Contents(out[j])]],
  taken    <- Client!Passed(cPos),
  shown    <- cDispatched

ImplementsExchange == Abstract!Spec

=============================================================================

---------------------------- MODULE SessionProofs ----------------------------
(***************************************************************************)
(* Proofs about Session.  The server's half: each reply answers one request, *)
(* in order, and the client reads only what is on the wire.  The client's:   *)
(* its route is an instance of MessageRoute, so what is proved of every      *)
(* route is proved of it once each step of the session is shown to be a step *)
(* of that route or none.                                                    *)
(***************************************************************************)
EXTENDS Session, TcpConnectionProofs

\* Reply i is the answer of the processor that request asked[i] was dispatched to.
Answers(i) ==
  /\ asked[i] \in 1..Len(wire) /\ wire[asked[i]].type \in DOMAIN ProcessorMap
  /\ \E p \in ProcessorMap[wire[asked[i]].type] : out[i] = Place(p, out[i].at)

\* Every reply has its request, one that was dispatched; the requests are in
\* order, so that there are never more replies than requests.
AskedInv ==
  /\ asked \in Seq(Nat) /\ Len(asked) = Len(out) /\ Len(wire) <= MaxPackets
  /\ \A i \in 1..Len(asked) :
       /\ i <= asked[i] /\ Answers(i)
       /\ \E d \in 1..Len(dispatched) : dispatched[d] = asked[i]
  /\ \A i, j \in 1..Len(asked) : i < j => asked[i] < asked[j]

\* Server notes the request of a new reply, the one it dispatched last.
Recorded ==
  asked' = IF Len(out') > Len(out) THEN Append(asked, dispatched'[Len(dispatched')])
           ELSE asked

\* The server's route appends one reply to its stream.
Replied == Len(out) < MaxPackets /\ \E rsp \in Replies : out' = Send(out, rsp)

-----------------------------------------------------------------------------
(* The server's steps *)

\* A ProcessRecv answers nothing, or dispatches a request and answers it.
LEMMA ProcessRecvAnswers ==
  ASSUME ProcessRecv
  PROVE  /\ wire' = wire
         /\ \/ UNCHANGED <<dispatched, out>>
            \/ \E k \in 1..Len(wire) : Dispatch(k)
<1>1. ASSUME NEW u, NEW p, Unpack(u, p)
      PROVE  UNCHANGED <<dispatched, out>> \/ \E k \in 1..Len(wire) : Dispatch(k)
  BY <1>1 DEF Unpack
<1>2. UNCHANGED <<dispatched, out>> \/ \E u, p : Unpack(u, p)
  BY DEF ProcessRecv, NoData, Resume, NotHead, IsHead
<1> QED BY <1>1, <1>2 DEF ProcessRecv

\* What a step of the server does to the streams: a request is sent, a request is
\* dispatched and perhaps answered, or neither.
LEMMA ServerOutcome ==
  ASSUME [ConnNext]_connVars
  PROVE  \/ UNCHANGED <<wire, dispatched, out>>
         \/ /\ Len(wire) < MaxPackets /\ UNCHANGED <<dispatched, out>>
            /\ \E p \in Packets : wire' = Send(wire, p)
         \/ wire' = wire /\ \E k \in 1..Len(wire) : Dispatch(k)
<1>1. CASE ReadSome
  BY <1>1 DEF ReadSome, handle_read, Receive
<1>2. CASE ClientSends
  BY <1>2 DEF ClientSends, PeerSend
<1>3. CASE Process
  BY <1>3, ProcessRecvAnswers DEF Process
<1>4. CASE handle_write \/ SendHandler \/ SocketDrains
  BY <1>4 DEF handle_write, SendHandler, SocketDrains, routeVars
<1>5. CASE start_read \/ handle_read_error \/ ClientCloses \/ ClientResets
  BY <1>5 DEF start_read, handle_read_error, ClientCloses, ClientResets, routeVars
<1>6. CASE UNCHANGED connVars
  BY <1>6 DEF connVars, routeVars
<1> QED BY <1>1, <1>2, <1>3, <1>4, <1>5, <1>6 DEF ConnNext, ReadChain, ProcessChain

\* Further requests, and dispatches without an answer, change no answer.
LEMMA AskedKept ==
  ASSUME SoundInv, SoundInv', AskedInv, UNCHANGED <<out, asked>>,
         Len(wire') <= MaxPackets, Len(wire) <= Len(wire'),
         \A k \in 1..Len(wire) : wire'[k] = wire[k],
         Len(dispatched) <= Len(dispatched'),
         \A d \in 1..Len(dispatched) : dispatched'[d] = dispatched[d]
  PROVE  AskedInv'
<1>1. /\ Len(wire) \in Nat /\ Len(wire') \in Nat
      /\ Len(dispatched) \in Nat /\ Len(dispatched') \in Nat
  <2>1. /\ IsStream(wire) /\ IsStream(wire)'
        /\ dispatched \in Seq(Nat) /\ dispatched' \in Seq(Nat)
    BY DEF SoundInv, RouteTypeOK
  <2>2. Len(wire) \in Nat /\ Len(wire') \in Nat
    BY <2>1 DEF IsStream
  <2> QED BY <2>1, <2>2
<1>2. asked \in Seq(Nat) /\ Len(asked) \in Nat
  BY DEF AskedInv
<1>3. ASSUME NEW i \in 1..Len(asked)
      PROVE  Answers(i)' /\ \E d \in 1..Len(dispatched') : dispatched'[d] = asked[i]
  <2>1. Answers(i) /\ \E d \in 1..Len(dispatched) : dispatched[d] = asked[i]
    BY DEF AskedInv
  <2>2. asked[i] \in 1..Len(wire') /\ wire'[asked[i]] = wire[asked[i]]
    BY <1>1, <2>1 DEF Answers
  <2>3. Answers(i)'
    BY <2>1, <2>2 DEF Answers
  <2> QED BY <1>1, <2>1, <2>3
<1> QED BY <1>2, <1>3 DEF AskedInv

\* An answer is the reply to a request later than all that were answered.
LEMMA AskedAnswer ==
  ASSUME SoundInv, SoundInv', AskedInv, wire' = wire,
         NEW k \in 1..Len(wire), wire[k].type \in DOMAIN ProcessorMap,
         NEW rsp \in ProcessorMap[wire[k].type],
         out' = Send(out, rsp), dispatched' = Append(dispatched, k),
         asked' = Append(asked, k)
  PROVE  AskedInv' /\ Len(out) < MaxPackets
<1>1. /\ Len(wire) \in Nat /\ k \in Nat /\ MaxPackets \in Nat
      /\ dispatched \in Seq(Nat) /\ IsStream(out) /\ rsp \in Packet
  <2>1. IsStream(wire) /\ IsStream(out) /\ dispatched \in Seq(Nat)
    BY DEF SoundInv, RouteTypeOK
  <2>2. Len(wire) \in Nat
    BY <2>1, StreamFacts
  <2>3. rsp \in Packet
    BY ProcessorMapAssumption
  <2> QED BY <2>1, <2>2, <2>3, SizesAssumption
<1>2. /\ Len(dispatched) \in Nat /\ Len(dispatched') = Len(dispatched) + 1
      /\ dispatched'[Len(dispatched) + 1] = k
      /\ \A d \in 1..Len(dispatched) : dispatched'[d] = dispatched[d]
  BY <1>1
<1>3. \A d \in 1..Len(dispatched) : dispatched[d] < k
  <2>1. \A i, j \in 1..Len(dispatched') : i < j => dispatched'[i] < dispatched'[j]
    BY DEF SoundInv, DispatchedInOrder
  <2>2. ASSUME NEW d \in 1..Len(dispatched) PROVE dispatched'[d] < dispatched'[Len(dispatched) + 1]
    <3>1. d \in 1..Len(dispatched') /\ Len(dispatched) + 1 \in 1..Len(dispatched')
      BY <1>2
    <3>2. d < Len(dispatched) + 1
      BY <1>2
    <3> QED BY <2>1, <3>1, <3>2
  <2> QED BY <1>2, <2>2
<1>4. /\ asked \in Seq(Nat) /\ Len(asked) = Len(out) /\ Len(asked) \in Nat
      /\ Len(wire) <= MaxPackets
  BY DEF AskedInv
<1>5. /\ asked' \in Seq(Nat) /\ Len(asked') = Len(asked) + 1
      /\ asked'[Len(asked) + 1] = k
      /\ \A i \in 1..Len(asked) : asked'[i] = asked[i]
  BY <1>1, <1>4
<1>6. /\ Len(out') = Len(out) + 1
      /\ \A i \in 1..Len(out) : out'[i] = out[i]
  BY <1>1, SendStream
<1>7. out'[Len(out) + 1] = Place(rsp, StreamEnd(out))
  BY <1>1, <1>4 DEF Send, IsStream
<1>8. ASSUME NEW i \in 1..Len(asked)
      PROVE  /\ i <= asked[i] /\ asked[i] < k
             /\ asked[i] \in Nat /\ Answers(i)
             /\ \E d \in 1..Len(dispatched) : dispatched[d] = asked[i]
  <2>1. /\ i <= asked[i] /\ Answers(i)
        /\ \E d \in 1..Len(dispatched) : dispatched[d] = asked[i]
    BY DEF AskedInv
  <2>2. asked[i] < k
    BY <1>3, <2>1
  <2>3. asked[i] \in Nat
    BY <1>4
  <2> QED BY <2>1, <2>2, <2>3
<1>9. Len(asked) + 1 <= k
  <2>1. CASE Len(asked) = 0
    BY <2>1
  <2>2. CASE Len(asked) # 0
    <3>1. Len(asked) \in 1..Len(asked)
      BY <1>4, <2>2
    <3>2. Len(asked) <= asked[Len(asked)] /\ asked[Len(asked)] < k /\ asked[Len(asked)] \in Nat
      BY <1>8, <3>1
    <3> QED BY <1>1, <1>4, <3>2
  <2> QED BY <2>1, <2>2
<1>10. ASSUME NEW i \in 1..Len(asked')
       PROVE  /\ i <= asked'[i] /\ Answers(i)'
              /\ \E d \in 1..Len(dispatched') : dispatched'[d] = asked'[i]
  <2>1. CASE i \in 1..Len(asked)
    <3>1. asked'[i] = asked[i] /\ out'[i] = out[i]
      BY <1>4, <1>5, <1>6, <2>1
    <3>2. Answers(i)'
      BY <1>8, <2>1, <3>1 DEF Answers
    <3>3. \E d \in 1..Len(dispatched') : dispatched'[d] = asked'[i]
      BY <1>2, <1>8, <2>1, <3>1
    <3> QED BY <1>8, <2>1, <3>1, <3>2, <3>3
  <2>2. CASE i = Len(asked) + 1
    <3>1. asked'[i] = k /\ out'[i] = Place(rsp, StreamEnd(out))
      BY <1>4, <1>5, <1>7, <2>2
    <3>2. out'[i] = Place(rsp, out'[i].at)
      BY <3>1 DEF Place
    <3>3. Answers(i)'
      BY <3>1, <3>2 DEF Answers
    <3> QED BY <1>2, <1>9, <2>2, <3>1, <3>3
  <2>3. i \in 1..Len(asked) \/ i = Len(asked) + 1
    BY <1>4, <1>5
  <2> QED BY <2>1, <2>2, <2>3
<1>11. ASSUME NEW i \in 1..Len(asked'), NEW j \in 1..Len(asked'), i < j
       PROVE  asked'[i] < asked'[j]
  <2>1. i \in 1..Len(asked)
    BY <1>4, <1>5, <1>11
  <2>2. CASE j = Len(asked) + 1
    BY <1>5, <1>8, <2>1, <2>2
  <2>3. CASE j \in 1..Len(asked)
    BY <1>5, <1>11, <2>1, <2>3 DEF AskedInv
  <2> QED BY <1>4, <1>5, <2>2, <2>3
<1>12. AskedInv'
  <2>1. asked' \in Seq(Nat) /\ Len(asked') = Len(out') /\ Len(wire') <= MaxPackets
    BY <1>4, <1>5, <1>6
  <2> QED BY <1>10, <1>11, <2>1 DEF AskedInv
<1> QED BY <1>1, <1>4, <1>9, <1>12

-----------------------------------------------------------------------------
(* The session *)

\* A step of the server keeps the invariant and appends one reply or none.
LEMMA ServerStep ==
  ASSUME SoundInv, AskedInv, [ConnNext]_connVars,
         Recorded
  PROVE  SoundInv' /\ AskedInv' /\ (out' = out \/ Replied)
<1>1. SoundInv'
  BY ConnRouteStep, SoundStep
<1>2. /\ IsStream(wire) /\ IsStream(out) /\ Len(wire) \in Nat /\ Len(out) \in Nat
      /\ dispatched \in Seq(Nat) /\ Len(dispatched) \in Nat
  BY StreamFacts DEF SoundInv, RouteTypeOK
<1>3. Len(wire) <= MaxPackets /\ MaxPackets \in Nat
  BY SizesAssumption DEF AskedInv
<1>4. out' = out => asked' = asked
  BY <1>2 DEF Recorded
<1>5. CASE UNCHANGED <<wire, dispatched, out>>
  BY <1>1, <1>2, <1>3, <1>4, <1>5, AskedKept
<1>6. CASE /\ Len(wire) < MaxPackets /\ UNCHANGED <<dispatched, out>>
           /\ \E p \in Packets : wire' = Send(wire, p)
  <2>1. /\ Len(wire') = Len(wire) + 1
        /\ \A k \in 1..Len(wire) : wire'[k] = wire[k]
    BY <1>2, <1>6, PacketsAssumption, SendStream
  <2> QED BY <1>1, <1>2, <1>3, <1>4, <1>6, <2>1, AskedKept
<1>7. ASSUME wire' = wire, NEW k \in 1..Len(wire), Dispatch(k)
      PROVE  AskedInv' /\ (out' = out \/ Replied)
  <2>1. CASE out' = out
    <3>1. dispatched' = dispatched \/ dispatched' = Append(dispatched, k)
      BY <1>7 DEF Dispatch
    <3>2. /\ Len(dispatched) <= Len(dispatched')
          /\ \A d \in 1..Len(dispatched) : dispatched'[d] = dispatched[d]
      <4>1. k \in Nat
        BY <1>2
      <4>2. CASE dispatched' = dispatched
        BY <1>2, <4>2
      <4>3. CASE dispatched' = Append(dispatched, k)
        BY <1>2, <4>1, <4>3
      <4> QED BY <3>1, <4>2, <4>3
    <3>3. /\ Len(wire') <= MaxPackets /\ Len(wire) <= Len(wire')
          /\ \A n \in 1..Len(wire) : wire'[n] = wire[n]
      BY <1>2, <1>3, <1>7
    <3>4. UNCHANGED <<out, asked>>
      BY <1>4, <2>1
    <3> QED BY <1>1, <2>1, <3>2, <3>3, <3>4, AskedKept
  <2>2. CASE out' # out
    <3>1. wire[k].type \in DOMAIN ProcessorMap /\ dispatched' = Append(dispatched, k)
      BY <1>7, <2>2 DEF Dispatch
    <3>2. PICK rsp \in ProcessorMap[wire[k].type] : out' = Send(out, rsp)
      BY <1>7, <2>2 DEF Dispatch
    <3>3. dispatched'[Len(dispatched')] = k
      BY <1>2, <3>1
    <3>4. Len(out') = Len(out) + 1
      BY <1>2, <3>1, <3>2, ProcessorMapAssumption, SendStream
    <3>5. asked' = Append(asked, k)
      BY <1>2, <3>3, <3>4 DEF Recorded
    <3>6. AskedInv' /\ Len(out) < MaxPackets
      BY <1>1, <1>7, <3>1, <3>2, <3>5, AskedAnswer
    <3>7. rsp \in Replies
      BY <3>1 DEF Replies
    <3> QED BY <3>2, <3>6, <3>7 DEF Replied
  <2> QED BY <2>1, <2>2
<1> QED BY <1>1, <1>5, <1>6, <1>7, ServerOutcome

\* The client's handlers leave the server alone.
LEMMA ClientLeaves ==
  ASSUME ClientReads \/ ClientProcess
  PROVE  UNCHANGED <<connVars, asked>>
BY DEF ClientReads, read_handler, ClientProcess

\* A session keeps the invariant of the server's route and of its answers, and
\* changes the replies only by appending one.
LEMMA AnswersStep ==
  ASSUME SoundInv, AskedInv, [SessionNext]_sessionVars
  PROVE  SoundInv' /\ AskedInv' /\ (out' = out \/ Replied)
<1>1. Len(out) = Len(asked) /\ asked \in Seq(Nat)
  BY DEF AskedInv
<1>2. CASE UNCHANGED <<connVars, asked>>
  <2>1. out' = out /\ ~(Len(out') > Len(out))
    BY <1>1, <1>2 DEF connVars, routeVars
  <2>2. Recorded
    BY <1>2, <2>1 DEF Recorded
  <2> QED BY <1>2, <2>1, <2>2, ServerStep
<1>3. CASE \/ Server(ReadChain) \/ Server(ProcessChain)
           \/ Server(ClientSends) \/ Server(ClientCloses) \/ Server(ClientResets)
  BY <1>3, ServerStep DEF Server, ConnNext, Recorded
<1>4. CASE UNCHANGED sessionVars
  BY <1>2, <1>4 DEF sessionVars
<1> QED BY <1>2, <1>3, <1>4, ClientLeaves DEF SessionNext

\* The wire only grows.
LEMMA TxGrows ==
  ASSUME ConnInv, ConnInv', [ConnNext]_connVars
  PROVE  TxEnd \in Nat /\ TxEnd' \in Nat /\ TxEnd <= TxEnd'
<1>1. tx \in Seq(Chunk) /\ tx' \in Seq(Chunk) /\ TxInOrder'
  BY DEF ConnInv, ConnTypes
<1>2. tx' = tx \/ \E f, n : tx' = Append(tx, [from |-> f, len |-> n])
  <2>1. ASSUME NEW f, NEW l, NEW n, NEW q, WriteSome(f, l, n, q)
        PROVE  <1>2
    BY <2>1 DEF WriteSome, Transmit
  <2>2. CASE handle_write
    BY <2>1, <2>2 DEF handle_write
  <2>3. CASE SendHandler
    BY <2>1, <2>3 DEF SendHandler
  <2>4. CASE SocketDrains
    BY <2>4 DEF SocketDrains, ConnInv, SendInv
  <2>5. CASE Process
    BY <2>5 DEF Process
  <2>6. CASE ReadChain \/ ClientSends \/ ClientCloses \/ ClientResets
    BY <2>6 DEF ReadChain, start_read, ReadSome, handle_read, handle_read_error,
                ClientSends, ClientCloses, ClientResets, sendVars
  <2>7. CASE UNCHANGED connVars
    BY <2>7 DEF connVars, sendVars
  <2> QED BY <2>2, <2>3, <2>4, <2>5, <2>6, <2>7 DEF ConnNext, ProcessChain
<1>3. TxEnd \in Nat
  <2>1. tx # <<>> => tx[Len(tx)] \in Chunk
    BY <1>1
  <2> QED BY <2>1 DEF TxEnd, Chunk
<1>4. CASE tx' = tx
  BY <1>3, <1>4 DEF TxEnd
<1>5. ASSUME NEW f, NEW n, tx' = Append(tx, [from |-> f, len |-> n])
      PROVE  TxEnd' \in Nat /\ TxEnd <= TxEnd'
  <2> DEFINE c == [from |-> f, len |-> n]
  <2>1. c.from = f /\ c.len = n
    OBVIOUS
  <2> HIDE DEF c
  <2>2. /\ Len(tx) \in Nat /\ Len(tx') = Len(tx) + 1 /\ tx' # <<>>
        /\ tx'[Len(tx) + 1] = c /\ \A i \in 1..Len(tx) : tx'[i] = tx[i]
    BY <1>1, <1>5 DEF c
  <2>3. c \in Chunk
    BY <1>1, <2>2
  <2>4. n \in Nat
    BY <2>1, <2>3 DEF Chunk
  <2>5. f = TxEnd
    <3>1. f = IF Len(tx) + 1 = 1 THEN 0 ELSE tx'[Len(tx)].from + tx'[Len(tx)].len
      BY <1>1, <2>1, <2>2 DEF TxInOrder
    <3>2. tx = <<>> <=> Len(tx) = 0
      BY <1>1
    <3> QED BY <2>2, <3>1, <3>2 DEF TxEnd
  <2>6. TxEnd' = TxEnd + n
    BY <2>1, <2>2, <2>5 DEF TxEnd
  <2> QED BY <1>3, <2>4, <2>6
<1> QED BY <1>2, <1>3, <1>4, <1>5

\* The server's invariant holds in the session, and the client reads only what
\* is on the wire.
LEMMA WireStep ==
  ASSUME RoomForReplies
  PROVE  ConnInv /\ cArrived \in Nat /\ cArrived <= TxEnd /\ [SessionNext]_sessionVars
           => ConnInv' /\ cArrived' \in Nat /\ cArrived' <= TxEnd'
<1> SUFFICES ASSUME ConnInv, cArrived \in Nat, cArrived <= TxEnd, [SessionNext]_sessionVars
             PROVE  ConnInv' /\ cArrived' \in Nat /\ cArrived' <= TxEnd'
  OBVIOUS
<1>1. [ConnNext]_connVars
  BY ClientLeaves DEF SessionNext, Server, ConnNext, sessionVars
<1>2. ConnInv'
  BY <1>1, ConnInvStep
<1>3. TxEnd \in Nat /\ TxEnd' \in Nat /\ TxEnd <= TxEnd'
  BY <1>1, <1>2, TxGrows
<1>4. CASE ClientReads
  <2>1. PICK n \in 1..(StreamEnd(out) - cArrived) : read_handler(n)
    BY <1>4 DEF ClientReads
  <2>2. cArrived' = cArrived + n /\ cArrived + n <= TxEnd
    BY <2>1 DEF read_handler, Client!Receive
  <2> QED BY <1>2, <1>3, <2>1, <2>2
<1>5. CASE ~ ClientReads
  <2>1. cArrived' = cArrived
    BY <1>5 DEF SessionNext, Server, ClientProcess, Client!ProcessRecv, sessionVars, clientVars
  <2> QED BY <1>2, <1>3, <2>1
<1> QED BY <1>4, <1>5

-----------------------------------------------------------------------------
(* The client's route *)

CP == INSTANCE MessageRouteProofs WITH
  Packets <- Replies, ProcessorMap <- ClientProcessorMap,
  wire <- out, out <- <<>>, arrived <- cArrived, pos <- cPos,
  preTotalLen <- cPreTotalLen, dispatched <- cDispatched

\* The client's route satisfies what MessageRoute assumes of its constants.
LEMMA ClientAssumptions ==
  CP!PacketsAssumption /\ CP!SizesAssumption /\ CP!ProcessorMapAssumption
<1>1. CP!SizesAssumption
  BY SizesAssumption DEF CP!SizesAssumption
<1>2. CP!PacketsAssumption
  BY SessionAssumption, ProcessorMapAssumption
     DEF CP!PacketsAssumption, Replies, CP!Packet, Packet
<1>3. CP!ProcessorMapAssumption
  BY SessionAssumption DEF CP!ProcessorMapAssumption
<1> QED BY <1>1, <1>2, <1>3

\* Session and the instance of the proofs speak of the same route: lengths and
\* positions,
LEMMA SameStreams ==
  /\ \A p : FrameLen(p) = CP!FrameLen(p) /\ Client!FrameLen(p) = CP!FrameLen(p)
  /\ \A p : Client!Total(p) = CP!Total(p)
  /\ \A s : StreamEnd(s) = CP!StreamEnd(s) /\ Client!StreamEnd(s) = CP!StreamEnd(s)
  /\ \A s, p : Send(s, p) = CP!Send(s, p) /\ Client!Send(s, p) = CP!Send(s, p)
  /\ \A t : Client!Rest(t) = CP!Rest(t)
  /\ \A q : Client!HeadAt(q) <=> CP!HeadAt(q)
  /\ Client!Size = CP!Size
<1>1. \A p : Total(p) = CP!Total(p) /\ Client!Total(p) = CP!Total(p)
  BY DEF Total, CP!Total, Client!Total
<1>2. \A p : FrameLen(p) = CP!FrameLen(p) /\ Client!FrameLen(p) = CP!FrameLen(p)
  BY <1>1 DEF FrameLen, CP!FrameLen, Client!FrameLen
<1>3. \A s : StreamEnd(s) = CP!StreamEnd(s) /\ Client!StreamEnd(s) = CP!StreamEnd(s)
  BY <1>2 DEF StreamEnd, CP!StreamEnd, Client!StreamEnd
<1>4. \A p, n : Place(p, n) = CP!Place(p, n) /\ Client!Place(p, n) = CP!Place(p, n)
  BY DEF Place, CP!Place, Client!Place
<1>5. \A s, p : Send(s, p) = CP!Send(s, p) /\ Client!Send(s, p) = CP!Send(s, p)
  BY <1>3, <1>4 DEF Send, CP!Send, Client!Send
<1>6. \A t : Client!Rest(t) = CP!Rest(t)
  BY DEF Client!Rest, CP!Rest
<1>7. \A q : Client!HeadAt(q) <=> CP!HeadAt(q)
  BY DEF Client!HeadAt, CP!HeadAt
<1>8. Client!Size = CP!Size
  BY DEF Client!Size, CP!Size
<1> QED BY <1>1, <1>2, <1>3, <1>5, <1>6, <1>7, <1>8

\* and its operations.
LEMMA SameUnpack ==
  ASSUME NEW t, NEW p
  PROVE  Client!Unpack(t, p) <=> CP!Unpack(t, p)
<1>1. Client!HeadLenAt(p) = CP!HeadLenAt(p)
  BY SameStreams DEF Client!HeadLenAt, CP!HeadLenAt
<1>2. \A n : Client!BlockRead(t, n) = CP!BlockRead(t, n)
  BY SameStreams DEF Client!BlockRead, CP!BlockRead
<1>3. \A k : Client!Dispatch(k) <=> CP!Dispatch(k)
  BY SameStreams DEF Client!Dispatch, CP!Dispatch
<1>4. \A u : Client!createMessage(u) <=> CP!createMessage(u)
  BY DEF Client!createMessage, CP!createMessage
<1> QED BY <1>1, <1>2, <1>3, <1>4 DEF Client!Unpack, CP!Unpack

\* A ProcessRecv of the client is one of the route the proofs are about.
LEMMA SameProcessRecv == Client!ProcessRecv => CP!ProcessRecv
<1>1. Client!NoData => CP!NoData
  BY SameStreams DEF Client!NoData, CP!NoData
<1>2. Client!Resume => CP!Resume
  BY SameStreams, SameUnpack DEF Client!Resume, CP!Resume
<1>3. Client!NotHead => CP!NotHead
  BY SameStreams DEF Client!NotHead, CP!NotHead
<1>4. Client!IsHead => CP!IsHead
  BY SameStreams, SameUnpack DEF Client!IsHead, CP!IsHead
<1> QED BY <1>1, <1>2, <1>3, <1>4 DEF Client!ProcessRecv, CP!ProcessRecv

\* The client's handlers make steps of its route and leave the server alone.
LEMMA ClientRouteStep ==
  ASSUME ClientReads \/ ClientProcess
  PROVE  CP!RouteNext /\ UNCHANGED <<connVars, asked>>
<1>1. CASE ClientProcess
  BY <1>1, SameProcessRecv DEF ClientProcess, CP!RouteNext
<1>2. CASE ClientReads
  <2>1. PICK n : read_handler(n)
    BY <1>2 DEF ClientReads
  <2>2. CP!Receive(n)
    BY <2>1, SameStreams DEF read_handler, Client!Receive, CP!Receive
  <2>3. CP!ReceiveSome
    BY <2>2 DEF CP!ReceiveSome, CP!Receive
  <2> QED BY <2>1, <2>3 DEF read_handler, CP!RouteNext
<1> QED BY <1>1, <1>2

-----------------------------------------------------------------------------
(* The session *)

\* Every step of the session is a step of the client's route or none, and keeps
\* the invariant.
LEMMA SessionStep ==
  SoundInv /\ AskedInv /\ [SessionNext]_sessionVars =>
    SoundInv' /\ AskedInv' /\ [CP!RouteNext]_(CP!routeVars)
<1> SUFFICES ASSUME SoundInv, AskedInv, [SessionNext]_sessionVars
             PROVE  SoundInv' /\ AskedInv' /\ [CP!RouteNext]_(CP!routeVars)
  OBVIOUS
<1>1. SoundInv' /\ AskedInv' /\ (out' = out \/ Replied)
  BY AnswersStep
<1>2. CASE ClientReads \/ ClientProcess
  BY <1>1, <1>2, ClientRouteStep
<1>3. CASE UNCHANGED clientVars
  <2>1. CASE out' = out
    BY <1>1, <1>3, <2>1 DEF CP!routeVars, clientVars
  <2>2. CASE Replied
    <3>1. PICK rsp \in Replies : out' = Send(out, rsp)
      BY <2>2 DEF Replied
    <3>2. CP!PeerSend(rsp)
      BY <1>3, <2>2, <3>1, SameStreams DEF Replied, CP!PeerSend, clientVars
    <3> QED BY <1>1, <3>1, <3>2 DEF CP!RouteNext
  <2> QED BY <1>1, <2>1, <2>2
<1> QED BY <1>2, <1>3 DEF SessionNext, Server, sessionVars

\* A session starts with empty streams.
LEMMA SessionStart == SessionInit => SoundInv /\ AskedInv /\ CP!RouteInit
<1> SUFFICES ASSUME SessionInit PROVE SoundInv /\ AskedInv /\ CP!RouteInit
  OBVIOUS
<1>1. ConnInit /\ RouteInit /\ asked = <<>> /\ out = <<>> /\ wire = <<>>
  BY DEF SessionInit, ConnInit, RouteInit
<1>2. AskedInv
  BY <1>1, SizesAssumption DEF AskedInv
<1>3. CP!RouteInit
  BY <1>1 DEF SessionInit, CP!RouteInit
<1> QED BY <1>1, <1>2, <1>3, SoundInit

\* The replies that the client dispatches answer its requests, in their order.
LEMMA AskedMatch ==
  ASSUME AskedInv, CP!RouteTypeOK, CP!DispatchedInOrder
  PROVE  AnswersMatch
<1>1. Len(asked) = Len(out) /\ \A i, j \in 1..Len(asked) : i < j => asked[i] < asked[j]
  BY DEF AskedInv
<1>2. \A i, j \in 1..Len(cDispatched) : i < j => cDispatched[i] < cDispatched[j]
  BY DEF CP!DispatchedInOrder
<1>3. ASSUME NEW i \in 1..Len(cDispatched)
      PROVE  cDispatched[i] \in 1..Len(out) /\ Answers(cDispatched[i])
  BY <1>1 DEF CP!DispatchedInOrder, AskedInv
<1>4. ASSUME NEW i \in 1..Len(cDispatched)
      PROVE  LET j == cDispatched[i]
             IN  /\ j \in 1..Len(out) /\ asked[j] \in 1..Len(wire)
                 /\ wire[asked[j]].type \in DOMAIN ProcessorMap
                 /\ \E p \in ProcessorMap[wire[asked[j]].type] : out[j] = Place(p, out[j].at)
  <2>1. cDispatched[i] \in 1..Len(out) /\ Answers(cDispatched[i])
    BY <1>3
  <2> QED BY <2>1 DEF Answers
<1> QED BY <1>1, <1>2, <1>4 DEF AnswersMatch

(***************************************************************************)
(* Client and server together, on a socket with room for the replies: what   *)
(* the client's processors see are the answers of the server's processors to *)
(* the client's requests, in the order of the requests, whatever pieces the  *)
(* two streams arrive in, whichever requests have no processor or are too    *)
(* long, and whenever the client closes or resets.                           *)
(***************************************************************************)
THEOREM SessionSound ==
  ASSUME RoomForReplies
  PROVE  SessionSpec => [](SessionTypeOK /\ AnswersMatch)
<1> DEFINE Wire == ConnInv /\ cArrived \in Nat /\ cArrived <= TxEnd
           Inv == SoundInv /\ AskedInv /\ CP!SoundInv
<1>1. CP!PacketsAssumption /\ CP!SizesAssumption /\ CP!ProcessorMapAssumption
  BY ClientAssumptions
<1>2. SessionInit => Inv /\ Wire
  <2>1. SessionInit => SoundInv /\ AskedInv /\ CP!SoundInv
    BY <1>1, SessionStart, CP!SoundInit
  <2>2. SessionInit => ConnInv /\ cArrived = 0 /\ TxEnd = 0
    BY ConnInvInit DEF SessionInit, ConnInit, TxEnd
  <2> QED BY <2>1, <2>2
<1>3. Inv /\ [SessionNext]_sessionVars => Inv'
  BY <1>1, SessionStep, CP!SoundStep
<1>4. Wire /\ [SessionNext]_sessionVars => Wire'
  BY WireStep
<1>5. Inv /\ Wire => SessionTypeOK /\ AnswersMatch
  <2> SUFFICES ASSUME Inv, Wire PROVE SessionTypeOK /\ AnswersMatch
    OBVIOUS
  <2>1. CP!RouteTypeOK /\ CP!DispatchedInOrder
    BY DEF CP!SoundInv
  <2>2. AnswersMatch
    BY <2>1, AskedMatch
  <2>3. TxEnd \in Nat
    <3>1. tx \in Seq(Chunk)
      BY DEF ConnInv, ConnTypes
    <3>2. tx # <<>> => tx[Len(tx)] \in Chunk
      BY <3>1
    <3> QED BY <3>2 DEF TxEnd, Chunk
  <2>4. SessionTypeOK
    BY <2>1, <2>3 DEF SessionTypeOK, CP!RouteTypeOK, AskedInv
  <2> QED BY <2>2, <2>4
<1> HIDE DEF Wire, Inv
<1> QED BY <1>2, <1>3, <1>4, <1>5, PTL DEF SessionSpec

(***************************************************************************)
(* With a length that starts at or below zero, the client's route keeps the  *)
(* boundaries of the replies and consumes no reply that one of its           *)
(* processors takes without dispatching it: together with SessionSound, the  *)
(* answers it has received are exactly those it has dispatched.              *)
(***************************************************************************)
THEOREM SessionRoutes ==
  ASSUME \A g \in GarbageLen : g <= 0
  PROVE  SessionSpec => [](Client!Aligned /\ Client!NoneSkipped)
<1>1. CP!PacketsAssumption /\ CP!SizesAssumption /\ CP!ProcessorMapAssumption
  BY ClientAssumptions
<1>2. SessionSpec => CP!RouteSpec
  BY SessionStart, SessionStep, PTL DEF SessionSpec, CP!RouteSpec
<1>3. CP!RouteSpec => [](CP!Aligned /\ CP!NoneSkipped)
  BY <1>1, CP!RouteAligned
<1>4. CP!Aligned => Client!Aligned
  BY SameStreams DEF CP!Aligned, Client!Aligned
<1>5. CP!NoneSkipped => Client!NoneSkipped
  <2>1. \A p : Client!Deliverable(p) <=> CP!Deliverable(p)
    BY DEF Client!Deliverable, CP!Deliverable
  <2>2. \A k : Client!PacketEnd(k) = CP!PacketEnd(k)
    BY SameStreams DEF Client!PacketEnd, CP!PacketEnd
  <2> QED BY <2>1, <2>2 DEF Client!NoneSkipped, CP!NoneSkipped
<1> QED BY <1>2, <1>3, <1>4, <1>5, PTL

-----------------------------------------------------------------------------
(* Client and server implement Exchange *)

\* The replies of stream o with the requests that a says they answer.
RepliesTo(o, a) == [j \in 1..Len(o) |-> [to |-> a[j], packet |-> Contents(o[j])]]

\* What Exchange calls its variables, in the terms of the two routes.
MappedTo ==
  /\ [k \in 1..Len(wire) |-> Contents(wire[k])] = Bare(wire)
  /\ Passed(pos) = Consumed
  /\ Client!Passed(cPos) = CP!Consumed

\* The mapping of Session says the same.
LEMMA Mapped == MappedTo
<1>1. Client!Passed(cPos) = CP!Consumed
  BY DEF Client!Passed, CP!Consumed, CP!Passed, Client!PacketEnd, CP!PacketEnd,
         Client!FrameLen, CP!FrameLen, Client!Total, CP!Total
<1> QED BY <1>1 DEF MappedTo, Bare, Contents, Consumed

\* What a packet says does not depend on its place.
LEMMA ContentsOfPlaced ==
  ASSUME NEW p \in Packet, NEW n
  PROVE  Contents(Place(p, n)) = p
<1>1. p = [type |-> p.type, head |-> p.head, body |-> p.body]
  BY DEF Packet
<1>2. Contents(Place(p, n)) = [type |-> p.type, head |-> p.head, body |-> p.body]
  BY DEF Contents, Place
<1> QED BY <1>1, <1>2

\* The bare stream holds what its packets say.
LEMMA BareContents ==
  ASSUME NEW s, NEW k \in 1..Len(s)
  PROVE  Bare(s)[k] = Contents(s[k])
BY DEF Bare, Contents

\* Whether and how the server answers depends only on what a packet says,
LEMMA ServerSees ==
  ASSUME NEW p
  PROVE  /\ Deliverable(Contents(p)) <=> Deliverable(p)
         /\ AnswersOf(Contents(p)) = ProcessorMap[p.type]
<1>1. /\ Contents(p).type = p.type /\ Contents(p).head = p.head
      /\ Contents(p).body = p.body
  BY DEF Contents
<1> QED BY <1>1 DEF Deliverable, AnswersOf

\* and so does whether the client shows a reply.
LEMMA ClientSees ==
  ASSUME NEW p
  PROVE  ShownByClient(Contents(p)) <=> CP!Deliverable(p)
<1>1. /\ Contents(p).type = p.type /\ Contents(p).head = p.head
      /\ Contents(p).body = p.body
  BY DEF Contents
<1> QED BY <1>1 DEF ShownByClient, Client!Deliverable, CP!Deliverable

\* What was appended comes last.
LEMMA LastAppended ==
  ASSUME NEW s \in Seq(Nat), NEW k \in Nat
  PROVE  Append(s, k)[Len(Append(s, k))] = k
OBVIOUS

\* Send makes a stream longer.
LEMMA SendLonger ==
  ASSUME NEW s, IsStream(s), NEW p \in Packet
  PROVE  Len(Send(s, p)) > Len(s)
<1>1. Len(s) \in Nat
  BY DEF IsStream
<1>2. Len(Send(s, p)) = Len(s) + 1
  BY SendStream
<1> QED BY <1>1, <1>2

\* There are as many replies as packets in the server's stream.
LEMMA RepliesSeq ==
  ASSUME NEW o, IsStream(o), NEW a \in Seq(Nat), Len(a) = Len(o)
  PROVE  /\ RepliesTo(o, a) \in Seq([to : Nat, packet : Packet])
         /\ Len(RepliesTo(o, a)) = Len(o)
         /\ \A j \in 1..Len(o) : RepliesTo(o, a)[j].packet = Contents(o[j])
<1> DEFINE n == Len(o)
           T == [to : Nat, packet : Packet]
<1>1. o \in Seq(Placed) /\ n \in Nat
  BY DEF IsStream
<1>2. \A q \in Placed : Contents(q) \in Packet
  BY DEF Contents, Placed, Packet
<1>3. \A j \in 1..n : a[j] \in Nat /\ Contents(o[j]) \in Packet
  BY <1>1, <1>2
<1>4. \A j \in 1..n : RepliesTo(o, a)[j].packet = Contents(o[j])
  BY DEF RepliesTo
<1>5. RepliesTo(o, a) \in [1..n -> T]
  BY <1>3 DEF RepliesTo
<1> HIDE DEF n, T
<1>6. RepliesTo(o, a) \in Seq(T) /\ Len(RepliesTo(o, a)) = n
  BY <1>1, <1>5
<1> QED BY <1>4, <1>6 DEF n, T

\* A reply is what the packet of the stream holds.
LEMMA ReplyAt ==
  ASSUME NEW o, IsStream(o), NEW a \in Seq(Nat), Len(a) = Len(o), NEW j \in 1..Len(o)
  PROVE  RepliesTo(o, a)[j].packet = Contents(o[j])
BY DEF RepliesTo

\* A reply that is appended comes with the number of its request.
LEMMA RepliesAppend ==
  ASSUME NEW o, IsStream(o), NEW r \in Packet, NEW a \in Seq(Nat), Len(a) = Len(o),
         NEW k \in Nat
  PROVE  RepliesTo(Send(o, r), Append(a, k))
           = Append(RepliesTo(o, a), [to |-> k, packet |-> r])
<1> DEFINE n == Len(o)
           o2 == Send(o, r)
           a2 == Append(a, k)
           T == [to : Nat, packet : Packet]
           x == [to |-> k, packet |-> r]
<1>1. o \in Seq(Placed) /\ n \in Nat
  BY DEF IsStream
<1>2. /\ IsStream(o2) /\ Len(o2) = n + 1
      /\ \A j \in 1..n : o2[j] = o[j]
      /\ o2[n + 1] = Place(r, StreamEnd(o))
  BY SendStream
<1>3. /\ a2 \in Seq(Nat) /\ Len(a2) = n + 1
      /\ \A j \in 1..n : a2[j] = a[j]
      /\ a2[n + 1] = k
  OBVIOUS
<1> HIDE DEF o2, a2
<1>4. Contents(o2[n + 1]) = r
  BY <1>2, ContentsOfPlaced
<1>5. x \in T
  OBVIOUS
<1>6. RepliesTo(o, a) \in Seq(T) /\ Len(RepliesTo(o, a)) = n
  BY RepliesSeq
<1>7. RepliesTo(o2, a2) \in Seq(T) /\ Len(RepliesTo(o2, a2)) = n + 1
  BY <1>2, <1>3, RepliesSeq
<1> HIDE DEF n, T
<1>8. RepliesTo(o2, a2)[n + 1] = x
  <2>1. n + 1 \in 1..Len(o2)
    BY <1>1, <1>2
  <2> QED BY <1>3, <1>4, <2>1 DEF RepliesTo
<1>9. ASSUME NEW j \in 1..n PROVE RepliesTo(o2, a2)[j] = RepliesTo(o, a)[j]
  <2>1. j \in 1..Len(o2) /\ j \in 1..Len(o)
    BY <1>1, <1>2 DEF n
  <2> QED BY <1>2, <1>3, <2>1 DEF RepliesTo
<1> HIDE DEF x
<1>10. RepliesTo(o2, a2) = Append(RepliesTo(o, a), x)
  <2> DEFINE u == RepliesTo(o, a)
             v == RepliesTo(o2, a2)
             w == Append(u, x)
  <2>1. u \in Seq(T) /\ Len(u) = n /\ v \in Seq(T) /\ Len(v) = n + 1 /\ v[n + 1] = x
    BY <1>6, <1>7, <1>8
  <2>2. \A j \in 1..n : v[j] = u[j]
    BY <1>9
  <2> HIDE DEF u, v
  <2>3. w \in Seq(T) /\ Len(w) = n + 1 /\ w[n + 1] = x /\ \A j \in 1..n : w[j] = u[j]
    BY <1>1, <1>5, <2>1
  <2> HIDE DEF w
  <2>4. \A j \in 1..(n + 1) : v[j] = w[j]
    BY <1>1, <2>1, <2>2, <2>3
  <2>5. v = w
    BY <2>1, <2>3, <2>4, SameSeq
  <2> QED BY <2>5 DEF u, v, w
<1> QED BY <1>10 DEF o2, a2, x

\* The server answers what it dispatches: nothing else adds to its stream.
LEMMA OutFollows ==
  ASSUME dispatched \in Seq(Nat), [ConnNext]_connVars
  PROVE  /\ dispatched' = dispatched => out' = out
         /\ \A k \in 1..Len(wire) : dispatched' = Append(dispatched, k) =>
              \/ ProcessorMap[wire[k].type] = {} /\ out' = out
              \/ \E rsp \in ProcessorMap[wire[k].type] : out' = Send(out, rsp)
<1>1. ASSUME NEW k PROVE Append(dispatched, k) # dispatched
  BY DEF Append
<1>2. ASSUME NEW k, NEW j, Append(dispatched, k) = Append(dispatched, j) PROVE k = j
  BY <1>2 DEF Append
<1>3. ASSUME NEW j, Dispatch(j), dispatched' = dispatched PROVE out' = out
  BY <1>1, <1>3 DEF Dispatch
<1>4. ASSUME NEW k, NEW j, Dispatch(j), dispatched' = Append(dispatched, k)
      PROVE  \/ ProcessorMap[wire[k].type] = {} /\ out' = out
             \/ \E rsp \in ProcessorMap[wire[k].type] : out' = Send(out, rsp)
  <2>1. dispatched' = Append(dispatched, j)
    BY <1>1, <1>4 DEF Dispatch
  <2>2. j = k
    <3>1. Append(dispatched, k) = Append(dispatched, j)
      BY <1>4, <2>1
    <3> QED BY <1>2, <3>1
  <2>3. wire[j].type \in DOMAIN ProcessorMap
    BY <1>1, <1>4 DEF Dispatch
  <2> QED BY <1>4, <2>2, <2>3 DEF Dispatch
<1>5. CASE UNCHANGED <<dispatched, out>>
  BY <1>1, <1>5
<1>6. CASE \E j : Dispatch(j)
  <2>1. PICK j : Dispatch(j)
    BY <1>6
  <2>2. dispatched' = dispatched => out' = out
    BY <1>3, <2>1
  <2>3. \A k \in 1..Len(wire) : dispatched' = Append(dispatched, k) =>
          \/ ProcessorMap[wire[k].type] = {} /\ out' = out
          \/ \E rsp \in ProcessorMap[wire[k].type] : out' = Send(out, rsp)
    BY <1>4, <2>1
  <2> QED BY <2>2, <2>3
<1> QED BY <1>5, <1>6, ServerOutcome

\* What is proved of the two routes and of the answers.
ExchangeInv == AlignedInv /\ AskedInv /\ CP!AlignedInv

\* A step of the server takes nothing for the client.
LEMMA ServerTakesNone ==
  ASSUME CP!PacketsAssumption, CP!SizesAssumption, CP!ProcessorMapAssumption,
         CP!AlignedInv, [CP!RouteNext]_(CP!routeVars), UNCHANGED clientVars
  PROVE  UNCHANGED <<CP!Consumed, cDispatched>>
<1>1. cPos' = cPos /\ cDispatched' = cDispatched
  BY DEF clientVars
<1>2. out' = out => CP!Consumed' = CP!Consumed
  BY <1>1 DEF CP!Consumed, CP!Passed, CP!PacketEnd
<1>3. CP!Consumed' = CP!Consumed \/ out' = out
  BY CP!ConsumedStep DEF CP!ConsumesNext
<1> QED BY <1>1, <1>2, <1>3

\* The steps of Exchange in the terms of the two routes: nothing happens,
LEMMA MappedStutter ==
  ASSUME Bare(wire)' = Bare(wire), Consumed' = Consumed,
         RepliesTo(out, asked)' = RepliesTo(out, asked),
         CP!Consumed' = CP!Consumed, cDispatched' = cDispatched
  PROVE  UNCHANGED Abstract!exchangeVars
<1>1. MappedTo /\ MappedTo'
  BY Mapped, PTL
<1> QED BY <1>1 DEF Abstract!exchangeVars, MappedTo, RepliesTo

\* a request is asked,
LEMMA MappedAsk ==
  ASSUME NEW p \in Packets, Bare(wire)' = Append(Bare(wire), p), Consumed' = Consumed,
         RepliesTo(out, asked)' = RepliesTo(out, asked),
         CP!Consumed' = CP!Consumed, cDispatched' = cDispatched
  PROVE  Abstract!Ask
<1>1. MappedTo /\ MappedTo'
  BY Mapped, PTL
<1> QED BY <1>1, Zenon DEF Abstract!Ask, MappedTo, RepliesTo

\* the next request is served without a reply,
LEMMA MappedSilent ==
  ASSUME NEW k, k = Consumed + 1, k <= Len(Bare(wire)), Consumed' = k,
         Bare(wire)' = Bare(wire),
         Deliverable(Bare(wire)[k]) => AnswersOf(Bare(wire)[k]) = {},
         RepliesTo(out, asked)' = RepliesTo(out, asked),
         CP!Consumed' = CP!Consumed, cDispatched' = cDispatched
  PROVE  Abstract!Serve
<1>1. MappedTo /\ MappedTo'
  BY Mapped, PTL
<1> QED BY <1>1, Zenon DEF Abstract!Serve, MappedTo, RepliesTo

\* or with one,
LEMMA MappedReply ==
  ASSUME NEW k, k = Consumed + 1, k <= Len(Bare(wire)), Consumed' = k,
         Bare(wire)' = Bare(wire),
         Deliverable(Bare(wire)[k]), NEW r \in AnswersOf(Bare(wire)[k]),
         RepliesTo(out, asked)' = Append(RepliesTo(out, asked), [to |-> k, packet |-> r]),
         CP!Consumed' = CP!Consumed, cDispatched' = cDispatched
  PROVE  Abstract!Serve
<1>1. MappedTo /\ MappedTo'
  BY Mapped, PTL
<1> QED BY <1>1, Zenon DEF Abstract!Serve, MappedTo, RepliesTo

\* and the next reply is taken.
LEMMA MappedTake ==
  ASSUME NEW j, j = CP!Consumed + 1, j <= Len(RepliesTo(out, asked)), CP!Consumed' = j,
         cDispatched' = IF ShownByClient(RepliesTo(out, asked)[j].packet)
                        THEN Append(cDispatched, j) ELSE cDispatched,
         Bare(wire)' = Bare(wire), Consumed' = Consumed,
         RepliesTo(out, asked)' = RepliesTo(out, asked)
  PROVE  Abstract!Take
<1>1. MappedTo /\ MappedTo'
  BY Mapped, PTL
<1> QED BY <1>1, Zenon DEF Abstract!Take, MappedTo, RepliesTo

\* Without a new reply the replies stay what they are.
LEMMA RepliesKept ==
  ASSUME Recorded, Len(out) \in Nat, out' = out
  PROVE  RepliesTo(out, asked)' = RepliesTo(out, asked)
<1>1. asked' = asked
  BY DEF Recorded
<1> QED BY <1>1 DEF RepliesTo

\* A new reply goes with the request that was just dispatched.
LEMMA RepliesAnswer ==
  ASSUME Recorded, IsStream(out), dispatched \in Seq(Nat), asked \in Seq(Nat),
         Len(asked) = Len(out), NEW k \in Nat, NEW r \in Packet, out' = Send(out, r),
         dispatched' = Append(dispatched, k)
  PROVE  RepliesTo(out, asked)' = Append(RepliesTo(out, asked), [to |-> k, packet |-> r])
<1>1. dispatched'[Len(dispatched')] = k
  BY LastAppended
<1>2. Len(out') > Len(out)
  BY SendLonger
<1>3. asked' = Append(asked, k)
  BY <1>1, <1>2 DEF Recorded
<1>4. RepliesTo(Send(out, r), Append(asked, k))
        = Append(RepliesTo(out, asked), [to |-> k, packet |-> r])
  BY RepliesAppend
<1>5. RepliesTo(out', asked') = RepliesTo(Send(out, r), Append(asked, k))
  BY <1>3
<1>6. RepliesTo(out, asked)' = RepliesTo(out', asked')
  BY DEF RepliesTo
<1> QED BY <1>4, <1>5, <1>6

\* What the client's handlers do is to take the next reply, or nothing.
LEMMA ClientTakes ==
  ASSUME CP!PacketsAssumption, CP!SizesAssumption, CP!ProcessorMapAssumption,
         ExchangeInv, ClientReads \/ ClientProcess
  PROVE  Abstract!Take \/ UNCHANGED Abstract!exchangeVars
<1>1. CP!RouteNext /\ UNCHANGED <<wire, pos, out, asked>>
  BY ClientRouteStep DEF connVars, routeVars
<1>2. Bare(wire)' = Bare(wire) /\ Consumed' = Consumed
  BY <1>1 DEF Bare, Consumed, Passed, PacketEnd
<1>3. RepliesTo(out, asked)' = RepliesTo(out, asked)
  BY <1>1 DEF RepliesTo
<1>4. CASE UNCHANGED <<CP!Consumed, cDispatched>>
  BY <1>2, <1>3, <1>4, MappedStutter
<1>5. CASE CP!ConsumesNext
  <2>1. PICK j \in 1..Len(out) :
          /\ CP!Consumed \in Nat /\ CP!Consumed + 1 = j /\ CP!Consumed' = j
          /\ cDispatched' = IF CP!Deliverable(out[j]) THEN Append(cDispatched, j)
                            ELSE cDispatched
    BY <1>5 DEF CP!ConsumesNext, CP!FrameRead
  <2>2. IsStream(out) /\ asked \in Seq(Nat) /\ Len(asked) = Len(out)
    BY DEF ExchangeInv, AlignedInv, AskedInv, SoundInv, RouteTypeOK
  <2>3. Len(out) \in Nat
    BY <2>2
  <2>4. /\ Len(RepliesTo(out, asked)) = Len(out)
        /\ RepliesTo(out, asked)[j].packet = Contents(out[j])
    <3>1. Len(RepliesTo(out, asked)) = Len(out)
      BY <2>2, RepliesSeq
    <3>2. RepliesTo(out, asked)[j].packet = Contents(out[j])
      BY <2>2, ReplyAt
    <3> QED BY <3>1, <3>2
  <2>5. ShownByClient(RepliesTo(out, asked)[j].packet) <=> CP!Deliverable(out[j])
    BY <2>4, ClientSees
  <2>6. j <= Len(RepliesTo(out, asked))
    BY <2>3, <2>4
  <2>7. cDispatched' = IF ShownByClient(RepliesTo(out, asked)[j].packet)
                       THEN Append(cDispatched, j) ELSE cDispatched
    BY <2>1, <2>5
  <2>8. Abstract!Take
    BY <1>2, <1>3, <2>1, <2>6, <2>7, MappedTake
  <2> QED BY <2>8
<1> QED BY <1>1, <1>4, <1>5, CP!ConsumedStep DEF ExchangeInv

\* What a step of the server, or of the application that sends to it, does is to
\* ask, to serve the next request, or nothing.
LEMMA ServerServes ==
  ASSUME CP!PacketsAssumption, CP!SizesAssumption, CP!ProcessorMapAssumption,
         ExchangeInv, [ConnNext]_connVars, [CP!RouteNext]_(CP!routeVars),
         UNCHANGED clientVars, Recorded
  PROVE  Abstract!Ask \/ Abstract!Serve \/ UNCHANGED Abstract!exchangeVars
<1>1. CP!Consumed' = CP!Consumed /\ cDispatched' = cDispatched
  BY ServerTakesNone DEF ExchangeInv
<1>2. RouteTypeOK /\ AskedInv /\ AlignedInv
  BY DEF ExchangeInv, AlignedInv, SoundInv
<1>3. IsStream(wire) /\ IsStream(out) /\ dispatched \in Seq(Nat)
  BY <1>2 DEF RouteTypeOK
<1>4. Len(wire) \in Nat /\ Len(out) \in Nat
  BY <1>3, StreamFacts
<1>5. asked \in Seq(Nat) /\ Len(asked) = Len(out)
  BY <1>2 DEF AskedInv
<1>6. /\ dispatched' = dispatched => out' = out
      /\ \A k \in 1..Len(wire) : dispatched' = Append(dispatched, k) =>
           \/ ProcessorMap[wire[k].type] = {} /\ out' = out
           \/ \E rsp \in ProcessorMap[wire[k].type] : out' = Send(out, rsp)
  BY <1>3, OutFollows
<1>7. CASE UNCHANGED <<wire, Consumed, dispatched>>
  <2>1. RepliesTo(out, asked)' = RepliesTo(out, asked)
    BY <1>4, <1>6, <1>7, RepliesKept
  <2>2. Bare(wire)' = Bare(wire)
    BY <1>7 DEF Bare
  <2> QED BY <1>1, <1>7, <2>1, <2>2, MappedStutter
<1>8. ASSUME NEW p \in Packets, wire' = Send(wire, p), UNCHANGED <<Consumed, dispatched>>
      PROVE  Abstract!Ask
  <2>1. Bare(wire)' = Append(Bare(wire), p)
    BY <1>3, <1>8, BareSend, PacketsAssumption
  <2>2. RepliesTo(out, asked)' = RepliesTo(out, asked)
    BY <1>4, <1>6, <1>8, RepliesKept
  <2> QED BY <1>1, <1>8, <2>1, <2>2, MappedAsk
<1>9. CASE ConsumesNext
  <2>1. PICK k \in 1..Len(wire) :
          /\ Consumed \in Nat /\ Consumed + 1 = k /\ Consumed' = k /\ wire' = wire
          /\ dispatched' = IF Deliverable(wire[k]) THEN Append(dispatched, k)
                           ELSE dispatched
    BY <1>9 DEF ConsumesNext, FrameRead
  <2>2. k \in Nat /\ k <= Len(Bare(wire))
    <3>1. Len(Bare(wire)) = Len(wire)
      BY <1>3, BareSeq DEF IsStream
    <3> QED BY <1>4, <3>1
  <2>3. Bare(wire)' = Bare(wire)
    BY <2>1 DEF Bare
  <2>4. /\ Deliverable(Bare(wire)[k]) <=> Deliverable(wire[k])
        /\ AnswersOf(Bare(wire)[k]) = ProcessorMap[wire[k].type]
    BY BareContents, ServerSees
  <2>5. k = Consumed + 1 /\ Consumed' = k
    BY <2>1
  <2>6. ASSUME out' = out, Deliverable(wire[k]) => ProcessorMap[wire[k].type] = {}
        PROVE  Abstract!Serve
    <3>1. RepliesTo(out, asked)' = RepliesTo(out, asked)
      BY <1>4, <2>6, RepliesKept
    <3>2. Deliverable(Bare(wire)[k]) => AnswersOf(Bare(wire)[k]) = {}
      BY <2>4, <2>6
    <3> QED BY <1>1, <2>2, <2>3, <2>5, <3>1, <3>2, MappedSilent
  <2>7. ASSUME Deliverable(wire[k]), dispatched' = Append(dispatched, k),
               NEW r \in ProcessorMap[wire[k].type], out' = Send(out, r)
        PROVE  Abstract!Serve
    <3>1. r \in Packet
      BY <2>7, ProcessorMapAssumption DEF Deliverable
    <3>2. RepliesTo(out, asked)' = Append(RepliesTo(out, asked), [to |-> k, packet |-> r])
      BY <1>3, <1>5, <2>2, <2>7, <3>1, RepliesAnswer
    <3>3. Deliverable(Bare(wire)[k]) /\ r \in AnswersOf(Bare(wire)[k])
      BY <2>4, <2>7
    <3> QED BY <1>1, <2>2, <2>3, <2>5, <3>2, <3>3, MappedReply
  <2>8. CASE Deliverable(wire[k])
    <3>1. dispatched' = Append(dispatched, k)
      BY <2>1, <2>8
    <3>2. CASE ProcessorMap[wire[k].type] = {} /\ out' = out
      BY <2>6, <3>2
    <3>3. CASE \E r \in ProcessorMap[wire[k].type] : out' = Send(out, r)
      BY <2>7, <2>8, <3>1, <3>3
    <3> QED BY <1>6, <3>1, <3>2, <3>3
  <2>9. CASE ~ Deliverable(wire[k])
    <3>1. dispatched' = dispatched
      BY <2>1, <2>9
    <3> QED BY <1>6, <2>6, <2>9, <3>1
  <2> QED BY <2>8, <2>9
<1> QED BY <1>2, <1>7, <1>8, <1>9, ConnRouteStep, ConsumedStep

\* The server's side of the session is the connection alone.
LEMMA SessionConn == [SessionNext]_sessionVars => [ConnNext]_connVars
BY ClientLeaves DEF SessionNext, Server, ConnNext, sessionVars

\* The two routes stay at the boundaries of their packets, and every reply has
\* its request.
LEMMA ExchangeInvStep ==
  ASSUME CP!PacketsAssumption, CP!SizesAssumption, CP!ProcessorMapAssumption
  PROVE  ExchangeInv /\ [SessionNext]_sessionVars => ExchangeInv'
<1> SUFFICES ASSUME ExchangeInv, [SessionNext]_sessionVars PROVE ExchangeInv'
  OBVIOUS
<1>1. AlignedInv /\ AskedInv /\ CP!AlignedInv /\ SoundInv
  BY DEF ExchangeInv, AlignedInv
<1>2. AskedInv' /\ [CP!RouteNext]_(CP!routeVars)
  BY <1>1, SessionStep
<1>3. AlignedInv'
  BY <1>1, SessionConn, ConnRouteStep, AlignedStep
<1>4. CP!AlignedInv'
  BY <1>1, <1>2, CP!AlignedStep
<1> QED BY <1>2, <1>3, <1>4 DEF ExchangeInv

\* Every step of the session is a step of Exchange or changes nothing in it.
LEMMA ExchangeStep ==
  ASSUME CP!PacketsAssumption, CP!SizesAssumption, CP!ProcessorMapAssumption
  PROVE  ExchangeInv /\ [SessionNext]_sessionVars =>
           [Abstract!Ask \/ Abstract!Serve \/ Abstract!Take]_(Abstract!exchangeVars)
<1> SUFFICES ASSUME ExchangeInv, [SessionNext]_sessionVars
             PROVE  \/ Abstract!Ask \/ Abstract!Serve \/ Abstract!Take
                    \/ UNCHANGED Abstract!exchangeVars
  OBVIOUS
<1>1. SoundInv /\ AskedInv /\ Len(out) \in Nat
  <2>1. SoundInv /\ AskedInv
    BY DEF ExchangeInv, AlignedInv
  <2>2. asked \in Seq(Nat) /\ Len(asked) = Len(out)
    BY <2>1 DEF AskedInv
  <2> QED BY <2>1, <2>2
<1>2. [ConnNext]_connVars /\ [CP!RouteNext]_(CP!routeVars)
  BY <1>1, SessionConn, SessionStep
<1>3. CASE ClientReads \/ ClientProcess
  BY <1>3, ClientTakes
<1>4. CASE \/ Server(ReadChain) \/ Server(ProcessChain)
           \/ Server(ClientSends) \/ Server(ClientCloses) \/ Server(ClientResets)
  <2>1. /\ UNCHANGED clientVars
        /\ Recorded
    BY <1>4 DEF Server, Recorded
  <2> QED BY <1>2, <2>1, ServerServes
<1>5. CASE UNCHANGED sessionVars
  <2>1. UNCHANGED <<clientVars, asked, out>>
    BY <1>5 DEF sessionVars, connVars, routeVars
  <2>2. ~ (Len(out') > Len(out))
    BY <1>1, <2>1
  <2>3. Recorded
    BY <2>1, <2>2 DEF Recorded
  <2> QED BY <1>2, <2>1, <2>3, ServerServes
<1> QED BY <1>3, <1>4, <1>5 DEF SessionNext

\* A session starts as an exchange does.
LEMMA ExchangeInit == SessionInit => Abstract!Init
<1> SUFFICES ASSUME SessionInit PROVE Abstract!Init
  OBVIOUS
<1>1. wire = <<>> /\ out = <<>> /\ cDispatched = <<>>
  BY DEF SessionInit, ConnInit, RouteInit
<1>2. 1..Len(wire) = {} /\ 1..Len(out) = {}
  BY <1>1
<1>3. /\ [k \in 1..Len(wire) |-> Contents(wire[k])] = <<>>
      /\ [j \in 1..Len(out) |-> [to |-> asked[j], packet |-> Contents(out[j])]] = <<>>
  <2>1. [k \in 1..Len(wire) |-> Contents(wire[k])] = <<>>
    BY <1>2
  <2>2. [j \in 1..Len(out) |-> [to |-> asked[j], packet |-> Contents(out[j])]] = <<>>
    BY <1>2
  <2> QED BY <2>1, <2>2
<1>4. Passed(pos) = 0
  <2>1. 0 \in 0..Len(wire) /\ Len(wire) \in Nat
    BY <1>1
  <2> QED BY <1>2, <2>1, PassedIs DEF Passed, PacketEnd
<1>5. Client!Passed(cPos) = 0
  <2>1. 0 \in 0..Len(out) /\ Len(out) \in Nat
    BY <1>1
  <2> QED BY <1>2, <2>1, PassedIs
       DEF Client!Passed, Client!PacketEnd, Client!FrameLen, Client!Total, FrameLen, Total
<1> QED BY <1>1, <1>3, <1>4, <1>5 DEF Abstract!Init

(***************************************************************************)
(* Client and server implement Exchange, on a socket with room for the       *)
(* replies and whatever pieces the two streams are read in:                  *)
(* requests are served one by one in their order, each gets at most one      *)
(* reply and gets it exactly if its processor has an answer, and the client  *)
(* takes the replies in that order and shows exactly those it has a          *)
(* processor for.  The invariant is that both routes stand at the boundary   *)
(* of a packet, which needs the length to start at or below zero.            *)
(***************************************************************************)
THEOREM SessionImplementsExchange ==
  ASSUME \A g \in GarbageLen : g <= 0
  PROVE  SessionSpec => ImplementsExchange
<1>1. CP!PacketsAssumption /\ CP!SizesAssumption /\ CP!ProcessorMapAssumption
  BY ClientAssumptions
<1>2. SessionInit => ExchangeInv
  <2>1. SessionInit => AskedInv /\ CP!RouteInit /\ RouteInit
    BY SessionStart DEF SessionInit, ConnInit
  <2>2. RouteInit => AlignedInv
    BY AlignedInit
  <2>3. CP!RouteInit => CP!AlignedInv
    BY <1>1, CP!AlignedInit
  <2> QED BY <2>1, <2>2, <2>3 DEF ExchangeInv
<1>3. ExchangeInv /\ [SessionNext]_sessionVars => ExchangeInv'
  BY <1>1, ExchangeInvStep
<1>4. ExchangeInv /\ [SessionNext]_sessionVars =>
        [Abstract!Ask \/ Abstract!Serve \/ Abstract!Take]_(Abstract!exchangeVars)
  BY <1>1, ExchangeStep
<1> QED BY <1>2, <1>3, <1>4, ExchangeInit, PTL
     DEF SessionSpec, ImplementsExchange, Abstract!Spec

=============================================================================

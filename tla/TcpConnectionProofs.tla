------------------------- MODULE TcpConnectionProofs -------------------------
(***************************************************************************)
(* Proofs about TcpConnection, whatever the packets, the replies, the pieces *)
(* in which requests arrive and the moment at which the client closes or     *)
(* resets: first for a socket that always has room, then for every socket.   *)
(***************************************************************************)
EXTENDS TcpConnection, MessageRouteProofs

Pr == Task("Process")
Sn == Task("Send")

\* The completion of an async_write that took d bytes in one piece.
Wr(f, d) == Written(f, d, 0, d)

Live == peer # "reset"

(***************************************************************************)
(* The handlers that can be waiting, and what is on the wire in each case.   *)
(* Because handlers run in the order they were posted, the completion of a   *)
(* write always runs before the next Send.  TxEnd, the end of what is on the *)
(* wire, is con plus the d bytes of a write whose completion has not run.    *)
(* While the socket lives, a Send finds at most one reply to write, so it    *)
(* never needs a second write_some.                                          *)
(***************************************************************************)
SendInv ==
  /\ inflight = <<>>
  /\ \/ queue = <<Pr>> /\ TxEnd = con /\ (Live => StreamEnd(out) = con)
     \/ queue = <<Sn, Pr>> /\ TxEnd = con /\ (Live => StreamEnd(out) - con <= MaxTransfer)
     \/ queue = <<>> /\ TxEnd = con
     \/ \E f, d \in Nat :
          /\ TxEnd = con + d /\ con + d <= StreamEnd(out)
          /\ \/ queue = <<Pr, Wr(f, d)>> /\ (Live => StreamEnd(out) = con + d)
             \/ /\ queue = <<Wr(f, d), Sn, Pr>>
                /\ Live => StreamEnd(out) - (con + d) <= MaxTransfer
             \/ queue = <<Wr(f, d), Pr>> /\ d = 0 /\ (Live => StreamEnd(out) = con)
             \/ queue = <<Wr(f, d)>>

\* The types of what the route and the queue do not cover.
ConnTypes ==
  /\ con \in Nat /\ con <= StreamEnd(out) /\ tx \in Seq(Chunk)
  /\ rd \in {"posted", "reading", "stopped"}
  /\ error \in BOOLEAN /\ peer \in {"open", "closed", "reset"}

ConnInv == SoundInv /\ ConnTypes /\ TxInOrder /\ SendInv

-----------------------------------------------------------------------------

\* The socket always has room, and every reply fits into one write_some.
RoomForReplies ==
  /\ ~ Backpressure
  /\ \A t \in DOMAIN ProcessorMap : \A rsp \in ProcessorMap[t] :
       FrameLen(rsp) <= MaxTransfer

\* Append on a tuple of one,
LEMMA AppendTwo == ASSUME NEW a, NEW b PROVE Append(<<a>>, b) = <<a, b>>
<1> DEFINE S == {a, b}
<1>1. <<a>> \in Seq(S) /\ <<a, b>> \in Seq(S) /\ Len(<<a, b>>) = 2
  OBVIOUS
<1>2. /\ Append(<<a>>, b) \in Seq(S) /\ Len(Append(<<a>>, b)) = 2
      /\ Append(<<a>>, b)[1] = a /\ Append(<<a>>, b)[2] = b
  OBVIOUS
<1>3. \A i \in 1..2 : Append(<<a>>, b)[i] = <<a, b>>[i]
  BY <1>2
<1> QED BY <1>1, <1>2, <1>3, SameSeq

\* and on a tuple of two.
LEMMA AppendThree ==
  ASSUME NEW a, NEW b, NEW c PROVE Append(<<a, b>>, c) = <<a, b, c>>
<1> DEFINE S == {a, b, c}
<1>1. <<a, b>> \in Seq(S) /\ <<a, b, c>> \in Seq(S) /\ Len(<<a, b, c>>) = 3
  OBVIOUS
<1>2. /\ Append(<<a, b>>, c) \in Seq(S) /\ Len(Append(<<a, b>>, c)) = 3
      /\ Append(<<a, b>>, c)[1] = a /\ Append(<<a, b>>, c)[2] = b
      /\ Append(<<a, b>>, c)[3] = c
  OBVIOUS
<1>3. \A i \in 1..3 : Append(<<a, b>>, c)[i] = <<a, b, c>>[i]
  BY <1>2
<1> QED BY <1>1, <1>2, <1>3, SameSeq

\* The handler queues that occur are written out; this is how they are taken
\* apart and put together.
LEMMA Tuples ==
  ASSUME NEW a, NEW b, NEW c
  PROVE  /\ Head(<<a>>) = a /\ Tail(<<a>>) = <<>>
         /\ Head(<<a, b>>) = a /\ Tail(<<a, b>>) = <<b>>
         /\ Head(<<a, b, c>>) = a /\ Tail(<<a, b, c>>) = <<b, c>>
         /\ Append(<<>>, a) = <<a>> /\ Append(<<a>>, b) = <<a, b>>
         /\ Append(<<a, b>>, c) = <<a, b, c>>
<1>1. Head(<<a>>) = a /\ Head(<<a, b>>) = a /\ Head(<<a, b, c>>) = a
  OBVIOUS
<1>2. Tail(<<a>>) = <<>> /\ Tail(<<a, b>>) = <<b>>
  OBVIOUS
<1>3. Tail(<<a, b, c>>) = <<b, c>>
  OBVIOUS
<1>4. Append(<<>>, a) = <<a>>
  OBVIOUS
<1> QED BY <1>1, <1>2, <1>3, <1>4, AppendTwo, AppendThree

\* The handlers are told apart by op.
LEMMA Handlers ==
  /\ Pr.op = "Process" /\ Sn.op = "Send" /\ Pr \in Handler /\ Sn \in Handler
  /\ \A f, d \in Nat :
       /\ Wr(f, d) \in Handler /\ Wr(f, d).op = "Written"
       /\ Wr(f, d).n = 0 /\ Wr(f, d).m = d /\ Wr(f, d).len = d
BY DEF Pr, Sn, Wr, Task, Written, Handler

\* A ProcessRecv leaves mDataStreamSend alone or adds the reply of a Processor.
LEMMA ReplyOrNone ==
  ASSUME ProcessRecv
  PROVE  \/ out' = out
         \/ \E t \in DOMAIN ProcessorMap : \E rsp \in ProcessorMap[t] : out' = Send(out, rsp)
<1>1. ASSUME NEW k, Dispatch(k)
      PROVE  \/ out' = out
             \/ \E t \in DOMAIN ProcessorMap : \E rsp \in ProcessorMap[t] :
                  out' = Send(out, rsp)
  BY <1>1 DEF Dispatch
<1>2. ASSUME NEW t, NEW p, Unpack(t, p)
      PROVE  out' = out \/ \E k : Dispatch(k)
  BY <1>2 DEF Unpack
<1>3. out' = out \/ \E t, p : Unpack(t, p)
  BY DEF ProcessRecv, NoData, Resume, NotHead, IsHead
<1> QED BY <1>1, <1>2, <1>3

\* One ProcessRecv adds at most one reply to mDataStreamSend.
LEMMA OneReply ==
  ASSUME RoomForReplies, RouteTypeOK, ProcessRecv
  PROVE  /\ StreamEnd(out) \in Nat /\ StreamEnd(out') \in Nat
         /\ StreamEnd(out) <= StreamEnd(out')
         /\ StreamEnd(out') <= StreamEnd(out) + MaxTransfer
<1>1. \/ out' = out
      \/ \E t \in DOMAIN ProcessorMap : \E rsp \in ProcessorMap[t] : out' = Send(out, rsp)
  BY ReplyOrNone
<1>2. IsStream(out) /\ StreamEnd(out) \in Nat
  BY StreamFacts DEF RouteTypeOK
<1>3. CASE out' = out
  BY <1>2, <1>3, TransferAssumption
<1>4. ASSUME NEW t \in DOMAIN ProcessorMap, NEW rsp \in ProcessorMap[t],
             out' = Send(out, rsp)
      PROVE  /\ StreamEnd(out') \in Nat /\ StreamEnd(out) <= StreamEnd(out')
             /\ StreamEnd(out') <= StreamEnd(out) + MaxTransfer
  <2>1. rsp \in Packet /\ FrameLen(rsp) <= MaxTransfer
    BY ProcessorMapAssumption DEF RoomForReplies
  <2>2. StreamEnd(out') = StreamEnd(out) + FrameLen(rsp) /\ FrameLen(rsp) \in Nat
    BY <1>2, <1>4, <2>1, SendStream
  <2> QED BY <1>2, <2>1, <2>2, TransferAssumption
<1> QED BY <1>1, <1>2, <1>3, <1>4

\* What goes on the wire at its end keeps it in order.
LEMMA TransmitInOrder ==
  ASSUME NEW n \in Nat
  PROVE  tx \in Seq(Chunk) /\ TxInOrder /\ tx' = Transmit(TxEnd, n) =>
           tx' \in Seq(Chunk) /\ TxInOrder' /\ TxEnd' = TxEnd + n
<1>0. SUFFICES ASSUME tx \in Seq(Chunk), TxInOrder, tx' = Transmit(TxEnd, n)
               PROVE  tx' \in Seq(Chunk) /\ TxInOrder' /\ TxEnd' = TxEnd + n
  OBVIOUS
<1>1. Len(tx) \in Nat /\ (tx = <<>> <=> Len(tx) = 0)
  BY <1>0
<1>2. TxEnd \in Nat
  <2>1. tx # <<>> => tx[Len(tx)] \in Chunk
    BY <1>0, <1>1
  <2> QED BY <2>1 DEF TxEnd, Chunk
<1>3. CASE n = 0
  <2>1. tx' = tx
    BY <1>0, <1>3 DEF Transmit
  <2> QED BY <1>0, <1>2, <1>3, <2>1 DEF TxInOrder, TxEnd
<1>4. CASE n # 0
  <2> DEFINE c == [from |-> TxEnd, len |-> n]
  <2>1. c \in Chunk
    BY <1>2 DEF Chunk
  <2>2. tx' = Append(tx, c)
    BY <1>0, <1>4 DEF Transmit
  <2>3. c.from = TxEnd /\ c.len = n
    OBVIOUS
  <2> HIDE DEF c
  <2>4. /\ tx' \in Seq(Chunk) /\ Len(tx') = Len(tx) + 1
        /\ \A i \in 1..Len(tx) : tx'[i] = tx[i]
        /\ tx'[Len(tx) + 1] = c /\ tx' # <<>>
    BY <1>0, <2>1, <2>2
  <2>5. TxEnd' = TxEnd + n
    BY <2>3, <2>4 DEF TxEnd
  <2>6. ASSUME NEW i \in 1..Len(tx')
        PROVE  tx'[i].from = IF i = 1 THEN 0 ELSE tx'[i - 1].from + tx'[i - 1].len
    <3>1. CASE i \in 1..Len(tx)
      <4>1. i # 1 => i - 1 \in 1..Len(tx)
        BY <1>1, <3>1
      <4> QED BY <1>0, <2>4, <3>1, <4>1 DEF TxInOrder
    <3>2. CASE i = Len(tx) + 1
      <4>1. tx'[i].from = TxEnd
        BY <2>3, <2>4, <3>2
      <4>2. CASE tx = <<>>
        BY <1>1, <3>2, <4>1, <4>2 DEF TxEnd
      <4>3. CASE tx # <<>>
        <5>1. i # 1 /\ i - 1 = Len(tx) /\ Len(tx) \in 1..Len(tx)
          BY <1>1, <3>2, <4>3
        <5>2. tx'[i - 1] = tx[Len(tx)]
          BY <2>4, <5>1
        <5> QED BY <4>1, <4>3, <5>1, <5>2 DEF TxEnd
      <4> QED BY <4>2, <4>3
    <3> QED BY <1>1, <2>4, <3>1, <3>2
  <2>7. TxInOrder'
    BY <2>6 DEF TxInOrder
  <2> QED BY <2>4, <2>5, <2>7
<1> QED BY <1>3, <1>4

-----------------------------------------------------------------------------
(* Steps *)

\* Which queues have a given handler in front.
LEMMA Front ==
  SendInv =>
    /\ Runs("Process") =>
         \/ queue = <<Pr>> /\ TxEnd = con /\ (Live => StreamEnd(out) = con)
         \/ \E f, d \in Nat :
              /\ TxEnd = con + d /\ con + d <= StreamEnd(out)
              /\ queue = <<Pr, Wr(f, d)>> /\ (Live => StreamEnd(out) = con + d)
    /\ Runs("Send") =>
         /\ queue = <<Sn, Pr>> /\ TxEnd = con
         /\ Live => StreamEnd(out) - con <= MaxTransfer
    /\ Runs("Written") => \E f, d \in Nat :
         /\ TxEnd = con + d /\ con + d <= StreamEnd(out)
         /\ \/ /\ queue = <<Wr(f, d), Sn, Pr>>
               /\ Live => StreamEnd(out) - (con + d) <= MaxTransfer
            \/ queue = <<Wr(f, d), Pr>> /\ d = 0 /\ (Live => StreamEnd(out) = con)
            \/ queue = <<Wr(f, d)>>
<1>0. SUFFICES ASSUME SendInv
      PROVE
        /\ Runs("Process") =>
             \/ queue = <<Pr>> /\ TxEnd = con /\ (Live => StreamEnd(out) = con)
             \/ \E f, d \in Nat :
                  /\ TxEnd = con + d /\ con + d <= StreamEnd(out)
                  /\ queue = <<Pr, Wr(f, d)>> /\ (Live => StreamEnd(out) = con + d)
        /\ Runs("Send") =>
             /\ queue = <<Sn, Pr>> /\ TxEnd = con
             /\ Live => StreamEnd(out) - con <= MaxTransfer
        /\ Runs("Written") => \E f, d \in Nat :
             /\ TxEnd = con + d /\ con + d <= StreamEnd(out)
             /\ \/ /\ queue = <<Wr(f, d), Sn, Pr>>
                   /\ Live => StreamEnd(out) - (con + d) <= MaxTransfer
                \/ queue = <<Wr(f, d), Pr>> /\ d = 0 /\ (Live => StreamEnd(out) = con)
                \/ queue = <<Wr(f, d)>>
  OBVIOUS
<1>1. ASSUME NEW x, NEW y, NEW z, queue = <<x>> \/ queue = <<x, y>> \/ queue = <<x, y, z>>
      PROVE  \A op : Runs(op) => x.op = op
  <2>1. Head(queue) = x
    BY <1>1, Tuples
  <2> QED BY <2>1 DEF Runs
<1>2. CASE queue = <<Pr>> /\ TxEnd = con /\ (Live => StreamEnd(out) = con)
  BY <1>1, <1>2, Handlers
<1>3. CASE queue = <<Sn, Pr>> /\ TxEnd = con
             /\ (Live => StreamEnd(out) - con <= MaxTransfer)
  BY <1>1, <1>3, Handlers
<1>4. CASE queue = <<>>
  BY <1>4 DEF Runs
<1>5. ASSUME NEW f \in Nat, NEW d \in Nat,
             TxEnd = con + d /\ con + d <= StreamEnd(out),
             \/ queue = <<Pr, Wr(f, d)>> /\ (Live => StreamEnd(out) = con + d)
             \/ /\ queue = <<Wr(f, d), Sn, Pr>>
                /\ Live => StreamEnd(out) - (con + d) <= MaxTransfer
             \/ queue = <<Wr(f, d), Pr>> /\ d = 0 /\ (Live => StreamEnd(out) = con)
             \/ queue = <<Wr(f, d)>>
      PROVE
        /\ Runs("Process") =>
             /\ queue = <<Pr, Wr(f, d)>> /\ (Live => StreamEnd(out) = con + d)
        /\ ~ Runs("Send")
        /\ Runs("Written") =>
             \/ /\ queue = <<Wr(f, d), Sn, Pr>>
                /\ Live => StreamEnd(out) - (con + d) <= MaxTransfer
             \/ queue = <<Wr(f, d), Pr>> /\ d = 0 /\ (Live => StreamEnd(out) = con)
             \/ queue = <<Wr(f, d)>>
  <2>1. CASE queue = <<Pr, Wr(f, d)>> /\ (Live => StreamEnd(out) = con + d)
    <3>1. \A op : Runs(op) => Pr.op = op
      BY <1>1, <2>1
    <3> QED BY <2>1, <3>1, Handlers
  <2>2. CASE \/ /\ queue = <<Wr(f, d), Sn, Pr>>
                /\ Live => StreamEnd(out) - (con + d) <= MaxTransfer
             \/ queue = <<Wr(f, d), Pr>> /\ d = 0 /\ (Live => StreamEnd(out) = con)
             \/ queue = <<Wr(f, d)>>
    <3>1. \A op : Runs(op) => Wr(f, d).op = op
      BY <1>1, <2>2
    <3>2. ~ Runs("Process") /\ ~ Runs("Send")
      BY <3>1, Handlers
    <3> QED BY <2>2, <3>2
  <2> QED BY <1>5, <2>1, <2>2
<1> QED BY <1>0, <1>2, <1>3, <1>4, <1>5 DEF SendInv

\* A step that leaves the sending side alone keeps its invariant, a reset too.
LEMMA SendIdle ==
  /\ ConnTypes /\ TxInOrder /\ SendInv
  /\ UNCHANGED <<sendVars, out>> /\ (Live' => Live)
  => con' \in Nat /\ con' <= StreamEnd(out') /\ tx' \in Seq(Chunk) /\ TxInOrder' /\ SendInv'
<1>0. SUFFICES ASSUME ConnTypes, TxInOrder, SendInv, UNCHANGED <<sendVars, out>>,
                      Live' => Live
               PROVE  /\ con' \in Nat /\ con' <= StreamEnd(out')
                      /\ tx' \in Seq(Chunk) /\ TxInOrder' /\ SendInv'
  OBVIOUS
<1>1. UNCHANGED <<queue, inflight, con, tx, out>>
  BY <1>0 DEF sendVars
<1>2. TxEnd' = TxEnd /\ TxInOrder'
  BY <1>0, <1>1 DEF TxEnd, TxInOrder
<1>3. SendInv'
  BY <1>0, <1>1, <1>2 DEF SendInv
<1> QED BY <1>0, <1>1, <1>2, <1>3 DEF ConnTypes

\* Process keeps the invariant: at most one reply is added, and at most one Send.
LEMMA ProcessStep ==
  ASSUME RoomForReplies, ConnInv, Process
  PROVE  ConnInv'
<1>1. SoundInv' /\ ProcessRecv /\ RouteTypeOK /\ Runs("Process") /\ SendInv
  BY ProcessRecvSound DEF ConnInv, SoundInv, Process
<1>2. UNCHANGED <<inflight, con, tx, rd, error, peer>>
  BY DEF Process
<1>3. PICK e \in Nat, e2 \in Nat : /\ StreamEnd(out) = e /\ StreamEnd(out') = e2
                               /\ e <= e2 /\ e2 <= e + MaxTransfer
  BY <1>1, OneReply
<1>4. con \in Nat /\ con <= e /\ error \in BOOLEAN /\ inflight = <<>>
  BY <1>3 DEF ConnInv, ConnTypes, SendInv
<1>5. ConnTypes' /\ TxInOrder' /\ TxEnd' = TxEnd /\ Live' = Live
  BY <1>2, <1>3, <1>4 DEF ConnInv, ConnTypes, TxInOrder, TxEnd, Live
<1>6. queue' = IF error THEN Tail(queue)
               ELSE IF e2 > con THEN Append(Append(Tail(queue), Sn), Pr)
               ELSE Append(Tail(queue), Pr)
  BY <1>3, <1>4 DEF Process, ProcessSend, SendData, Sn, Pr
<1>7. CASE queue = <<Pr>> /\ TxEnd = con /\ (Live => e = con)
  <2>1. queue' = IF error THEN <<>> ELSE IF e2 > con THEN <<Sn, Pr>> ELSE <<Pr>>
    <3>1. Tail(queue) = <<>> /\ Append(<<>>, Pr) = <<Pr>>
      BY <1>7, Tuples
    <3>2. Append(Append(<<>>, Sn), Pr) = <<Sn, Pr>>
      <4>1. Append(<<>>, Sn) = <<Sn>>
        OBVIOUS
      <4>2. Append(<<Sn>>, Pr) = <<Sn, Pr>>
        BY AppendTwo
      <4> QED BY <4>1, <4>2
    <3> QED BY <1>6, <3>1, <3>2
  <2>2. Live => e2 - con <= MaxTransfer
    BY <1>3, <1>4, <1>7, TransferAssumption
  <2>3. e2 > con \/ e2 = con
    BY <1>3, <1>4
  <2>4. SendInv'
    BY <1>2, <1>3, <1>4, <1>5, <1>7, <2>1, <2>2, <2>3 DEF SendInv
  <2> QED BY <1>1, <1>5, <2>4 DEF ConnInv
<1>8. ASSUME NEW f \in Nat, NEW d \in Nat, TxEnd = con + d, con + d <= e,
             queue = <<Pr, Wr(f, d)>>, Live => e = con + d
      PROVE  ConnInv'
  <2>1. queue' = IF error THEN <<Wr(f, d)>>
                 ELSE IF e2 > con THEN <<Wr(f, d), Sn, Pr>> ELSE <<Wr(f, d), Pr>>
    <3>1. Tail(queue) = <<Wr(f, d)>> /\ Append(<<Wr(f, d)>>, Pr) = <<Wr(f, d), Pr>>
      <4>1. \A w : Tail(<<Pr, w>>) = <<w>>
        BY Tuples
      <4>2. Append(<<Wr(f, d)>>, Pr) = <<Wr(f, d), Pr>>
        BY AppendTwo
      <4> QED BY <1>8, <4>1, <4>2
    <3>2. Append(Append(<<Wr(f, d)>>, Sn), Pr) = <<Wr(f, d), Sn, Pr>>
      <4>1. Append(<<Wr(f, d)>>, Sn) = <<Wr(f, d), Sn>>
        BY AppendTwo
      <4>2. Append(<<Wr(f, d), Sn>>, Pr) = <<Wr(f, d), Sn, Pr>>
        BY AppendThree
      <4> QED BY <4>1, <4>2
    <3> QED BY <1>6, <3>1, <3>2
  <2>2. Live => e2 - (con + d) <= MaxTransfer
    BY <1>3, <1>4, <1>8, TransferAssumption
  <2>3. con + d <= e2 /\ (~ (e2 > con) => d = 0 /\ e2 = con)
    BY <1>3, <1>4, <1>8
  <2>4. SendInv'
    <3>1. CASE error
      BY <1>2, <1>3, <1>4, <1>5, <1>8, <2>1, <2>3, <3>1 DEF SendInv
    <3>2. CASE ~ error /\ e2 > con
      BY <1>2, <1>3, <1>4, <1>5, <1>8, <2>1, <2>2, <2>3, <3>2 DEF SendInv
    <3>3. CASE ~ error /\ ~ (e2 > con)
      BY <1>2, <1>3, <1>4, <1>5, <1>8, <2>1, <2>3, <3>3 DEF SendInv
    <3> QED BY <3>1, <3>2, <3>3
  <2> QED BY <1>1, <1>5, <2>4 DEF ConnInv
<1> QED BY <1>1, <1>3, <1>7, <1>8, Front

\* Send keeps the invariant: it starts a write at the end of what has been sent.
LEMMA SendStep ==
  ASSUME RoomForReplies, ConnInv, SendHandler
  PROVE  ConnInv'
<1>1. SoundInv /\ RouteTypeOK /\ Runs("Send") /\ SendInv /\ TxInOrder /\ tx \in Seq(Chunk)
  BY DEF ConnInv, SoundInv, ConnTypes, SendHandler
<1>2. UNCHANGED <<wire, arrived, pos, preTotalLen, dispatched, out, con, rd, error, peer>>
  BY DEF SendHandler, routeVars
<1>3. PICK e \in Nat : StreamEnd(out) = e
  BY <1>1, StreamFacts DEF RouteTypeOK
<1>4. con \in Nat /\ con <= e /\ inflight = <<>>
  BY <1>3 DEF ConnInv, ConnTypes, SendInv
<1>5. /\ queue = <<Sn, Pr>> /\ TxEnd = con
      /\ Live => e - con <= MaxTransfer
  BY <1>1, <1>3, Front
<1>6. Tail(queue) = <<Pr>>
  BY <1>5, Tuples
<1>7. WriteSome(con, e - con, 0, <<Pr>>)
  BY <1>3, <1>6 DEF SendHandler
<1>8. SoundInv'
  BY <1>1, <1>2, SoundStep DEF routeVars
<1>9. CASE peer = "reset"
  <2>1. /\ queue' = Append(<<Pr>>, Wr(con, 0))
        /\ UNCHANGED <<inflight, tx>>
    BY <1>7, <1>9 DEF WriteSome, Wr
  <2>2. queue' = <<Pr, Wr(con, 0)>>
    BY <2>1, Tuples
  <2>3. TxEnd' = con + 0 /\ TxInOrder' /\ con + 0 <= e
    BY <1>1, <1>4, <1>5, <2>1 DEF TxEnd, TxInOrder
  <2>4. ~ Live'
    BY <1>2, <1>9 DEF Live
  <2>5. SendInv'
    BY <1>2, <1>3, <1>4, <2>1, <2>2, <2>3, <2>4 DEF SendInv
  <2>6. ConnTypes'
    BY <1>2, <2>1 DEF ConnInv, ConnTypes
  <2> QED BY <1>8, <2>3, <2>5, <2>6 DEF ConnInv
<1>10. CASE peer # "reset"
  <2>1. PICK d \in Nat : d = e - con /\ d <= MaxTransfer
    BY <1>4, <1>5, <1>10 DEF Live
  <2>2. WriteSome(con, d, 0, <<Pr>>) /\ d - 0 = d /\ 0 + d = d /\ con + 0 = con
    BY <1>4, <1>7, <2>1
  <2>3. /\ queue' = Append(<<Pr>>, Wr(con, d)) /\ tx' = Transmit(TxEnd, d)
        /\ UNCHANGED inflight
    BY <1>5, <1>10, <2>1, <2>2 DEF WriteSome, Wr, RoomForReplies
  <2>4. queue' = <<Pr, Wr(con, d)>>
    BY <2>3, Tuples
  <2>5. tx' \in Seq(Chunk) /\ TxInOrder' /\ TxEnd' = con + d
    BY <1>1, <1>5, <2>3, TransmitInOrder
  <2>6. e = con + d
    BY <1>4, <2>1
  <2>7. SendInv'
    <3>1. inflight' = <<>> /\ StreamEnd(out)' = e /\ con' = con
      BY <1>2, <1>3, <1>4, <2>3
    <3>2. TxEnd' = con' + d /\ con' + d <= StreamEnd(out)' /\ StreamEnd(out)' = con' + d
      BY <1>3, <1>4, <2>5, <2>6, <3>1
    <3>3. queue' = <<Pr, Wr(con, d)>> /\ con \in Nat
      BY <1>4, <2>4
    <3> QED BY <3>1, <3>2, <3>3 DEF SendInv
  <2>8. ConnTypes'
    BY <1>2, <2>5 DEF ConnInv, ConnTypes
  <2> QED BY <1>8, <2>5, <2>7, <2>8 DEF ConnInv
<1> QED BY <1>9, <1>10

\* The completion keeps the invariant: the bytes consumed are the bytes sent.
LEMMA WrittenStep ==
  ASSUME ConnInv, handle_write
  PROVE  ConnInv'
<1>1. SoundInv /\ RouteTypeOK /\ Runs("Written") /\ SendInv /\ TxInOrder
  BY DEF ConnInv, SoundInv, handle_write
<1>2. UNCHANGED <<wire, arrived, pos, preTotalLen, dispatched, out, rd, error, peer>>
  BY DEF handle_write, routeVars
<1>3. PICK e \in Nat : StreamEnd(out) = e
  BY <1>1, StreamFacts DEF RouteTypeOK
<1>4. con \in Nat /\ con <= e /\ inflight = <<>>
  BY <1>3 DEF ConnInv, ConnTypes, SendInv
<1>5. PICK f \in Nat, d \in Nat :
        /\ TxEnd = con + d /\ con + d <= e
        /\ \/ queue = <<Wr(f, d), Sn, Pr>> /\ (Live => e - (con + d) <= MaxTransfer)
           \/ queue = <<Wr(f, d), Pr>> /\ d = 0 /\ (Live => e = con)
           \/ queue = <<Wr(f, d)>>
  BY <1>1, <1>3, Front
<1>6. Head(queue) = Wr(f, d)
  BY <1>5, Tuples
<1>7. queue' = Tail(queue) /\ con' = con + d /\ UNCHANGED <<inflight, tx>>
  <2>1. Wr(f, d).n + Wr(f, d).m = d /\ ~ (d < Wr(f, d).len)
    BY Handlers
  <2> QED BY <1>3, <1>4, <1>5, <1>6, <2>1 DEF handle_write
<1>8. SoundInv'
  BY <1>1, <1>2, SoundStep DEF routeVars
<1>9. TxEnd' = con' /\ TxInOrder' /\ con' \in Nat /\ con' <= e /\ Live' = Live
  BY <1>1, <1>2, <1>4, <1>5, <1>7 DEF TxEnd, TxInOrder, Live
<1>10. ConnTypes'
  BY <1>2, <1>3, <1>7, <1>9 DEF ConnInv, ConnTypes
<1>11. SendInv'
  <2>1. CASE queue = <<Wr(f, d), Sn, Pr>> /\ (Live => e - (con + d) <= MaxTransfer)
    <3>1. queue' = <<Sn, Pr>>
      BY <1>7, <2>1, Tuples
    <3> QED BY <1>2, <1>3, <1>4, <1>7, <1>9, <2>1, <3>1 DEF SendInv
  <2>2. CASE queue = <<Wr(f, d), Pr>> /\ d = 0 /\ (Live => e = con)
    <3>1. queue' = <<Pr>> /\ con' = con
      BY <1>4, <1>7, <2>2, Tuples
    <3> QED BY <1>2, <1>3, <1>4, <1>7, <1>9, <2>2, <3>1 DEF SendInv
  <2>3. CASE queue = <<Wr(f, d)>>
    <3>1. queue' = <<>>
      BY <1>7, <2>3, Tuples
    <3> QED BY <1>4, <1>7, <1>9, <3>1 DEF SendInv
  <2> QED BY <1>5, <2>1, <2>2, <2>3
<1> QED BY <1>8, <1>9, <1>10, <1>11 DEF ConnInv

\* The handlers of the read chain and the client leave the send side alone.
LEMMA OtherStep ==
  ASSUME ConnInv, ReadChain \/ ClientSends \/ ClientCloses \/ ClientResets
  PROVE  ConnInv'
<1>1. SoundInv /\ ConnTypes /\ TxInOrder /\ SendInv /\ RouteTypeOK
  BY DEF ConnInv, SoundInv
<1>2. ASSUME start_read \/ handle_read_error \/ ClientCloses \/ ClientResets
      PROVE  UNCHANGED routeVars
  BY <1>2 DEF start_read, handle_read_error, ClientCloses, ClientResets
<1>3. UNCHANGED sendVars
  BY DEF ReadChain, start_read, ReadSome, handle_read, handle_read_error,
         ClientSends, ClientCloses, ClientResets
<1>4. SoundInv'
  <2>1. CASE start_read \/ handle_read_error \/ ClientCloses \/ ClientResets
    BY <1>1, <1>2, <2>1, SoundStep
  <2>2. CASE ReadSome
    BY <1>1, <2>2, SoundStep DEF ReadSome, handle_read, RouteNext, ReceiveSome
  <2>3. CASE ClientSends
    BY <1>1, <2>3, SoundStep DEF ClientSends, RouteNext
  <2> QED BY <2>1, <2>2, <2>3 DEF ReadChain
<1>5. out' = out
  BY DEF ReadChain, start_read, ReadSome, handle_read, handle_read_error, Receive,
         ClientSends, PeerSend, ClientCloses, ClientResets, routeVars
<1>6. Live' => Live
  BY DEF Live, ReadChain, start_read, ReadSome, handle_read, handle_read_error,
         ClientSends, ClientCloses, ClientResets
<1>7. /\ rd' \in {"posted", "reading", "stopped"}
      /\ error' \in BOOLEAN /\ peer' \in {"open", "closed", "reset"}
  BY <1>1 DEF ConnTypes, ReadChain, start_read, ReadSome, handle_read,
              handle_read_error, ClientSends, ClientCloses, ClientResets
<1> QED BY <1>1, <1>3, <1>4, <1>5, <1>6, <1>7, SendIdle DEF ConnInv, ConnTypes

\* A started TcpConnection satisfies the invariant.
LEMMA ConnInvInit == ConnInit => ConnInv
<1> SUFFICES ASSUME ConnInit PROVE ConnInv
  OBVIOUS
<1>1. SoundInv /\ out = <<>>
  BY SoundInit DEF ConnInit, RouteInit
<1>2. StreamEnd(out) = 0
  BY <1>1, EmptyStream
<1>3. queue = <<Pr>> /\ inflight = <<>> /\ con = 0 /\ tx = <<>>
  BY DEF ConnInit, Pr
<1>4. TxEnd = 0 /\ TxInOrder /\ tx \in Seq(Chunk)
  BY <1>3 DEF TxEnd, TxInOrder
<1>5. ConnTypes
  <2>1. con \in Nat /\ con <= StreamEnd(out)
    BY <1>2, <1>3
  <2>2. rd = "posted" /\ error = FALSE /\ peer = "open"
    BY DEF ConnInit
  <2> QED BY <1>4, <2>1, <2>2 DEF ConnTypes
<1>6. SendInv
  BY <1>2, <1>3, <1>4 DEF SendInv
<1> QED BY <1>1, <1>4, <1>5, <1>6 DEF ConnInv

\* Every handler and every step of the client keeps the invariant.
LEMMA ConnInvStep ==
  ASSUME RoomForReplies
  PROVE  ConnInv /\ [ConnNext]_connVars => ConnInv'
<1> SUFFICES ASSUME ConnInv, [ConnNext]_connVars PROVE ConnInv'
  OBVIOUS
<1>1. CASE ReadChain \/ ClientSends \/ ClientCloses \/ ClientResets
  BY <1>1, OtherStep
<1>2. CASE Process
  BY <1>2, ProcessStep
<1>3. CASE SendHandler
  BY <1>3, SendStep
<1>4. CASE handle_write
  BY <1>4, WrittenStep
<1>5. CASE SocketDrains
  BY <1>5 DEF SocketDrains, ConnInv, SendInv
<1>6. CASE UNCHANGED connVars
  <2>1. UNCHANGED <<routeVars, sendVars, out, rd, error, peer>>
    BY <1>6 DEF connVars, routeVars
  <2>2. SoundInv' /\ (Live' => Live)
    BY <2>1, SoundStep DEF ConnInv, Live
  <2> QED BY <2>1, <2>2, SendIdle DEF ConnInv, ConnTypes
<1> QED BY <1>1, <1>2, <1>3, <1>4, <1>5, <1>6 DEF ConnNext, ProcessChain

\* The invariant says what the properties ask for.
LEMMA ConnInvImplies == ConnInv => ConnTypeOK /\ DispatchedInOrder /\ TxInOrder /\ OneWriteAtATime
<1> SUFFICES ASSUME ConnInv
             PROVE  ConnTypeOK /\ DispatchedInOrder /\ TxInOrder /\ OneWriteAtATime
  OBVIOUS
<1>1. /\ RouteTypeOK /\ DispatchedInOrder /\ ConnTypes /\ TxInOrder /\ SendInv
  BY DEF ConnInv, SoundInv
<1>2. inflight = <<>>
  BY <1>1 DEF SendInv
<1>3. StreamEnd(out) \in Nat
  BY <1>1, StreamFacts DEF RouteTypeOK
<1>4. \/ queue \in {<<>>, <<Pr>>, <<Sn, Pr>>}
      \/ \E f, d \in Nat : queue \in {<<Pr, Wr(f, d)>>, <<Wr(f, d), Sn, Pr>>,
                                    <<Wr(f, d), Pr>>, <<Wr(f, d)>>}
  BY <1>1 DEF SendInv
<1>5. /\ queue \in Seq(Handler)
      /\ \A i, j \in 1..Len(queue) :
           queue[i].op = "Written" /\ queue[j].op = "Written" => i = j
  <2>1. ASSUME NEW a \in Handler, NEW b \in Handler, NEW c \in Handler,
               b.op # "Written", c.op # "Written",
               queue \in {<<a>>, <<a, b>>, <<b, a>>, <<a, b, c>>}
        PROVE  <1>5!1 /\ <1>5!2
    <3>1. CASE queue = <<a>>
      BY <2>1, <3>1
    <3>2. CASE queue = <<a, b>>
      BY <2>1, <3>2
    <3>3. CASE queue = <<b, a>>
      BY <2>1, <3>3
    <3>4. CASE queue = <<a, b, c>>
      BY <2>1, <3>4
    <3> QED BY <2>1, <3>1, <3>2, <3>3, <3>4
  <2>2. CASE queue = <<>>
    BY <2>2
  <2>3. CASE queue = <<Pr>> \/ queue = <<Sn, Pr>>
    BY <2>1, <2>3, Handlers
  <2>4. ASSUME NEW f \in Nat, NEW d \in Nat,
               queue \in {<<Pr, Wr(f, d)>>, <<Wr(f, d), Sn, Pr>>, <<Wr(f, d), Pr>>, <<Wr(f, d)>>}
        PROVE  <1>5!1 /\ <1>5!2
    <3>1. PICK a \in Handler : a = Wr(f, d)
      BY Handlers
    <3>2. Pr \in Handler /\ Sn \in Handler /\ Pr.op # "Written" /\ Sn.op # "Written"
      BY Handlers
    <3>3. queue \in {<<Pr, a>>, <<a, Sn, Pr>>, <<a, Pr>>, <<a>>}
      BY <2>4, <3>1
    <3> QED BY <2>1, <3>2, <3>3
  <2> QED BY <1>4, <2>2, <2>3, <2>4
<1>6. ConnTypeOK
  BY <1>1, <1>2, <1>3, <1>5 DEF ConnTypeOK, ConnTypes
<1>7. OneWriteAtATime
  BY <1>2, <1>5 DEF OneWriteAtATime
<1> QED BY <1>1, <1>6, <1>7

(***************************************************************************)
(* On a socket that takes every reply at once, in one transfer, one          *)
(* async_write is outstanding at a time and the client is sent exactly the   *)
(* bytes of mDataStreamSend, whatever the client sends and whenever it       *)
(* closes or resets the connection: this is why TcpConnection::Process may   *)
(* post a Send without asking whether the last one is done.                  *)
(***************************************************************************)
THEOREM ConnectionSound ==
  ASSUME RoomForReplies
  PROVE  ConnSpec => [](ConnTypeOK /\ DispatchedInOrder /\ TxInOrder /\ OneWriteAtATime)
<1>1. ConnInv /\ [ConnNext]_connVars => ConnInv'
  BY ConnInvStep
<1> QED BY <1>1, ConnInvInit, ConnInvImplies, PTL DEF ConnSpec

\* Every handler of the connection makes one step of its MessageRoute or none.
LEMMA ConnRouteStep == [ConnNext]_connVars => [RouteNext]_routeVars
<1> SUFFICES ASSUME [ConnNext]_connVars PROVE [RouteNext]_routeVars
  OBVIOUS
<1>1. CASE ReadSome
  BY <1>1 DEF ReadSome, handle_read, RouteNext, ReceiveSome
<1>2. CASE ClientSends
  BY <1>2 DEF ClientSends, RouteNext
<1>3. CASE Process
  BY <1>3 DEF Process, RouteNext
<1>4. CASE handle_write
  BY <1>4 DEF handle_write
<1>5. CASE SendHandler \/ SocketDrains
  BY <1>5 DEF SendHandler, SocketDrains
<1>6. CASE start_read \/ handle_read_error \/ ClientCloses \/ ClientResets
  BY <1>6 DEF start_read, handle_read_error, ClientCloses, ClientResets
<1>7. CASE UNCHANGED connVars
  BY <1>7 DEF connVars
<1> QED BY <1>1, <1>2, <1>3, <1>4, <1>5, <1>6, <1>7 DEF ConnNext, ReadChain, ProcessChain

(***************************************************************************)
(* What is proved of the route holds of the route inside a TcpConnection,    *)
(* with its read and Process chains, its writes and a client that may close  *)
(* or reset: with a length that starts at or below zero, the boundaries of   *)
(* the packets are kept, no deliverable packet is skipped, and the requests  *)
(* of the client are handled as FrameChannel says.                           *)
(***************************************************************************)
THEOREM ConnectionRoutes ==
  ASSUME \A g \in GarbageLen : g <= 0
  PROVE  ConnSpec => [](Aligned /\ NoneSkipped) /\ Channel!Spec
<1>1. ConnInit => RouteInit
  BY DEF ConnInit
<1>2. ConnSpec => RouteSpec
  BY <1>1, ConnRouteStep, PTL DEF ConnSpec, RouteSpec
<1> QED BY <1>2, RouteAligned, RouteImplementsChannel

-----------------------------------------------------------------------------
(* Every socket: one that has no room for long, one that takes a reply in      *)
(* pieces, and so one on which writes overlap                                 *)

\* The Process handlers among the posted ones
Processes(q) == {i \in 1..Len(q) : q[i].op = "Process"}

OneProcess(q) == \A i, j \in Processes(q) : i = j

\* The two chains end with error and not before, and the Process chain is never
\* doubled: no second Process is posted beside the one that is waiting.
ChainsOnce ==
  /\ OneProcess(queue)
  /\ ~ error => Processes(queue) # {}
  /\ error <=> rd = "stopped"

AnySocketInv ==
  /\ RouteTypeOK /\ ConnTypes /\ ChainsOnce
  /\ queue \in Seq(Handler) /\ inflight \in Seq(Handler)
  /\ \A i \in 1..Len(inflight) : inflight[i].op = "Written"

\* Posting a handler
LEMMA PostHandler ==
  ASSUME NEW q \in Seq(Handler), NEW h \in Handler
  PROVE  /\ Append(q, h) \in Seq(Handler)
         /\ h.op # "Process" => Processes(Append(q, h)) = Processes(q)
         /\ h.op = "Process" => Processes(Append(q, h)) = Processes(q) \cup {Len(q) + 1}
<1>1. /\ Append(q, h) \in Seq(Handler) /\ Len(Append(q, h)) = Len(q) + 1
      /\ Append(q, h)[Len(q) + 1] = h /\ \A i \in 1..Len(q) : Append(q, h)[i] = q[i]
  OBVIOUS
<1>2. \A i : i \in 1..(Len(q) + 1) <=> i \in 1..Len(q) \/ i = Len(q) + 1
  OBVIOUS
<1>3. h.op # "Process" => Processes(Append(q, h)) = Processes(q)
  BY <1>1, <1>2 DEF Processes
<1>4. h.op = "Process" => Processes(Append(q, h)) = Processes(q) \cup {Len(q) + 1}
  BY <1>1, <1>2 DEF Processes
<1> QED BY <1>1, <1>3, <1>4

\* Taking the oldest handler
LEMMA TakeHandler ==
  ASSUME NEW q \in Seq(Handler), q # <<>>, OneProcess(q)
  PROVE  /\ Head(q) \in Handler /\ Tail(q) \in Seq(Handler) /\ OneProcess(Tail(q))
         /\ Head(q).op = "Process" => Processes(Tail(q)) = {}
         /\ Head(q).op # "Process" /\ Processes(q) # {} => Processes(Tail(q)) # {}
<1>1. /\ Len(q) \in Nat /\ Len(q) >= 1 /\ Head(q) = q[1] /\ Head(q) \in Handler
      /\ Tail(q) \in Seq(Handler) /\ Len(Tail(q)) = Len(q) - 1
      /\ \A i \in 1..(Len(q) - 1) : Tail(q)[i] = q[i + 1]
  OBVIOUS
<1>2. ASSUME NEW i \in Processes(Tail(q)) PROVE i + 1 \in Processes(q) /\ i \in 1..(Len(q) - 1)
  <2>1. i \in 1..(Len(q) - 1) /\ Tail(q)[i].op = "Process"
    BY <1>1 DEF Processes
  <2>2. i + 1 \in 1..Len(q) /\ Tail(q)[i] = q[i + 1]
    BY <1>1, <2>1
  <2> QED BY <2>1, <2>2 DEF Processes
<1>3. OneProcess(Tail(q))
  <2> SUFFICES ASSUME NEW i \in Processes(Tail(q)), NEW j \in Processes(Tail(q)) PROVE i = j
    BY DEF OneProcess
  <2>1. i + 1 = j + 1 /\ i \in Int /\ j \in Int
    BY <1>2 DEF OneProcess
  <2> QED BY <2>1
<1>4. ASSUME Head(q).op = "Process", NEW i \in Processes(Tail(q)) PROVE FALSE
  <2>1. 1 \in Processes(q)
    BY <1>1, <1>4 DEF Processes
  <2>2. i + 1 = 1 /\ i \in 1..(Len(q) - 1)
    BY <1>2, <2>1 DEF OneProcess
  <2> QED BY <2>2
<1>5. ASSUME Head(q).op # "Process", NEW i \in Processes(q) PROVE i - 1 \in Processes(Tail(q))
  <2>1. i \in 1..Len(q) /\ q[i].op = "Process" /\ i # 1
    BY <1>1, <1>5 DEF Processes
  <2>2. i - 1 \in 1..(Len(q) - 1) /\ (i - 1) + 1 = i
    BY <1>1, <2>1
  <2>3. Tail(q)[i - 1] = q[i] /\ i - 1 \in 1..Len(Tail(q))
    BY <1>1, <2>2
  <2> QED BY <2>1, <2>3 DEF Processes
<1> QED BY <1>1, <1>3, <1>4, <1>5

\* A piece on the wire is a piece.
LEMMA TransmitType ==
  ASSUME tx \in Seq(Chunk), NEW f \in Nat, NEW n \in Nat
  PROVE  Transmit(f, n) \in Seq(Chunk)
<1>1. [from |-> f, len |-> n] \in Chunk
  BY DEF Chunk
<1>2. Append(tx, [from |-> f, len |-> n]) \in Seq(Chunk)
  BY <1>1
<1> QED BY <1>2 DEF Transmit

\* The completion of a write_some is a handler.
LEMMA WrittenType ==
  ASSUME NEW f \in Nat, NEW l \in Nat, NEW n \in Nat, NEW m \in Nat
  PROVE  Written(f, l, n, m) \in Handler /\ Written(f, l, n, m).op = "Written"
BY DEF Written, Handler

\* Starting a write_some posts its completion or leaves it with the socket.
LEMMA WriteSomeAny ==
  ASSUME NEW f \in Nat, NEW l \in Nat, NEW n \in Nat, n <= l, NEW q \in Seq(Handler),
         tx \in Seq(Chunk), inflight \in Seq(Handler),
         \A i \in 1..Len(inflight) : inflight[i].op = "Written",
         WriteSome(f, l, n, q)
  PROVE  /\ queue' \in Seq(Handler) /\ Processes(queue') = Processes(q)
         /\ tx' \in Seq(Chunk) /\ inflight' \in Seq(Handler)
         /\ \A i \in 1..Len(inflight') : inflight'[i].op = "Written"
<1> DEFINE m == IF l - n <= MaxTransfer THEN l - n ELSE MaxTransfer
           w == Written(f, l, n, m)
           e == Written(f, n, n, 0)
<1>1. m \in Nat /\ f + n \in Nat
  BY TransferAssumption
<1>2. \/ queue' = Append(q, e) /\ UNCHANGED <<inflight, tx>>
      \/ queue' = q /\ inflight' = Append(inflight, w) /\ UNCHANGED tx
      \/ queue' = Append(q, w) /\ tx' = Transmit(f + n, m) /\ UNCHANGED inflight
  BY DEF WriteSome
<1> HIDE DEF m
<1>3. w \in Handler /\ w.op = "Written" /\ e \in Handler /\ e.op = "Written"
  <2>1. 0 \in Nat
    OBVIOUS
  <2> QED BY <1>1, <2>1, WrittenType, Zenon
<1> HIDE DEF w, e
<1>4. /\ Append(q, w) \in Seq(Handler) /\ Processes(Append(q, w)) = Processes(q)
      /\ Append(q, e) \in Seq(Handler) /\ Processes(Append(q, e)) = Processes(q)
  BY <1>3, PostHandler
<1>5. Transmit(f + n, m) \in Seq(Chunk)
  BY <1>1, TransmitType
<1>6. /\ Append(inflight, w) \in Seq(Handler)
      /\ \A i \in 1..Len(Append(inflight, w)) : Append(inflight, w)[i].op = "Written"
  <2>1. Len(Append(inflight, w)) = Len(inflight) + 1 /\ Append(inflight, w)[Len(inflight) + 1] = w
    BY <1>3
  <2>2. \A i \in 1..Len(inflight) : Append(inflight, w)[i] = inflight[i]
    BY <1>3
  <2>3. \A i \in 1..(Len(inflight) + 1) : i \in 1..Len(inflight) \/ i = Len(inflight) + 1
    OBVIOUS
  <2> QED BY <1>3, <2>1, <2>2, <2>3
<1> QED BY <1>2, <1>4, <1>5, <1>6, Zenon

\* mDataStreamSend only grows while it is not consumed.
LEMMA RepliesGrow ==
  ASSUME RouteTypeOK, ProcessRecv
  PROVE  /\ StreamEnd(out) \in Nat /\ StreamEnd(out') \in Nat
         /\ StreamEnd(out) <= StreamEnd(out')
<1>1. IsStream(out) /\ StreamEnd(out) \in Nat
  BY StreamFacts DEF RouteTypeOK
<1>2. ASSUME NEW t \in DOMAIN ProcessorMap, NEW rsp \in ProcessorMap[t], out' = Send(out, rsp)
      PROVE  StreamEnd(out') = StreamEnd(out) + FrameLen(rsp) /\ FrameLen(rsp) \in Nat
  <2>1. rsp \in Packet
    BY ProcessorMapAssumption
  <2> QED BY <1>1, <1>2, <2>1, SendStream
<1> QED BY <1>1, <1>2, ReplyOrNone

\* TcpConnection::Process takes its turn and posts the next.
LEMMA ProcessAny == ASSUME AnySocketInv, RouteTypeOK', Process PROVE AnySocketInv'
<1>1. /\ queue \in Seq(Handler) /\ queue # <<>> /\ Head(queue).op = "Process" /\ ProcessRecv
      /\ OneProcess(queue) /\ UNCHANGED <<inflight, con, tx, rd, error, peer>>
  BY DEF Process, Runs, AnySocketInv, ChainsOnce
<1> DEFINE q == ProcessSend(Tail(queue))
<1>2. queue' = IF error THEN q ELSE Append(q, Pr)
  BY DEF Process, Pr
<1>3. Tail(queue) \in Seq(Handler) /\ Processes(Tail(queue)) = {}
  BY <1>1, TakeHandler
<1>4. Pr \in Handler /\ Pr.op = "Process" /\ Sn \in Handler /\ Sn.op # "Process"
  BY Handlers
<1>5. q \in Seq(Handler) /\ Processes(q) = {}
  <2>1. q = Tail(queue) \/ q = Append(Tail(queue), Sn)
    BY DEF ProcessSend, SendData, Sn
  <2> HIDE DEF q
  <2> QED BY <1>3, <1>4, <2>1, PostHandler
<1> HIDE DEF q
<1>6. Append(q, Pr) \in Seq(Handler) /\ Processes(Append(q, Pr)) = {Len(q) + 1}
  BY <1>4, <1>5, PostHandler
<1>7. queue' \in Seq(Handler) /\ OneProcess(queue') /\ (~ error => Processes(queue') # {})
  BY <1>2, <1>5, <1>6 DEF OneProcess
<1>8. con <= StreamEnd(out')
  <2>1. StreamEnd(out) <= StreamEnd(out') /\ StreamEnd(out) \in Nat /\ StreamEnd(out') \in Nat
    BY <1>1, RepliesGrow DEF AnySocketInv
  <2> QED BY <2>1 DEF AnySocketInv, ConnTypes
<1> QED BY <1>1, <1>7, <1>8 DEF AnySocketInv, ConnTypes, ChainsOnce

\* Send and the completions of its write_some
LEMMA WriteAny ==
  ASSUME AnySocketInv, SendHandler \/ handle_write
  PROVE  AnySocketInv'
<1>1. /\ queue \in Seq(Handler) /\ queue # <<>> /\ Head(queue).op # "Process" /\ OneProcess(queue)
      /\ UNCHANGED <<routeVars, rd, error, peer>>
  BY DEF SendHandler, handle_write, Runs, AnySocketInv, ChainsOnce
<1> DEFINE w == Head(queue)
           q == Tail(queue)
<1>2. /\ w \in Handler /\ q \in Seq(Handler) /\ OneProcess(q)
      /\ Processes(queue) # {} => Processes(q) # {}
  BY <1>1, TakeHandler
<1>3. StreamEnd(out) \in Nat /\ con \in Nat /\ con <= StreamEnd(out)
  BY StreamFacts DEF AnySocketInv, RouteTypeOK, ConnTypes
<1>4. /\ tx \in Seq(Chunk) /\ inflight \in Seq(Handler)
      /\ \A i \in 1..Len(inflight) : inflight[i].op = "Written"
  BY DEF AnySocketInv, ConnTypes
<1> HIDE DEF w, q
<1>5. ASSUME NEW f \in Nat, NEW l \in Nat, NEW n \in Nat, n <= l, WriteSome(f, l, n, q), con' = con
      PROVE  AnySocketInv'
  <2>1. /\ queue' \in Seq(Handler) /\ Processes(queue') = Processes(q)
        /\ tx' \in Seq(Chunk) /\ inflight' \in Seq(Handler)
        /\ \A i \in 1..Len(inflight') : inflight'[i].op = "Written"
    BY <1>2, <1>4, <1>5, WriteSomeAny
  <2>2. OneProcess(queue') /\ (Processes(queue) # {} => Processes(queue') # {})
    BY <1>2, <2>1 DEF OneProcess
  <2>3. RouteTypeOK'
    BY <1>1 DEF AnySocketInv, RouteTypeOK, routeVars
  <2>4. ConnTypes'
    BY <1>1, <1>5, <2>1 DEF AnySocketInv, ConnTypes, routeVars
  <2>5. ChainsOnce'
    BY <1>1, <2>2 DEF AnySocketInv, ChainsOnce
  <2> QED BY <2>1, <2>3, <2>4, <2>5 DEF AnySocketInv
<1>6. CASE SendHandler
  <2>1. WriteSome(con, StreamEnd(out) - con, 0, q) /\ con' = con
    BY <1>6 DEF SendHandler, q
  <2>2. StreamEnd(out) - con \in Nat /\ 0 \in Nat /\ 0 <= StreamEnd(out) - con
    BY <1>3
  <2> QED BY <1>3, <1>5, <2>1, <2>2
<1>7. CASE handle_write
  <2>1. w.from \in Nat /\ w.len \in Nat /\ w.n \in Nat /\ w.m \in Nat
    BY <1>2 DEF Handler
  <2>2. CASE w.n + w.m < w.len
    <3>1. WriteSome(w.from, w.len, w.n + w.m, q) /\ con' = con
      BY <1>7, <2>2 DEF handle_write, w, q
    <3>2. w.n + w.m \in Nat /\ w.n + w.m <= w.len
      BY <2>1, <2>2
    <3> QED BY <1>5, <2>1, <3>1, <3>2
  <2>3. CASE ~ (w.n + w.m < w.len)
    <3>1. /\ queue' = q /\ UNCHANGED <<inflight, tx>>
          /\ con' = IF con + (w.n + w.m) <= StreamEnd(out) THEN con + (w.n + w.m)
                    ELSE StreamEnd(out)
      BY <1>7, <2>3 DEF handle_write, w, q
    <3>2. con' \in Nat /\ con' <= StreamEnd(out)
      BY <1>3, <2>1, <3>1
    <3>3. RouteTypeOK'
      BY <1>1 DEF AnySocketInv, RouteTypeOK, routeVars
    <3>4. ConnTypes'
      BY <1>1, <3>1, <3>2 DEF AnySocketInv, ConnTypes, routeVars
    <3>5. ChainsOnce'
      BY <1>1, <1>2, <3>1 DEF AnySocketInv, ChainsOnce
    <3> QED BY <1>2, <1>4, <3>1, <3>3, <3>4, <3>5 DEF AnySocketInv
  <2> QED BY <2>2, <2>3
<1> QED BY <1>6, <1>7

\* The socket completes its oldest write_some.
LEMMA DrainAny == ASSUME AnySocketInv, SocketDrains PROVE AnySocketInv'
<1> DEFINE w == Head(inflight)
           e == Written(w.from, w.n, w.n, 0)
<1>1. /\ inflight # <<>> /\ inflight' = Tail(inflight)
      /\ UNCHANGED <<routeVars, con, rd, error, peer>>
      /\ \/ queue' = Append(queue, e) /\ UNCHANGED tx
         \/ queue' = Append(queue, w) /\ tx' = Transmit(w.from + w.n, w.m)
  BY DEF SocketDrains
<1>2. /\ inflight \in Seq(Handler) /\ queue \in Seq(Handler) /\ tx \in Seq(Chunk)
      /\ \A i \in 1..Len(inflight) : inflight[i].op = "Written"
  BY DEF AnySocketInv, ConnTypes
<1>3. w \in Handler /\ w.op = "Written"
  <2>1. w = inflight[1] /\ 1 \in 1..Len(inflight)
    BY <1>1, <1>2
  <2> QED BY <1>2, <2>1
<1>4. /\ inflight' \in Seq(Handler)
      /\ \A i \in 1..Len(inflight') : inflight'[i].op = "Written"
  <2>1. Tail(inflight) \in Seq(Handler) /\ Len(Tail(inflight)) = Len(inflight) - 1
    BY <1>1, <1>2
  <2>2. ASSUME NEW i \in 1..(Len(inflight) - 1)
        PROVE  Tail(inflight)[i] = inflight[i + 1] /\ i + 1 \in 1..Len(inflight)
    <3>1. Len(inflight) \in Nat
      BY <1>2
    <3>2. i + 1 \in 1..Len(inflight)
      BY <3>1
    <3>3. Tail(inflight)[i] = inflight[i + 1]
      BY <1>1, <1>2, <2>1
    <3> QED BY <3>2, <3>3
  <2> QED BY <1>1, <1>2, <2>1, <2>2
<1> HIDE DEF w
<1>5. w.from \in Nat /\ w.n \in Nat /\ w.m \in Nat /\ w.from + w.n \in Nat /\ 0 \in Nat
  BY <1>3 DEF Handler
<1>6. e \in Handler /\ e.op = "Written"
  BY <1>5, WrittenType, Zenon
<1> HIDE DEF e
<1>7. queue' \in Seq(Handler) /\ Processes(queue') = Processes(queue)
  <2>1. ASSUME NEW h \in Handler, h.op = "Written", queue' = Append(queue, h)
        PROVE  queue' \in Seq(Handler) /\ Processes(queue') = Processes(queue)
    <3>1. queue \in Seq(Handler) /\ h.op # "Process"
      BY <1>2, <2>1
    <3> QED BY <2>1, <3>1, PostHandler
  <2> QED BY <1>1, <1>3, <1>6, <2>1
<1>8. tx' \in Seq(Chunk)
  BY <1>1, <1>2, <1>5, TransmitType
<1>9. RouteTypeOK'
  BY <1>1 DEF AnySocketInv, RouteTypeOK, routeVars
<1>10. ConnTypes'
  BY <1>1, <1>8 DEF AnySocketInv, ConnTypes, routeVars
<1>11. ChainsOnce'
  BY <1>1, <1>7 DEF AnySocketInv, ChainsOnce, OneProcess
<1> QED BY <1>4, <1>7, <1>9, <1>10, <1>11 DEF AnySocketInv

\* A connection that starts has both chains.
LEMMA AnySocketInit == ConnInit => AnySocketInv
<1> SUFFICES ASSUME ConnInit PROVE AnySocketInv
  OBVIOUS
<1>1. RouteTypeOK /\ StreamEnd(out) \in Nat
  BY SoundInit, StreamFacts DEF ConnInit, SoundInv, RouteTypeOK
<1>2. /\ queue = <<Pr>> /\ inflight = <<>> /\ con = 0 /\ tx = <<>>
      /\ rd = "posted" /\ error = FALSE /\ peer = "open"
  BY DEF ConnInit, Pr
<1>3. <<Pr>> \in Seq(Handler) /\ Processes(<<Pr>>) = {1}
  <2>1. <<Pr>> \in Seq(Handler) /\ Len(<<Pr>>) = 1 /\ <<Pr>>[1] = Pr /\ 1..1 = {1}
    BY Handlers
  <2> QED BY <2>1, Handlers DEF Processes
<1>4. ConnTypes
  <2>1. con \in Nat /\ con <= StreamEnd(out) /\ tx \in Seq(Chunk)
    BY <1>1, <1>2
  <2>2. /\ rd \in {"posted", "reading", "stopped"} /\ error \in BOOLEAN
        /\ peer \in {"open", "closed", "reset"}
    BY <1>2, Zenon
  <2> QED BY <2>1, <2>2 DEF ConnTypes
<1>5. ChainsOnce
  BY <1>2, <1>3 DEF ChainsOnce, OneProcess
<1> QED BY <1>1, <1>2, <1>3, <1>4, <1>5 DEF AnySocketInv

\* Every step of the connection, of its socket and of its client keeps the invariant.
LEMMA AnySocketStep == AnySocketInv /\ RouteTypeOK' /\ [ConnNext]_connVars => AnySocketInv'
<1> SUFFICES ASSUME AnySocketInv, RouteTypeOK', [ConnNext]_connVars PROVE AnySocketInv'
  OBVIOUS
<1>1. CASE Process
  BY <1>1, ProcessAny
<1>2. CASE SendHandler \/ handle_write
  BY <1>2, WriteAny
<1>3. CASE SocketDrains
  BY <1>3, DrainAny
<1>4. CASE ReadSome \/ ClientSends
  <2>1. UNCHANGED <<sendVars, error, peer, out>>
    BY <1>4 DEF ReadSome, handle_read, ClientSends, Receive, PeerSend
  <2>2. rd' \in {"posted", "reading", "stopped"} /\ (error <=> rd' = "stopped")
    BY <1>4 DEF ReadSome, handle_read, ClientSends, AnySocketInv, ConnTypes, ChainsOnce
  <2> QED BY <2>1, <2>2 DEF AnySocketInv, ConnTypes, ChainsOnce, sendVars
<1>5. CASE start_read \/ handle_read_error \/ ClientCloses \/ ClientResets
  <2>1. UNCHANGED <<sendVars, routeVars>>
    BY <1>5 DEF start_read, handle_read_error, ClientCloses, ClientResets
  <2>2. /\ rd' \in {"posted", "reading", "stopped"} /\ (error' <=> rd' = "stopped")
        /\ error' \in BOOLEAN /\ peer' \in {"open", "closed", "reset"} /\ (error => error')
    <3>1. CASE start_read
      BY <3>1, Zenon DEF start_read, AnySocketInv, ConnTypes, ChainsOnce
    <3>2. CASE handle_read_error
      BY <3>2, Zenon DEF handle_read_error, AnySocketInv, ConnTypes
    <3>3. CASE ClientCloses \/ ClientResets
      <4>1. rd' = rd /\ error' = error /\ peer' \in {"closed", "reset"}
        BY <3>3 DEF ClientCloses, ClientResets
      <4> QED BY <4>1, Zenon DEF AnySocketInv, ConnTypes, ChainsOnce
    <3> QED BY <1>5, <3>1, <3>2, <3>3
  <2> QED BY <2>1, <2>2 DEF AnySocketInv, ConnTypes, ChainsOnce, sendVars, routeVars
<1>6. CASE UNCHANGED connVars
  BY <1>6 DEF AnySocketInv, ConnTypes, ChainsOnce, connVars, sendVars, routeVars
<1> QED BY <1>1, <1>2, <1>3, <1>4, <1>5, <1>6 DEF ConnNext, ReadChain, ProcessChain

(***************************************************************************)
(* On every socket, also one without room for the replies, where writes may  *)
(* overlap and OneWriteAtATime fails: mDataStreamSend is never consumed      *)
(* beyond its end, the requests are still dispatched once and in order, and  *)
(* each of the two chains of handlers goes on, once, until the read fails.   *)
(***************************************************************************)
THEOREM ConnectionAnySocket ==
  ConnSpec => [](ConnTypeOK /\ DispatchedInOrder /\ ChainsOnce)
<1>1. ConnSpec => [](RouteTypeOK /\ DispatchedInOrder)
  BY ConnRouteStep, RouteSound, PTL DEF ConnSpec, RouteSpec, ConnInit
<1>2. AnySocketInv => ConnTypeOK /\ ChainsOnce
  <2> SUFFICES ASSUME AnySocketInv PROVE ConnTypeOK /\ ChainsOnce
    OBVIOUS
  <2>1. StreamEnd(out) \in Nat
    BY StreamFacts DEF AnySocketInv, RouteTypeOK
  <2>2. con \in 0..StreamEnd(out)
    BY <2>1 DEF AnySocketInv, ConnTypes
  <2> QED BY <2>2 DEF AnySocketInv, ConnTypes, ConnTypeOK
<1> QED BY <1>1, <1>2, AnySocketInit, AnySocketStep, PTL DEF ConnSpec

-----------------------------------------------------------------------------
(* After a failed read *)

\* Only completions of writes are queued behind a Process.
WrittenAfter(q) ==
  \A i \in Processes(q), j \in 1..Len(q) : j > i => q[j].op = "Written"

\* A completion may be queued anywhere, and anything where there is no Process.
LEMMA WrittenPost ==
  ASSUME NEW q \in Seq(Handler), NEW h \in Handler, WrittenAfter(q),
         h.op = "Written" \/ Processes(q) = {}
  PROVE  WrittenAfter(Append(q, h))
<1> DEFINE a == Append(q, h)
           n == Len(q) + 1
<1>1. /\ Len(q) \in Nat /\ Len(a) = n /\ a[n] = h
      /\ \A i \in 1..Len(q) : a[i] = q[i]
  OBVIOUS
<1>2. 1..Len(a) = 1..Len(q) \cup {n} /\ \A i \in 1..Len(q) : i < n /\ ~(n < i) /\ ~(n < n)
  BY <1>1
<1>3. Processes(a) \subseteq Processes(q) \cup {n}
  BY <1>1, <1>2 DEF Processes
<1> HIDE DEF a, n
<1> SUFFICES ASSUME NEW i \in Processes(a), NEW j \in 1..Len(a), j > i
             PROVE  a[j].op = "Written"
  BY DEF WrittenAfter, a
<1>4. i \in Processes(q)
  <2>1. i = n => FALSE
    BY <1>1, <1>2 DEF n
  <2> QED BY <1>3, <2>1
<1>5. CASE j \in 1..Len(q)
  BY <1>1, <1>4, <1>5 DEF WrittenAfter
<1>6. CASE j = n
  BY <1>1, <1>4, <1>6
<1> QED BY <1>2, <1>5, <1>6

\* The order is the same without the oldest handler; behind a Process there are
\* only completions.
LEMMA WrittenTake ==
  ASSUME NEW q \in Seq(Handler), q # <<>>, WrittenAfter(q)
  PROVE  /\ WrittenAfter(Tail(q)) /\ Len(Tail(q)) = Len(q) - 1
         /\ Head(q).op = "Process" => \A i \in 1..Len(Tail(q)) : Tail(q)[i].op = "Written"
<1> DEFINE t == Tail(q)
<1>1. /\ Len(q) \in Nat /\ Len(q) >= 1 /\ Head(q) = q[1] /\ Len(t) = Len(q) - 1
      /\ \A i \in 1..Len(t) : t[i] = q[i + 1]
  OBVIOUS
<1>2. \A i \in 1..Len(t) : i + 1 \in 1..Len(q) /\ i + 1 > 1
  BY <1>1
<1> HIDE DEF t
<1>3. ASSUME NEW i \in Processes(t), NEW j \in 1..Len(t), j > i
      PROVE  t[j].op = "Written"
  <2>1. i \in 1..Len(t) /\ i + 1 \in Processes(q)
    BY <1>1, <1>2 DEF Processes
  <2>2. j + 1 > i + 1
    BY <1>1, <1>3, <2>1
  <2> QED BY <1>1, <1>2, <2>1, <2>2 DEF WrittenAfter
<1>4. ASSUME Head(q).op = "Process", NEW i \in 1..Len(t) PROVE t[i].op = "Written"
  <2>1. 1 \in Processes(q)
    BY <1>1, <1>4 DEF Processes
  <2> QED BY <1>1, <1>2, <2>1 DEF WrittenAfter
<1> QED BY <1>1, <1>3, <1>4 DEF WrittenAfter, t

\* A write_some is one handler, posted or with the socket.
LEMMA WriteSomePosts ==
  ASSUME NEW f \in Nat, NEW l \in Nat, NEW n \in Nat, n <= l, NEW q,
         inflight \in Seq(Handler), WriteSome(f, l, n, q)
  PROVE  \/ queue' = q /\ Len(inflight') = Len(inflight) + 1
         \/ /\ \E h \in Handler : h.op = "Written" /\ queue' = Append(q, h)
            /\ inflight' = inflight
<1> DEFINE m == IF l - n <= MaxTransfer THEN l - n ELSE MaxTransfer
           w == Written(f, l, n, m)
           e == Written(f, n, n, 0)
<1>1. m \in Nat
  BY TransferAssumption
<1>2. \/ queue' = Append(q, e) /\ UNCHANGED <<inflight, tx>>
      \/ queue' = q /\ inflight' = Append(inflight, w) /\ UNCHANGED tx
      \/ queue' = Append(q, w) /\ tx' = Transmit(f + n, m) /\ UNCHANGED inflight
  BY DEF WriteSome
<1> HIDE DEF m
<1>3. w \in Handler /\ w.op = "Written" /\ e \in Handler /\ e.op = "Written"
  <2>1. 0 \in Nat
    OBVIOUS
  <2> QED BY <1>1, <2>1, WrittenType, Zenon
<1> HIDE DEF w, e
<1>4. Len(Append(inflight, w)) = Len(inflight) + 1
  BY <1>3
<1> QED BY <1>2, <1>3, <1>4

\* Send and the completions of its write_some take a handler from the queue and add
\* at most one, a completion.
LEMMA WriteTakes ==
  ASSUME AnySocketInv, SendHandler \/ handle_write
  PROVE  LET q == Tail(queue)
         IN  /\ queue # <<>>
             /\ \/ queue' = q /\ Len(inflight') = Len(inflight) + 1
                \/ queue' = q /\ inflight' = inflight
                \/ /\ \E h \in Handler : h.op = "Written" /\ queue' = Append(q, h)
                   /\ inflight' = inflight
<1> DEFINE w == Head(queue)
           q == Tail(queue)
<1>1. queue # <<>> /\ w \in Handler /\ inflight \in Seq(Handler)
  <2>1. queue # <<>> /\ queue \in Seq(Handler) /\ inflight \in Seq(Handler)
    BY DEF AnySocketInv, SendHandler, handle_write, Runs
  <2> QED BY <2>1
<1>2. StreamEnd(out) \in Nat /\ con \in Nat /\ con <= StreamEnd(out)
  BY StreamFacts DEF AnySocketInv, RouteTypeOK, ConnTypes
<1>3. CASE SendHandler
  <2>1. WriteSome(con, StreamEnd(out) - con, 0, q)
    BY <1>3 DEF SendHandler
  <2>2. StreamEnd(out) - con \in Nat /\ 0 \in Nat /\ 0 <= StreamEnd(out) - con
    BY <1>2
  <2> HIDE DEF q
  <2>3. \/ queue' = q /\ Len(inflight') = Len(inflight) + 1
        \/ /\ \E h \in Handler : h.op = "Written" /\ queue' = Append(q, h)
           /\ inflight' = inflight
    BY <1>1, <1>2, <2>1, <2>2, WriteSomePosts
  <2> QED BY <1>1, <2>3 DEF q
<1>4. CASE handle_write
  <2>1. w.from \in Nat /\ w.len \in Nat /\ w.n \in Nat /\ w.m \in Nat
    BY <1>1 DEF Handler
  <2>2. CASE w.n + w.m < w.len
    <3>1. WriteSome(w.from, w.len, w.n + w.m, q)
      BY <1>4, <2>2 DEF handle_write
    <3> HIDE DEF w, q
    <3>2. w.n + w.m \in Nat /\ w.n + w.m <= w.len
      BY <2>1, <2>2
    <3>3. \/ queue' = q /\ Len(inflight') = Len(inflight) + 1
          \/ /\ \E h \in Handler : h.op = "Written" /\ queue' = Append(q, h)
             /\ inflight' = inflight
      BY <1>1, <2>1, <3>1, <3>2, WriteSomePosts
    <3> QED BY <1>1, <3>3 DEF q
  <2>3. CASE ~ (w.n + w.m < w.len)
    BY <1>1, <1>4, <2>3 DEF handle_write
  <2> QED BY <2>2, <2>3
<1> QED BY <1>3, <1>4

\* The socket hands one completion from inflight to the queue.
LEMMA DrainPosts ==
  ASSUME AnySocketInv, SocketDrains
  PROVE  /\ \E h \in Handler : h.op = "Written" /\ queue' = Append(queue, h)
         /\ Len(inflight') = Len(inflight) - 1
<1> DEFINE w == Head(inflight)
           e == Written(w.from, w.n, w.n, 0)
<1>1. /\ inflight # <<>> /\ inflight' = Tail(inflight)
      /\ queue' = Append(queue, e) \/ queue' = Append(queue, w)
  BY DEF SocketDrains
<1>2. /\ inflight \in Seq(Handler)
      /\ \A i \in 1..Len(inflight) : inflight[i].op = "Written"
  BY DEF AnySocketInv
<1>3. w = inflight[1] /\ 1 \in 1..Len(inflight) /\ Len(inflight') = Len(inflight) - 1
  BY <1>1, <1>2
<1>4. w \in Handler /\ w.op = "Written"
  BY <1>2, <1>3
<1> HIDE DEF w
<1>5. w.from \in Nat /\ w.n \in Nat /\ 0 \in Nat
  BY <1>4 DEF Handler
<1>6. e \in Handler /\ e.op = "Written"
  BY <1>5, WrittenType, Zenon
<1> HIDE DEF e
<1> QED BY <1>1, <1>3, <1>4, <1>6

\* TcpConnection::Process takes itself from the queue; after an error that is all,
\* and before it posts to a queue without another Process.
LEMMA ProcessPosts ==
  ASSUME AnySocketInv, Process
  PROVE  LET q == Tail(queue)
         IN  /\ queue # <<>> /\ Head(queue).op = "Process" /\ inflight' = inflight
             /\ q \in Seq(Handler) /\ Processes(q) = {}
             /\ error => queue' = q
             /\ ~error => queue' = Append(q, Pr) \/ queue' = Append(Append(q, Sn), Pr)
<1> DEFINE q == Tail(queue)
<1>1. /\ queue \in Seq(Handler) /\ queue # <<>> /\ Head(queue).op = "Process"
      /\ OneProcess(queue) /\ inflight' = inflight
  BY DEF Process, Runs, AnySocketInv, ChainsOnce
<1>2. q \in Seq(Handler) /\ Processes(q) = {}
  BY <1>1, TakeHandler
<1>3. /\ error => queue' = q
      /\ ~error => queue' = Append(q, Pr) \/ queue' = Append(Append(q, Sn), Pr)
  BY DEF Process, ProcessSend, SendData, Pr, Sn
<1> QED BY <1>1, <1>2, <1>3

\* Every step keeps the order of the queue.
LEMMA WrittenAfterStep ==
  AnySocketInv /\ WrittenAfter(queue) /\ [ConnNext]_connVars => WrittenAfter(queue)'
<1> SUFFICES ASSUME AnySocketInv, WrittenAfter(queue), [ConnNext]_connVars
             PROVE  WrittenAfter(queue')
  OBVIOUS
<1> DEFINE q == Tail(queue)
<1>0. /\ queue \in Seq(Handler)
      /\ queue # <<>> => q \in Seq(Handler) /\ WrittenAfter(q)
  <2>1. queue \in Seq(Handler)
    BY DEF AnySocketInv
  <2> QED BY <2>1, WrittenTake
<1> HIDE DEF q
<1>1. CASE Process
  <2>1. /\ q \in Seq(Handler) /\ Processes(q) = {} /\ WrittenAfter(q)
        /\ queue' = q \/ queue' = Append(q, Pr) \/ queue' = Append(Append(q, Sn), Pr)
    BY <1>0, <1>1, ProcessPosts DEF q
  <2>2. Pr \in Handler /\ Sn \in Handler /\ Sn.op # "Process"
    BY Handlers
  <2>3. /\ Append(q, Sn) \in Seq(Handler) /\ Processes(Append(q, Sn)) = {}
        /\ WrittenAfter(Append(q, Sn)) /\ WrittenAfter(Append(q, Pr))
    BY <2>1, <2>2, PostHandler, WrittenPost
  <2>4. WrittenAfter(Append(Append(q, Sn), Pr))
    BY <2>2, <2>3, WrittenPost
  <2> QED BY <2>1, <2>3, <2>4
<1>2. CASE SendHandler \/ handle_write
  <2>1. \/ queue' = q
        \/ \E h \in Handler : h.op = "Written" /\ queue' = Append(q, h)
    BY <1>2, WriteTakes DEF q
  <2>2. queue # <<>>
    BY <1>2 DEF SendHandler, handle_write, Runs
  <2> QED BY <1>0, <2>1, <2>2, WrittenPost
<1>3. CASE SocketDrains
  BY <1>0, <1>3, DrainPosts, WrittenPost
<1>4. CASE ReadChain \/ ClientSends \/ ClientCloses \/ ClientResets \/ UNCHANGED connVars
  <2>1. queue' = queue
    BY <1>4 DEF ReadChain, start_read, ReadSome, handle_read, handle_read_error, ClientSends,
                ClientCloses, ClientResets, connVars, sendVars
  <2> QED BY <2>1
<1> QED BY <1>1, <1>2, <1>3, <1>4 DEF ConnNext, ProcessChain

\* What AfterError says of one step.
Ending ==
  error =>
    /\ error' /\ rd' = "stopped"
    /\ Len(queue') + Len(inflight') <= Len(queue) + Len(inflight)
    /\ \A op \in {"Process", "Send"} :
         Queued(op)' => Queued(op) /\ UNCHANGED <<pos, dispatched, out>>

\* A Process or Send of a queue with one more completion, or without the oldest
\* handler, is one of the queue.
LEMMA QueuedBefore ==
  ASSUME NEW q \in Seq(Handler), NEW op \in {"Process", "Send"}
  PROVE  /\ \A h \in Handler : h.op = "Written" =>
              \A i \in 1..Len(Append(q, h)) : Append(q, h)[i].op = op =>
                \E j \in 1..Len(q) : q[j].op = op
         /\ q # <<>> =>
              \A i \in 1..Len(Tail(q)) : Tail(q)[i].op = op =>
                \E j \in 1..Len(q) : q[j].op = op
<1>1. ASSUME NEW h \in Handler, h.op = "Written", NEW i \in 1..Len(Append(q, h)),
             Append(q, h)[i].op = op
      PROVE  i \in 1..Len(q) /\ q[i].op = op
  <2>1. /\ Len(q) \in Nat /\ Len(Append(q, h)) = Len(q) + 1 /\ Append(q, h)[Len(q) + 1] = h
        /\ \A j \in 1..Len(q) : Append(q, h)[j] = q[j]
    OBVIOUS
  <2>2. i # Len(q) + 1
    BY <1>1, <2>1
  <2>3. i \in 1..Len(q)
    BY <2>1, <2>2
  <2> QED BY <1>1, <2>1, <2>3
<1>2. ASSUME q # <<>>, NEW i \in 1..Len(Tail(q)), Tail(q)[i].op = op
      PROVE  i + 1 \in 1..Len(q) /\ q[i + 1].op = op
  <2>1. i + 1 \in 1..Len(q) /\ Tail(q)[i] = q[i + 1]
    BY <1>2
  <2> QED BY <1>2, <2>1
<1> QED BY <1>1, <1>2

\* After a failed read every step is such a step.
LEMMA EndingStep == AnySocketInv /\ WrittenAfter(queue) /\ ConnNext => Ending
<1> SUFFICES ASSUME AnySocketInv, WrittenAfter(queue), ConnNext, error PROVE Ending
  BY DEF Ending
<1> DEFINE q == Tail(queue)
<1>0. /\ queue \in Seq(Handler) /\ inflight \in Seq(Handler) /\ rd = "stopped"
      /\ Len(queue) \in Nat /\ Len(inflight) \in Nat
  BY DEF AnySocketInv, ChainsOnce
<1>a. queue # <<>> => Len(q) = Len(queue) - 1 /\ q \in Seq(Handler)
  BY <1>0
<1> HIDE DEF q
<1>b. \A h \in Handler : queue # <<>> => Len(Append(q, h)) = Len(queue)
  BY <1>0, <1>a
<1>1. CASE Process
  <2>1. /\ queue # <<>> /\ Head(queue).op = "Process" /\ inflight' = inflight /\ queue' = q
        /\ UNCHANGED <<rd, error>>
    BY <1>1, ProcessPosts DEF q, Process
  <2>2. \A i \in 1..Len(q) : q[i].op = "Written"
    BY <1>0, <2>1, WrittenTake DEF q
  <2>3. Len(queue') + Len(inflight') <= Len(queue) + Len(inflight)
    BY <1>0, <1>a, <2>1
  <2>4. ~Queued("Process")' /\ ~Queued("Send")'
    BY <2>1, <2>2 DEF Queued
  <2> QED BY <1>0, <2>1, <2>3, <2>4 DEF Ending
<1>2. CASE SendHandler \/ handle_write
  <2>1. /\ queue # <<>>
        /\ \/ queue' = q /\ Len(inflight') = Len(inflight) + 1
           \/ queue' = q /\ inflight' = inflight
           \/ /\ \E h \in Handler : h.op = "Written" /\ queue' = Append(q, h)
              /\ inflight' = inflight
    BY <1>2, WriteTakes DEF q
  <2>2. Len(queue') + Len(inflight') <= Len(queue) + Len(inflight)
    BY <1>0, <1>a, <1>b, <2>1
  <2>3. UNCHANGED <<pos, dispatched, out, rd, error>>
    BY <1>2 DEF SendHandler, handle_write, routeVars
  <2>4. ASSUME NEW op \in {"Process", "Send"}, Queued(op)' PROVE Queued(op)
    <3>1. PICK i \in 1..Len(queue') : queue'[i].op = op
      BY <2>4 DEF Queued
    <3>2. \E j \in 1..Len(q) : q[j].op = op
      BY <1>a, <2>1, <3>1, QueuedBefore
    <3> QED BY <1>0, <2>1, <3>2, QueuedBefore DEF Queued, q
  <2> QED BY <1>0, <2>2, <2>3, <2>4 DEF Ending
<1>3. CASE SocketDrains
  <2>1. /\ \E h \in Handler : h.op = "Written" /\ queue' = Append(queue, h)
        /\ Len(inflight') = Len(inflight) - 1
    BY <1>3, DrainPosts
  <2>2. Len(queue') = Len(queue) + 1
    BY <1>0, <2>1
  <2>3. Len(queue') + Len(inflight') <= Len(queue) + Len(inflight)
    BY <1>0, <2>1, <2>2
  <2>4. UNCHANGED <<pos, dispatched, out, rd, error>>
    BY <1>3 DEF SocketDrains, routeVars
  <2>5. \A op \in {"Process", "Send"} : Queued(op)' => Queued(op)
    BY <1>0, <2>1, QueuedBefore DEF Queued
  <2> QED BY <1>0, <2>3, <2>4, <2>5 DEF Ending
<1>4. CASE ReadChain
  BY <1>0, <1>4 DEF ReadChain, start_read, ReadSome, handle_read, handle_read_error
<1>5. CASE ClientSends \/ ClientCloses \/ ClientResets
  <2>1. UNCHANGED <<sendVars, pos, dispatched, out, rd, error>>
    BY <1>5 DEF ClientSends, PeerSend, ClientCloses, ClientResets, routeVars
  <2>2. \A op \in {"Process", "Send"} : Queued(op)' => Queued(op)
    BY <2>1 DEF Queued, sendVars
  <2> QED BY <1>0, <2>1, <2>2 DEF Ending, sendVars
<1> QED BY <1>1, <1>2, <1>3, <1>4, <1>5 DEF ConnNext, ProcessChain

(***************************************************************************)
(* On every socket, whatever is queued and in flight when the read fails:    *)
(* the connection only runs out.  At most one request is dispatched after    *)
(* the failure, and no reply to it is sent.  Requests behind it are dropped. *)
(***************************************************************************)
THEOREM ConnectionRunsOut == ConnSpec => AfterError
<1>1. ConnInit => WrittenAfter(queue)
  <2> SUFFICES ASSUME ConnInit PROVE WrittenAfter(queue)
    OBVIOUS
  <2>1. queue = <<Pr>> /\ Len(<<Pr>>) = 1 /\ 1..1 = {1}
    BY DEF ConnInit, Pr
  <2> QED BY <2>1 DEF WrittenAfter, Processes
<1>2. ConnSpec => []RouteTypeOK
  BY ConnRouteStep, RouteSound, PTL DEF ConnSpec, RouteSpec, ConnInit
<1>3. AnySocketInv /\ WrittenAfter(queue) /\ [ConnNext]_connVars => [Ending]_connVars
  BY EndingStep
<1> QED
  BY <1>1, <1>2, <1>3, AnySocketInit, AnySocketStep, WrittenAfterStep, PTL
     DEF ConnSpec, AfterError, Ending

=============================================================================

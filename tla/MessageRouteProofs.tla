------------------------- MODULE MessageRouteProofs -------------------------
(***************************************************************************)
(* Proofs about MessageRoute for all packet sizes, all types, all registered *)
(* processors and streams of any length.                                    *)
(***************************************************************************)
EXTENDS MessageRoute, TLAPS

\* Where ProcessRecv may stand: it waits for no packet, it waits for the rest of
\* a packet whose length it has read, or it is a new route whose length was never
\* set.
ReadPoint ==
  \/ preTotalLen <= 0
  \/ \E k \in 1..Len(wire) :
       pos = wire[k].at + 8 /\ preTotalLen = Total(wire[k])
  \/ pos = 0 /\ dispatched = <<>>

\* Inductive for every initial value of preTotalLen.
SoundInv ==
  RouteTypeOK /\ ReadPoint /\ DispatchedInOrder

-----------------------------------------------------------------------------
(* Streams *)

\* What the proofs use of a stream: its packets have their types and lengths,
\* they lie apart and in order, and none reaches beyond the end of the stream.
LEMMA StreamFacts ==
  ASSUME NEW s, IsStream(s)
  PROVE  /\ Len(s) \in Nat /\ StreamEnd(s) \in Nat
         /\ \A k \in 1..Len(s) :
              /\ s[k] \in Placed /\ s[k].at \in Nat
              /\ s[k].head \in Nat /\ s[k].body \in Nat
              /\ FrameLen(s[k]) = 12 + s[k].head + s[k].body
              /\ s[k].at + FrameLen(s[k]) <= StreamEnd(s)
         /\ \A i, j \in 1..Len(s) :
              i < j => s[i].at + FrameLen(s[i]) <= s[j].at
<1>1. s \in Seq(Placed) /\ Len(s) \in Nat
  BY DEF IsStream
<1>2. s = <<>> <=> Len(s) = 0
  BY <1>1
<1>3. \A k \in 1..Len(s) : s[k] \in Placed
  BY <1>1
<1>4. ASSUME NEW q \in Placed
      PROVE  /\ q.at \in Nat /\ q.head \in Nat /\ q.body \in Nat
             /\ FrameLen(q) \in Nat /\ FrameLen(q) = 12 + q.head + q.body
  BY <1>4 DEF Placed, FrameLen, Total
<1>5. s # <<>> => s[Len(s)] \in Placed
  BY <1>1, <1>2, <1>3
<1>6. StreamEnd(s) \in Nat
  BY <1>4, <1>5 DEF StreamEnd
<1>7. \A i, j \in 1..Len(s) : i < j => s[i].at + FrameLen(s[i]) <= s[j].at
  BY DEF IsStream
<1>8. ASSUME NEW i \in 1..Len(s)
      PROVE  s[i].at + FrameLen(s[i]) <= StreamEnd(s)
  <2>1. s # <<>> /\ Len(s) \in 1..Len(s)
    BY <1>1, <1>2
  <2>2. StreamEnd(s) = s[Len(s)].at + FrameLen(s[Len(s)])
    BY <2>1 DEF StreamEnd
  <2>3. CASE i = Len(s)
    BY <1>3, <1>4, <2>2, <2>3
  <2>4. CASE i < Len(s)
    BY <1>3, <1>4, <1>7, <2>1, <2>2, <2>4
  <2> QED BY <1>1, <2>3, <2>4
<1> QED BY <1>1, <1>3, <1>4, <1>6, <1>7, <1>8

\* Send keeps a stream a stream and puts the new packet at its end.
LEMMA SendStream ==
  ASSUME NEW s, IsStream(s), NEW p \in Packet
  PROVE  /\ IsStream(Send(s, p))
         /\ Len(Send(s, p)) = Len(s) + 1
         /\ \A k \in 1..Len(s) : Send(s, p)[k] = s[k]
         /\ Send(s, p)[Len(s) + 1] = Place(p, StreamEnd(s))
         /\ StreamEnd(Send(s, p)) = StreamEnd(s) + FrameLen(p)
         /\ FrameLen(p) \in Nat
<1>1. s \in Seq(Placed) /\ Len(s) \in Nat /\ StreamEnd(s) \in Nat
  BY StreamFacts DEF IsStream
<1>2. FrameLen(p) \in Nat
  BY DEF FrameLen, Total, Packet
<1>3. Place(p, StreamEnd(s)) \in Placed
  BY <1>1 DEF Place, Placed, Packet
<1>4. /\ Send(s, p) \in Seq(Placed)
      /\ Len(Send(s, p)) = Len(s) + 1
      /\ \A k \in 1..Len(s) : Send(s, p)[k] = s[k]
      /\ Send(s, p)[Len(s) + 1] = Place(p, StreamEnd(s))
  BY <1>1, <1>3 DEF Send
<1>5. StreamEnd(Send(s, p)) = StreamEnd(s) + FrameLen(p)
  BY <1>1, <1>2, <1>4 DEF StreamEnd, FrameLen, Total, Place
<1>6. IsStream(Send(s, p))
  <2> DEFINE t == Send(s, p)
  <2>1. t # <<>> => t[1].at = 0
    BY <1>1, <1>4 DEF IsStream, Place, StreamEnd
  <2>2. ASSUME NEW i \in 1..Len(t), NEW j \in 1..Len(t)
        PROVE  /\ j = i + 1 => t[j].at = t[i].at + FrameLen(t[i])
               /\ i < j => t[i].at + FrameLen(t[i]) <= t[j].at
    <3>1. CASE j <= Len(s)
      BY <1>1, <1>4, <2>2, <3>1 DEF IsStream
    <3>2. CASE j = Len(s) + 1
      <4>1. t[j].at = StreamEnd(s)
        BY <1>4, <3>2 DEF Place
      <4>2. i < j => t[i] = s[i] /\ i \in 1..Len(s)
        BY <1>1, <1>4, <3>2
      <4>3. j = i + 1 => StreamEnd(s) = s[i].at + FrameLen(s[i])
        BY <1>1, <3>2, <4>2 DEF StreamEnd
      <4> QED BY <1>1, StreamFacts, <3>2, <4>1, <4>2, <4>3
    <3> QED BY <1>1, <1>4, <3>1, <3>2
  <2> QED BY <1>4, <2>1, <2>2 DEF IsStream
<1> QED BY <1>2, <1>4, <1>5, <1>6

-----------------------------------------------------------------------------
(* One call of ProcessRecv *)

\* What the packets in wire look like, in numbers.
LEMMA WireFacts ==
  ASSUME RouteTypeOK
  PROVE  /\ Len(wire) \in Nat /\ StreamEnd(wire) \in Nat
         /\ arrived \in Nat /\ pos \in Nat /\ pos <= arrived
         /\ arrived <= StreamEnd(wire)
         /\ \A k \in 1..Len(wire) : \E a, h, b \in Nat :
              /\ wire[k].at = a /\ wire[k].head = h /\ wire[k].body = b
              /\ PacketEnd(k) = a + 12 + h + b
              /\ PacketEnd(k) <= StreamEnd(wire)
         /\ \A i, j \in 1..Len(wire) : i < j => PacketEnd(i) <= wire[j].at
<1>1. IsStream(wire)
  BY DEF RouteTypeOK
<1>2. StreamEnd(wire) \in Nat /\ Len(wire) \in Nat
  BY <1>1, StreamFacts
<1>3. /\ arrived \in Nat /\ pos \in Nat /\ pos <= arrived
      /\ arrived <= StreamEnd(wire)
  BY <1>2 DEF RouteTypeOK
<1>4. ASSUME NEW k \in 1..Len(wire)
      PROVE  \E a, h, b \in Nat :
               /\ wire[k].at = a /\ wire[k].head = h /\ wire[k].body = b
               /\ PacketEnd(k) = a + 12 + h + b
               /\ PacketEnd(k) <= StreamEnd(wire)
  <2>1. PICK a \in Nat, h \in Nat, b \in Nat :
          /\ wire[k].at = a /\ wire[k].head = h /\ wire[k].body = b
          /\ FrameLen(wire[k]) = 12 + h + b
          /\ a + FrameLen(wire[k]) <= StreamEnd(wire)
    BY <1>1, StreamFacts
  <2>2. PacketEnd(k) = a + (12 + h + b)
    BY <2>1 DEF PacketEnd
  <2>3. a + (12 + h + b) <= StreamEnd(wire)
    BY <2>1
  <2> QED BY <2>1, <2>2, <2>3
<1>5. \A i, j \in 1..Len(wire) : i < j => PacketEnd(i) <= wire[j].at
  BY <1>1, StreamFacts DEF PacketEnd
<1> QED BY <1>2, <1>3, <1>4, <1>5

\* The fields of a packet of a stream are natural numbers.
LEMMA PacketNumbers ==
  ASSUME NEW k \in 1..Len(wire)
  PROVE  RouteTypeOK => \E a, h, b \in Nat :
           wire[k].at = a /\ PacketEnd(k) = a + 12 + h + b
BY WireFacts

\* The packets lie one after the other.
LEMMA PacketsApart ==
  ASSUME NEW i \in 1..Len(wire), NEW j \in 1..Len(wire)
  PROVE  /\ RouteTypeOK => i \in Nat /\ j \in Nat
         /\ RouteTypeOK /\ i < j => PacketEnd(i) <= wire[j].at
BY WireFacts

\* In numbers: a complete packet is one block, and the rest after its length.
LEMMA BlockOfFrame ==
  ASSUME NEW h \in Nat, NEW b \in Nat
  PROVE  /\ Rest(8 + h + b) = 4 + h + b
         /\ \A n \in Nat : n >= 4 + h + b => BlockRead(8 + h + b, n) = 4 + h + b
<1>1. Rest(8 + h + b) = 4 + h + b
  BY SizesAssumption DEF Rest
<1>2. ASSUME NEW n \in Nat, n >= 4 + h + b
      PROVE  BlockRead(8 + h + b, n) = 4 + h + b
  BY <1>1, <1>2 DEF BlockRead
<1> QED BY <1>1, <1>2

\* The length of a complete packet is positive, and the rest after it a number.
LEMMA TotalNumbers ==
  ASSUME NEW k \in 1..Len(wire), RouteTypeOK
  PROVE  Total(wire[k]) > 0 /\ Rest(Total(wire[k])) \in Int
<1>1. PICK h \in Nat, b \in Nat : wire[k].head = h /\ wire[k].body = b
  BY WireFacts
<1>2. Total(wire[k]) = 8 + h + b
  BY <1>1 DEF Total
<1>3. Rest(8 + h + b) = 4 + h + b
  BY BlockOfFrame
<1> QED BY <1>2, <1>3

\* Unpacking a packet that is completely buffered consumes exactly its bytes and
\* dispatches it if and only if it is deliverable.
LEMMA UnpackFrame ==
  ASSUME NEW k \in 1..Len(wire)
  PROVE  /\ RouteTypeOK
         /\ arrived - (wire[k].at + 8) >= Rest(Total(wire[k]))
         /\ Unpack(Total(wire[k]), wire[k].at + 8)
         =>
         /\ pos' = PacketEnd(k) /\ pos' <= arrived /\ preTotalLen' = 0
         /\ dispatched' = IF Deliverable(wire[k]) THEN Append(dispatched, k)
                          ELSE dispatched
         /\ IsStream(out')
<1>0. SUFFICES ASSUME RouteTypeOK,
                      arrived - (wire[k].at + 8) >= Rest(Total(wire[k])),
                      Unpack(Total(wire[k]), wire[k].at + 8)
               PROVE  /\ pos' = PacketEnd(k) /\ pos' <= arrived
                      /\ preTotalLen' = 0
                      /\ dispatched' = IF Deliverable(wire[k])
                                       THEN Append(dispatched, k) ELSE dispatched
                      /\ IsStream(out')
  OBVIOUS
<1>1. PICK a \in Nat, h \in Nat, b \in Nat :
        /\ wire[k].at = a /\ wire[k].head = h /\ wire[k].body = b
        /\ PacketEnd(k) = a + 12 + h + b
  BY <1>0, WireFacts
<1>2. Total(wire[k]) = 8 + h + b
  BY <1>1 DEF Total
<1>3. arrived \in Nat /\ arrived - (a + 8) >= 4 + h + b
  <2>1. arrived \in Nat
    BY <1>0, WireFacts
  <2>2. Rest(Total(wire[k])) = 4 + h + b
    BY <1>2, BlockOfFrame
  <2> QED BY <1>0, <1>1, <2>1, <2>2
<1>4. Unpack(8 + h + b, a + 8)
  BY <1>0, <1>1, <1>2
<1>5. ASSUME NEW j \in 1..Len(wire)
      PROVE  wire[j].at # a + 8 /\ (wire[j].at + 8 = a + 8 => j = k)
  <2>1. Len(wire) \in Nat
    BY <1>0, WireFacts
  <2>2. PICK aj \in Nat, hj \in Nat, bj \in Nat :
          wire[j].at = aj /\ PacketEnd(j) = aj + 12 + hj + bj
    BY <1>0, PacketNumbers
  <2>3. (j < k => PacketEnd(j) <= a) /\ (k < j => PacketEnd(k) <= aj)
    BY <1>0, <1>1, <2>2, PacketsApart
  <2>4. (j < k => aj + 12 + hj + bj <= a) /\ (k < j => a + 12 + h + b <= aj)
    BY <1>1, <2>2, <2>3
  <2>5. j \in Nat /\ k \in Nat
    BY <2>1
  <2>6. j < k => aj # a + 8 /\ aj # a
    BY <2>4
  <2>7. k < j => aj # a + 8 /\ aj # a
    BY <2>4
  <2>8. j = k => aj = a
    BY <1>1, <2>2
  <2>9. aj # a + 8 /\ (aj + 8 = a + 8 => j = k)
    BY <2>5, <2>6, <2>7, <2>8
  <2> QED BY <2>2, <2>9
<1>6. HeadLenAt(a + 8) = h
  <2> DEFINE c == CHOOSE j \in 1..Len(wire) : wire[j].at + 8 = a + 8
  <2>1. ~ HeadAt(a + 8)
    BY <1>5 DEF HeadAt
  <2>2. wire[k].at + 8 = a + 8
    BY <1>1
  <2>3. c \in 1..Len(wire) /\ wire[c].at + 8 = a + 8
    BY <2>2
  <2>4. c = k
    BY <1>5, <2>3
  <2>5. HeadLenAt(a + 8) = wire[c].head
    BY <2>1 DEF HeadLenAt
  <2> QED BY <1>1, <2>4, <2>5
<1>7. pos' = PacketEnd(k) /\ pos' <= arrived /\ preTotalLen' = 0
  <2>1. arrived - (a + 8) \in Nat
    BY <1>3
  <2>2. BlockRead(8 + h + b, arrived - (a + 8)) = 4 + h + b
    BY <1>3, <2>1, BlockOfFrame
  <2>3. pos' = (a + 8) + (4 + h + b) /\ preTotalLen' = 0
    BY <1>4, <2>2 DEF Unpack
  <2>4. (a + 8) + (4 + h + b) = a + 12 + h + b
    OBVIOUS
  <2>5. pos' <= arrived
    BY <1>3, <2>3
  <2> QED BY <1>1, <2>3, <2>4, <2>5
<1>8. (8 + h + b) - h - 8 = b
  OBVIOUS
<1>9. IsStream(out)
  BY <1>0 DEF RouteTypeOK
<1>10. CASE h <= TEMP_BUFFER_SIZE /\ b <= TEMP_BUFFER_SIZE
  <2>1. b \in 0..TEMP_BUFFER_SIZE
    BY <1>10, SizesAssumption
  <2>2. \E j \in 1..Len(wire) :
          /\ wire[j].at + 8 = a + 8
          /\ IF wire[j].type \in KnownTypes THEN Dispatch(j)
             ELSE UNCHANGED <<dispatched, out>>
    BY <1>4, <1>6, <1>8, <1>10, <2>1 DEF Unpack, createMessage
  <2>3. IF wire[k].type \in KnownTypes THEN Dispatch(k)
        ELSE UNCHANGED <<dispatched, out>>
    BY <1>5, <2>2
  <2>4. CASE wire[k].type \in DOMAIN ProcessorMap
    <3>1. Dispatch(k)
      BY <2>3, <2>4, ProcessorMapAssumption
    <3>2. dispatched' = Append(dispatched, k)
      BY <2>4, <3>1 DEF Dispatch
    <3>3. Deliverable(wire[k])
      BY <1>1, <1>10, <2>4 DEF Deliverable
    <3>4. \/ out' = out
          \/ \E rsp \in ProcessorMap[wire[k].type] : out' = Send(out, rsp)
      BY <2>4, <3>1 DEF Dispatch
    <3>5. IsStream(out')
      BY <1>9, <2>4, <3>4, SendStream, ProcessorMapAssumption
    <3> QED BY <1>7, <3>2, <3>3, <3>5
  <2>5. CASE wire[k].type \notin DOMAIN ProcessorMap
    <3>1. UNCHANGED <<dispatched, out>>
      BY <2>3, <2>5 DEF Dispatch
    <3>2. ~ Deliverable(wire[k])
      BY <2>5 DEF Deliverable
    <3> QED BY <1>7, <1>9, <3>1, <3>2
  <2> QED BY <2>4, <2>5
<1>11. CASE ~ (h <= TEMP_BUFFER_SIZE /\ b <= TEMP_BUFFER_SIZE)
  <2>1. ~ (h <= TEMP_BUFFER_SIZE /\ b \in 0..TEMP_BUFFER_SIZE)
    BY <1>11, SizesAssumption
  <2>2. UNCHANGED <<dispatched, out>>
    BY <1>4, <1>6, <1>8, <2>1 DEF Unpack
  <2>3. ~ Deliverable(wire[k])
    BY <1>1, <1>11 DEF Deliverable
  <2> QED BY <1>7, <1>9, <2>2, <2>3
<1> QED BY <1>10, <1>11

\* Reading a block never takes more than is buffered.
LEMMA BlockReadBound ==
  ASSUME NEW t \in Nat, NEW n \in Nat
  PROVE  BlockRead(t, n) \in 0..n
<1> DEFINE block == IF Rest(t) > 0 THEN Rest(t) ELSE DefaultBlock
<1>1. Rest(t) \in Nat
  BY SizesAssumption DEF Rest
<1>2. block \in Nat /\ block > 0
  BY <1>1, SizesAssumption
<1>3. ASSUME NEW m \in Nat, m > 0, m < 4
      PROVE  m * ((3 + m) \div m) \in Nat
  <2>1. m = 1 \/ m = 2 \/ m = 3
    BY <1>3
  <2> QED BY <2>1
<1>4. (IF block >= 4 THEN block ELSE block * ((3 + block) \div block)) \in Nat
  <2> HIDE DEF block
  <2> QED BY <1>2, <1>3
<1> HIDE DEF block
<1>5. BlockRead(t, n) = LET m == IF block >= 4 THEN block
                                 ELSE block * ((3 + block) \div block)
                        IN  IF m <= n THEN m ELSE n
  BY DEF BlockRead, block
<1> QED BY <1>4, <1>5

\* The three things a call of ProcessRecv that reads anything can do: drop bytes
\* because it does not stand at a packet, read the first two fields of packet k,
\* or take packet k completely.
Dropped ==
  /\ ~ Aligned
  /\ pos' \in 0..arrived /\ pos' >= pos /\ preTotalLen' = 0
  /\ UNCHANGED <<dispatched, out>>

HeadRead(k) ==
  /\ preTotalLen <= 0 /\ pos = wire[k].at
  /\ pos' = wire[k].at + 8 /\ pos' <= arrived /\ preTotalLen' = Total(wire[k])
  /\ UNCHANGED <<dispatched, out>>

FrameRead(k) ==
  /\ pos = wire[k].at \/ pos = wire[k].at + 8
  /\ pos' = PacketEnd(k) /\ pos' <= arrived /\ preTotalLen' = 0
  /\ dispatched' = IF Deliverable(wire[k]) THEN Append(dispatched, k)
                   ELSE dispatched
  /\ IsStream(out')

\* A garbage length makes a new route read the marker of its first packet as a
\* head length: bytes are dropped and nothing is dispatched.
LEMMA GarbageDrops ==
  RouteTypeOK /\ pos = 0 /\ Size >= 8 /\ preTotalLen > 0
    /\ Unpack(preTotalLen, pos) => Dropped
<1>0. SUFFICES ASSUME RouteTypeOK, pos = 0, Size >= 8, preTotalLen > 0,
                      Unpack(preTotalLen, pos)
               PROVE  Dropped
  OBVIOUS
<1>1. arrived \in Nat /\ arrived >= 8 /\ preTotalLen \in Nat
  <2>1. arrived \in Nat /\ preTotalLen \in Int
    BY <1>0, WireFacts DEF RouteTypeOK
  <2> QED BY <1>0, <2>1 DEF Size
<1>2. Len(wire) \in Nat /\ wire # <<>> /\ wire \in Seq(Placed) /\ wire[1].at = 0
  <2>1. StreamEnd(wire) >= 8
    BY <1>0, <1>1, WireFacts
  <2>2. wire # <<>>
    BY <2>1 DEF StreamEnd
  <2> QED BY <1>0, <2>2, WireFacts DEF RouteTypeOK, IsStream
<1>3. 1 \in 1..Len(wire)
  BY <1>2
<1>4. HeadLenAt(0) = Magic
  BY <1>2, <1>3 DEF HeadLenAt, HeadAt
<1>5. pos' = 0 + BlockRead(preTotalLen, arrived - 0) /\ preTotalLen' = 0
  BY <1>0 DEF Unpack
<1>6. pos' \in 0..arrived
  BY <1>1, <1>5, BlockReadBound
<1>7. UNCHANGED <<dispatched, out>>
  BY <1>0, <1>4, SizesAssumption DEF Unpack
<1>8. ~ Aligned
  <2>1. ASSUME NEW k \in 1..Len(wire) PROVE 0 # wire[k].at + 8
    BY <1>0, WireFacts
  <2> QED BY <1>0, <1>1, <2>1 DEF Aligned
<1> QED BY <1>0, <1>1, <1>5, <1>6, <1>7, <1>8 DEF Dropped

\* Every call of ProcessRecv is one of these, or changes nothing.
LEMMA ProcessRecvOutcome ==
  SoundInv /\ ProcessRecv =>
    /\ UNCHANGED <<wire, arrived>>
    /\ \/ UNCHANGED <<pos, preTotalLen, dispatched, out>>
       \/ Dropped
       \/ \E k \in 1..Len(wire) : HeadRead(k) \/ FrameRead(k)
<1>0. SUFFICES ASSUME SoundInv, ProcessRecv
               PROVE  \/ UNCHANGED <<pos, preTotalLen, dispatched, out>>
                      \/ Dropped
                      \/ \E k \in 1..Len(wire) : HeadRead(k) \/ FrameRead(k)
  BY DEF ProcessRecv
<1>1. RouteTypeOK /\ ReadPoint
  BY <1>0 DEF SoundInv
<1>2. arrived \in Nat /\ pos \in Nat /\ preTotalLen \in Int
      /\ arrived <= StreamEnd(wire) /\ StreamEnd(wire) \in Nat
  BY <1>1, WireFacts DEF RouteTypeOK
<1>3. CASE NoData
  BY <1>3 DEF NoData
<1>4. CASE Resume
  <2>1. CASE Size < Rest(preTotalLen)
    BY <1>4, <2>1 DEF Resume
  <2>2. CASE ~ (Size < Rest(preTotalLen))
    <3>1. Size >= 8 /\ preTotalLen > 0 /\ Unpack(preTotalLen, pos)
      BY <1>4, <2>2 DEF Resume
    <3>2. CASE pos = 0 /\ dispatched = <<>>
      BY <1>1, <3>1, <3>2, GarbageDrops
    <3>3. ASSUME NEW k \in 1..Len(wire),
                 pos = wire[k].at + 8, preTotalLen = Total(wire[k])
          PROVE  FrameRead(k)
      <4>1. Rest(preTotalLen) \in Int
        BY <1>2, SizesAssumption DEF Rest
      <4>2. arrived - pos >= Rest(preTotalLen)
        BY <1>2, <2>2, <4>1 DEF Size
      <4>3. /\ arrived - (wire[k].at + 8) >= Rest(Total(wire[k]))
            /\ Unpack(Total(wire[k]), wire[k].at + 8)
        BY <3>1, <3>3, <4>2
      <4> QED BY <1>1, <3>3, <4>3, UnpackFrame DEF FrameRead
    <3> QED BY <1>1, <1>2, <3>1, <3>2, <3>3 DEF ReadPoint
  <2> QED BY <2>1, <2>2
<1>5. CASE NotHead
  <2>1. pos' \in 0..arrived /\ pos' >= pos /\ pos # StreamEnd(wire)
    BY <1>2, <1>5 DEF NotHead, Size
  <2>2. ASSUME NEW k \in 1..Len(wire) PROVE Total(wire[k]) > 0
    BY <1>1, TotalNumbers
  <2>3. ~ Aligned
    BY <1>2, <1>5, <2>1, <2>2 DEF NotHead, Aligned
  <2> QED BY <1>5, <2>1, <2>3 DEF NotHead, Dropped
<1>6. CASE IsHead
  <2>1. PICK k \in 1..Len(wire) :
          /\ wire[k].at = pos
          /\ IF Size - 8 < Rest(Total(wire[k]))
             THEN /\ pos' = pos + 8
                  /\ preTotalLen' = Total(wire[k])
                  /\ UNCHANGED <<dispatched, out>>
             ELSE Unpack(Total(wire[k]), pos + 8)
    BY <1>6 DEF IsHead
  <2>2. Size >= 8 /\ preTotalLen <= 0
    BY <1>6 DEF IsHead
  <2>3. CASE Size - 8 < Rest(Total(wire[k]))
    <3>1. pos + 8 <= arrived
      BY <1>2, <2>2 DEF Size
    <3> QED BY <2>1, <2>2, <2>3, <3>1 DEF HeadRead
  <2>4. CASE ~ (Size - 8 < Rest(Total(wire[k])))
    <3>1. Rest(Total(wire[k])) \in Int
      BY <1>1, TotalNumbers
    <3>2. arrived - (pos + 8) >= Rest(Total(wire[k]))
      BY <1>2, <2>4, <3>1 DEF Size
    <3> QED BY <1>1, <2>1, <2>4, <3>2, UnpackFrame DEF FrameRead
  <2> QED BY <2>3, <2>4
<1> QED BY <1>0, <1>3, <1>4, <1>5, <1>6 DEF ProcessRecv

-----------------------------------------------------------------------------
(* The invariants *)

\* A new stream has no packets and no bytes.
LEMMA EmptyStream == IsStream(<<>>) /\ StreamEnd(<<>>) = 0
BY DEF IsStream, StreamEnd

\* A packet that is dispatched now was not dispatched before: everything that
\* was has a smaller number.
LEMMA LaterPacket ==
  ASSUME NEW k \in 1..Len(wire), NEW j \in 1..Len(wire), NEW q
  PROVE  /\ RouteTypeOK /\ PacketEnd(j) <= q
         /\ q = wire[k].at \/ q = wire[k].at + 8
         => j < k /\ PacketEnd(j) <= wire[k].at /\ q <= PacketEnd(k)
<1>0. SUFFICES ASSUME RouteTypeOK, PacketEnd(j) <= q,
                      q = wire[k].at \/ q = wire[k].at + 8
               PROVE  j < k /\ PacketEnd(j) <= wire[k].at /\ q <= PacketEnd(k)
  OBVIOUS
<1>1. PICK a \in Nat, h \in Nat, b \in Nat :
        wire[k].at = a /\ PacketEnd(k) = a + 12 + h + b
  BY <1>0, PacketNumbers
<1>2. PICK aj \in Nat, hj \in Nat, bj \in Nat :
        wire[j].at = aj /\ PacketEnd(j) = aj + 12 + hj + bj
  BY <1>0, PacketNumbers
<1>3. /\ j < k => aj + 12 + hj + bj <= a
      /\ k < j => a + 12 + h + b <= aj
  <2>1. (j < k => PacketEnd(j) <= wire[k].at) /\ (k < j => PacketEnd(k) <= wire[j].at)
    BY <1>0, PacketsApart
  <2> QED BY <1>1, <1>2, <2>1
<1>4. j \in Nat /\ k \in Nat
  BY <1>0, PacketsApart
<1>5. aj + 12 + hj + bj <= a + 8 /\ q <= a + 12 + h + b
  <2>1. aj + 12 + hj + bj <= q
    BY <1>0, <1>2
  <2>2. q = a \/ q = a + 8
    BY <1>0, <1>1
  <2>3. CASE q = a
    BY <2>1, <2>3
  <2>4. CASE q = a + 8
    BY <2>1, <2>4
  <2> QED BY <2>2, <2>3, <2>4
<1>6. j # k
  BY <1>1, <1>2, <1>5
<1>7. ~ (k < j)
  BY <1>3, <1>5
<1> QED BY <1>1, <1>2, <1>3, <1>4, <1>5, <1>6, <1>7

\* A new MessageRoute satisfies the invariant, whatever length it starts with.
LEMMA SoundInit == RouteInit => SoundInv
<1> SUFFICES ASSUME RouteInit PROVE SoundInv
  OBVIOUS
<1>1. RouteTypeOK
  BY EmptyStream, SizesAssumption DEF RouteInit, RouteTypeOK
<1>2. DispatchedInOrder
  BY DEF RouteInit, DispatchedInOrder
<1>3. ReadPoint
  BY DEF RouteInit, ReadPoint
<1> QED BY <1>1, <1>2, <1>3 DEF SoundInv

\* ProcessRecv keeps SoundInv.
LEMMA ProcessRecvSound == SoundInv /\ ProcessRecv => SoundInv'
<1>0. SUFFICES ASSUME SoundInv, ProcessRecv PROVE SoundInv'
  OBVIOUS
<1>1. UNCHANGED <<wire, arrived>>
  BY <1>0, ProcessRecvOutcome
<1>2. RouteTypeOK /\ ReadPoint /\ DispatchedInOrder
  BY <1>0 DEF SoundInv
<1>3. arrived \in Nat /\ pos \in Nat /\ IsStream(wire) /\ IsStream(out)
      /\ arrived \in 0..StreamEnd(wire) /\ dispatched \in Seq(Nat)
  BY <1>2, WireFacts DEF RouteTypeOK
<1>4. CASE UNCHANGED <<pos, preTotalLen, dispatched, out>>
  BY <1>0, <1>1, <1>4 DEF SoundInv, RouteTypeOK, ReadPoint, DispatchedInOrder, PacketEnd
<1>5. CASE Dropped
  <2>1. RouteTypeOK'
    BY <1>1, <1>3, <1>5 DEF Dropped, RouteTypeOK
  <2>2. ReadPoint'
    BY <1>5 DEF Dropped, ReadPoint
  <2>3. ASSUME NEW i \in 1..Len(dispatched)
        PROVE  PacketEnd(dispatched[i]) <= pos'
    <3>1. dispatched[i] \in 1..Len(wire) /\ PacketEnd(dispatched[i]) <= pos
      BY <1>2 DEF DispatchedInOrder
    <3>2. PacketEnd(dispatched[i]) \in Nat
      BY <1>2, <3>1, WireFacts
    <3> QED BY <1>3, <1>5, <3>1, <3>2 DEF Dropped
  <2>4. DispatchedInOrder'
    BY <1>1, <1>2, <1>5, <2>3 DEF Dropped, DispatchedInOrder, PacketEnd
  <2> QED BY <2>1, <2>2, <2>4 DEF SoundInv
<1>6. ASSUME NEW k \in 1..Len(wire), HeadRead(k) PROVE SoundInv'
  <2>1. PICK a \in Nat, h \in Nat, b \in Nat :
          wire[k].at = a /\ wire[k].head = h /\ wire[k].body = b
    BY <1>2, WireFacts
  <2>2. RouteTypeOK'
    <3>1. pos' \in 0..arrived
      BY <1>3, <1>6, <2>1 DEF HeadRead
    <3>2. preTotalLen' = 8 + h + b
      BY <1>6, <2>1 DEF HeadRead, Total
    <3> QED BY <1>1, <1>3, <1>6, <3>1, <3>2 DEF HeadRead, RouteTypeOK
  <2>3. ReadPoint'
    BY <1>1, <1>6 DEF HeadRead, ReadPoint
  <2>4. ASSUME NEW i \in 1..Len(dispatched)
        PROVE  PacketEnd(dispatched[i]) <= pos'
    <3>1. dispatched[i] \in 1..Len(wire) /\ PacketEnd(dispatched[i]) <= pos
      BY <1>2 DEF DispatchedInOrder
    <3>2. PacketEnd(dispatched[i]) \in Nat
      BY <1>2, <3>1, WireFacts
    <3>3. pos = a /\ pos' = a + 8
      BY <1>6, <2>1 DEF HeadRead
    <3> QED BY <3>1, <3>2, <3>3
  <2>5. DispatchedInOrder'
    BY <1>1, <1>2, <1>6, <2>4 DEF HeadRead, DispatchedInOrder, PacketEnd
  <2> QED BY <2>2, <2>3, <2>5 DEF SoundInv
<1>7. ASSUME NEW k \in 1..Len(wire), FrameRead(k) PROVE SoundInv'
  <2>1. PacketEnd(k) \in Nat /\ k \in Nat
    BY <1>2, WireFacts
  <2>2. RouteTypeOK'
    <3>1. pos' \in 0..arrived /\ preTotalLen' \in Int
      BY <1>3, <1>7, <2>1 DEF FrameRead
    <3>2. dispatched' \in Seq(Nat)
      BY <1>3, <1>7, <2>1 DEF FrameRead
    <3> QED BY <1>1, <1>3, <1>7, <3>1, <3>2 DEF FrameRead, RouteTypeOK
  <2>3. ReadPoint'
    BY <1>7 DEF FrameRead, ReadPoint
  <2>4. ASSUME NEW i \in 1..Len(dispatched)
        PROVE  /\ dispatched[i] \in 1..Len(wire) /\ Deliverable(wire[dispatched[i]])
               /\ PacketEnd(dispatched[i]) <= pos' /\ dispatched[i] < k
    <3>1. /\ dispatched[i] \in 1..Len(wire) /\ Deliverable(wire[dispatched[i]])
          /\ PacketEnd(dispatched[i]) <= pos
      BY <1>2 DEF DispatchedInOrder
    <3>2. dispatched[i] < k /\ pos <= PacketEnd(k)
      BY <1>2, <1>7, <3>1, LaterPacket DEF FrameRead
    <3>3. PacketEnd(dispatched[i]) \in Nat
      BY <1>2, <3>1, WireFacts
    <3> QED BY <1>3, <1>7, <2>1, <3>1, <3>2, <3>3 DEF FrameRead
  <2>5. ASSUME dispatched' = dispatched PROVE DispatchedInOrder'
    BY <1>1, <1>2, <2>4, <2>5 DEF DispatchedInOrder, PacketEnd
  <2>6. ASSUME dispatched' = Append(dispatched, k), Deliverable(wire[k])
        PROVE  DispatchedInOrder'
    <3>1. /\ Len(dispatched) \in Nat /\ Len(dispatched') = Len(dispatched) + 1
          /\ \A i \in 1..Len(dispatched) : dispatched'[i] = dispatched[i]
          /\ dispatched'[Len(dispatched) + 1] = k
      BY <1>3, <2>1, <2>6
    <3>2. PacketEnd(k) <= pos'
      BY <1>7, <2>1 DEF FrameRead
    <3>3. ASSUME NEW i \in 1..Len(dispatched')
          PROVE  /\ dispatched'[i] \in 1..Len(wire) /\ Deliverable(wire[dispatched'[i]])
                 /\ PacketEnd(dispatched'[i]) <= pos'
      <4>1. CASE i \in 1..Len(dispatched)
        BY <2>4, <3>1, <4>1
      <4>2. CASE i = Len(dispatched) + 1
        BY <2>6, <3>1, <3>2, <4>2
      <4> QED BY <3>1, <4>1, <4>2
    <3>4. ASSUME NEW i \in 1..Len(dispatched'), NEW j \in 1..Len(dispatched'), i < j
          PROVE  dispatched'[i] < dispatched'[j]
      <4>1. CASE j \in 1..Len(dispatched)
        <5>1. i \in 1..Len(dispatched)
          BY <3>1, <3>4, <4>1
        <5> QED BY <1>2, <3>1, <3>4, <4>1, <5>1 DEF DispatchedInOrder
      <4>2. CASE j = Len(dispatched) + 1
        <5>1. i \in 1..Len(dispatched)
          BY <3>1, <3>4, <4>2
        <5> QED BY <2>4, <3>1, <4>2, <5>1
      <4> QED BY <3>1, <4>1, <4>2
    <3> QED BY <1>1, <3>3, <3>4 DEF DispatchedInOrder, PacketEnd, Deliverable
  <2>7. DispatchedInOrder'
    BY <1>7, <2>5, <2>6 DEF FrameRead
  <2> QED BY <2>2, <2>3, <2>7 DEF SoundInv
<1> QED BY <1>0, <1>4, <1>5, <1>6, <1>7, ProcessRecvOutcome

\* The peer's Send keeps SoundInv: it only adds a packet behind the others.
LEMMA PeerSendSound ==
  ASSUME NEW p \in Packets
  PROVE  SoundInv /\ PeerSend(p) => SoundInv'
<1>0. SUFFICES ASSUME SoundInv, PeerSend(p) PROVE SoundInv'
  OBVIOUS
<1>1. IsStream(wire) /\ p \in Packet /\ wire' = Send(wire, p)
  BY <1>0, PacketsAssumption DEF SoundInv, RouteTypeOK, PeerSend
<1>2. UNCHANGED <<arrived, pos, preTotalLen, dispatched, out>>
  BY <1>0 DEF PeerSend
<1>3. /\ IsStream(wire') /\ Len(wire') = Len(wire) + 1
      /\ \A k \in 1..Len(wire) : wire'[k] = wire[k]
      /\ StreamEnd(wire') = StreamEnd(wire) + FrameLen(p) /\ FrameLen(p) \in Nat
  BY <1>1, SendStream
<1>4. Len(wire) \in Nat /\ StreamEnd(wire) \in Nat
  BY <1>1, StreamFacts
<1>5. RouteTypeOK'
  BY <1>0, <1>2, <1>3, <1>4 DEF SoundInv, RouteTypeOK
<1>6. ReadPoint'
  BY <1>0, <1>2, <1>3, <1>4 DEF SoundInv, ReadPoint
<1>7. DispatchedInOrder'
  <2>1. \A k \in 1..Len(wire) : k \in 1..Len(wire') /\ PacketEnd(k)' = PacketEnd(k)
    BY <1>3, <1>4 DEF PacketEnd
  <2> QED BY <1>0, <1>2, <1>3, <2>1 DEF SoundInv, DispatchedInOrder
<1> QED BY <1>5, <1>6, <1>7 DEF SoundInv

\* Receive keeps SoundInv: it only makes more bytes available.
LEMMA ReceiveSound ==
  ASSUME NEW n \in Nat
  PROVE  SoundInv /\ Receive(n) => SoundInv'
<1>0. SUFFICES ASSUME SoundInv, Receive(n) PROVE SoundInv'
  OBVIOUS
<1>1. UNCHANGED <<wire, pos, preTotalLen, dispatched, out>>
  BY <1>0 DEF Receive
<1>2. /\ arrived \in Nat /\ StreamEnd(wire) \in Nat /\ pos \in Nat
      /\ pos <= arrived
  BY <1>0, WireFacts DEF SoundInv
<1>3. arrived' \in 0..StreamEnd(wire) /\ pos \in 0..arrived'
  BY <1>0, <1>2 DEF Receive
<1>4. RouteTypeOK'
  BY <1>0, <1>1, <1>3 DEF SoundInv, RouteTypeOK
<1>5. ReadPoint' /\ DispatchedInOrder'
  BY <1>0, <1>1 DEF SoundInv, ReadPoint, DispatchedInOrder, PacketEnd
<1> QED BY <1>4, <1>5 DEF SoundInv

\* Every step of the route keeps SoundInv.
LEMMA SoundStep == SoundInv /\ [RouteNext]_routeVars => SoundInv'
<1> SUFFICES ASSUME SoundInv, [RouteNext]_routeVars PROVE SoundInv'
  OBVIOUS
<1>1. CASE \E p \in Packets : PeerSend(p)
  BY <1>1, PeerSendSound
<1>2. CASE ReceiveSome
  <2>1. StreamEnd(wire) \in Nat /\ arrived \in Nat
    BY WireFacts DEF SoundInv
  <2> QED BY <1>2, <2>1, ReceiveSound DEF ReceiveSome
<1>3. CASE ProcessRecv
  BY <1>3, ProcessRecvSound
<1>4. CASE UNCHANGED routeVars
  <2>1. RouteTypeOK'
    BY <1>4 DEF routeVars, SoundInv, RouteTypeOK
  <2>2. ReadPoint'
    BY <1>4 DEF routeVars, SoundInv, ReadPoint, PacketEnd
  <2>3. DispatchedInOrder'
    BY <1>4 DEF routeVars, SoundInv, DispatchedInOrder, PacketEnd
  <2> QED BY <2>1, <2>2, <2>3 DEF SoundInv
<1> QED BY <1>1, <1>2, <1>3, <1>4 DEF RouteNext

\* The buffers never run past each other, and ProcessRecv (MessageRoute.cpp)
\* dispatches only deliverable packets, each at most once and in the order they
\* were sent.  This holds for every content of the uninitialised
\* mPreRecivesTotalLen.
THEOREM RouteSound == RouteSpec => [](RouteTypeOK /\ DispatchedInOrder)
<1>1. SoundInv => RouteTypeOK /\ DispatchedInOrder
  BY DEF SoundInv
<1> QED BY <1>1, SoundInit, SoundStep, PTL DEF RouteSpec

-----------------------------------------------------------------------------
(* A route whose mPreRecivesTotalLen started at zero, or below it *)

AlignedInv == SoundInv /\ Aligned /\ NoneSkipped

\* Number of packets consumed: the packets that end at or before the read point
\* are the first ones of the stream.
LEMMA ConsumedPrefix ==
  ASSUME NEW k \in 1..Len(wire), NEW j \in 1..Len(wire), NEW q
  PROVE  RouteTypeOK /\ (q = wire[k].at \/ q = wire[k].at + 8) =>
           (PacketEnd(j) <= q <=> j < k)
<1>0. SUFFICES ASSUME RouteTypeOK, q = wire[k].at \/ q = wire[k].at + 8
               PROVE  PacketEnd(j) <= q <=> j < k
  OBVIOUS
<1>1. PacketEnd(j) <= q => j < k
  BY <1>0, LaterPacket
<1>2. ASSUME j < k PROVE PacketEnd(j) <= q
  <2>1. PacketEnd(j) \in Nat
    BY <1>0, PacketNumbers
  <2>2. wire[k].at \in Nat
    BY <1>0, PacketNumbers
  <2>3. PacketEnd(j) <= wire[k].at
    BY <1>0, <1>2, WireFacts
  <2> QED BY <1>0, <2>1, <2>2, <2>3
<1> QED BY <1>1, <1>2

\* After packet k the read point is at packet k + 1, or at the end.
LEMMA NextPacket ==
  ASSUME NEW k \in 1..Len(wire)
  PROVE  RouteTypeOK => HeadAt(PacketEnd(k)) \/ PacketEnd(k) = StreamEnd(wire)
<1>0. SUFFICES ASSUME RouteTypeOK
               PROVE  HeadAt(PacketEnd(k)) \/ PacketEnd(k) = StreamEnd(wire)
  OBVIOUS
<1>1. Len(wire) \in Nat /\ IsStream(wire)
  BY <1>0, WireFacts DEF RouteTypeOK
<1>2. CASE k = Len(wire)
  <2>1. wire # <<>>
    BY <1>1, <1>2
  <2> QED BY <1>2, <2>1 DEF StreamEnd, PacketEnd
<1>3. CASE k # Len(wire)
  <2>1. k + 1 \in 1..Len(wire)
    BY <1>1, <1>3
  <2>2. wire[k + 1].at = PacketEnd(k)
    BY <1>1, <2>1 DEF IsStream, PacketEnd
  <2> QED BY <2>1, <2>2 DEF HeadAt
<1> QED BY <1>2, <1>3

\* ProcessRecv goes from one read point to the next and dispatches what lies between.
LEMMA ProcessRecvAligned == AlignedInv /\ ProcessRecv => AlignedInv'
<1>0. SUFFICES ASSUME AlignedInv, ProcessRecv PROVE Aligned' /\ NoneSkipped'
  BY ProcessRecvSound DEF AlignedInv
<1>1. SoundInv /\ Aligned /\ NoneSkipped /\ RouteTypeOK
  BY <1>0 DEF AlignedInv, SoundInv
<1>2. UNCHANGED <<wire, arrived>>
  BY <1>0, <1>1, ProcessRecvOutcome
<1>3. CASE UNCHANGED <<pos, preTotalLen, dispatched, out>>
  BY <1>1, <1>2, <1>3 DEF Aligned, HeadAt, NoneSkipped, PacketEnd
<1>4. ASSUME NEW k \in 1..Len(wire), HeadRead(k) PROVE Aligned' /\ NoneSkipped'
  <2>1. Aligned'
    BY <1>2, <1>4 DEF HeadRead, Aligned, Total
  <2>2. ASSUME NEW j \in 1..Len(wire), PacketEnd(j) <= pos' PROVE PacketEnd(j) <= pos
    <3>1. PICK a \in Nat, h \in Nat, b \in Nat :
            wire[k].at = a /\ PacketEnd(k) = a + 12 + h + b
      BY <1>1, PacketNumbers
    <3>2. PICK aj \in Nat, hj \in Nat, bj \in Nat :
            wire[j].at = aj /\ PacketEnd(j) = aj + 12 + hj + bj
      BY <1>1, PacketNumbers
    <3>3. pos = a /\ aj + 12 + hj + bj <= a + 8
      BY <1>4, <2>2, <3>1, <3>2 DEF HeadRead
    <3>4. /\ j < k => aj + 12 + hj + bj <= a
          /\ k < j => a + 12 + h + b <= aj
      <4>1. (j < k => PacketEnd(j) <= wire[k].at) /\ (k < j => PacketEnd(k) <= wire[j].at)
        BY <1>1, PacketsApart
      <4> QED BY <3>1, <3>2, <4>1
    <3>5. j \in Nat /\ k \in Nat
      BY <1>1, PacketsApart
    <3>6. j # k
      BY <3>1, <3>2, <3>3
    <3>7. ~ (k < j)
      BY <3>3, <3>4
    <3> QED BY <3>2, <3>3, <3>4, <3>5, <3>6, <3>7
  <2>3. NoneSkipped'
    BY <1>1, <1>2, <1>4, <2>2 DEF HeadRead, NoneSkipped, PacketEnd
  <2> QED BY <2>1, <2>3
<1>5. ASSUME NEW k \in 1..Len(wire), FrameRead(k) PROVE Aligned' /\ NoneSkipped'
  <2>1. Aligned'
    <3>1. HeadAt(PacketEnd(k)) \/ PacketEnd(k) = StreamEnd(wire)
      BY <1>1, NextPacket
    <3>2. pos' = PacketEnd(k) /\ preTotalLen' = 0
      BY <1>5 DEF FrameRead
    <3> QED BY <1>2, <3>1, <3>2 DEF Aligned, HeadAt
  <2>2. dispatched \in Seq(Nat) /\ Len(dispatched) \in Nat /\ k \in Nat
    BY <1>1, WireFacts DEF RouteTypeOK
  <2>3. ASSUME NEW j \in 1..Len(wire), Deliverable(wire[j]), PacketEnd(j) <= pos'
        PROVE  \E i \in 1..Len(dispatched') : dispatched'[i] = j
    <3>1. pos' = PacketEnd(k)
      BY <1>5 DEF FrameRead
    <3>2. j \in Nat /\ ~ (k < j)
      <4>1. PICK a \in Nat, h \in Nat, b \in Nat :
              wire[k].at = a /\ PacketEnd(k) = a + 12 + h + b
        BY <1>1, PacketNumbers
      <4>2. PICK aj \in Nat, hj \in Nat, bj \in Nat :
              wire[j].at = aj /\ PacketEnd(j) = aj + 12 + hj + bj
        BY <1>1, PacketNumbers
      <4>3. k < j => a + 12 + h + b <= aj
        BY <1>1, <4>1, <4>2, WireFacts
      <4>4. aj + 12 + hj + bj <= a + 12 + h + b
        BY <2>3, <3>1, <4>1, <4>2
      <4>5. j \in Nat
        BY <1>1, WireFacts
      <4> QED BY <4>3, <4>4, <4>5
    <3>3. CASE j = k
      <4>1. dispatched' = Append(dispatched, k)
        BY <1>5, <2>3, <3>3 DEF FrameRead
      <4>2. Len(dispatched') = Len(dispatched) + 1
            /\ dispatched'[Len(dispatched) + 1] = k
        BY <2>2, <4>1
      <4> QED BY <2>2, <3>3, <4>2
    <3>4. CASE j < k
      <4>1. PacketEnd(j) <= pos
        BY <1>1, <1>5, <3>4, ConsumedPrefix DEF FrameRead
      <4>2. PICK i \in 1..Len(dispatched) : dispatched[i] = j
        BY <1>1, <2>3, <4>1 DEF NoneSkipped
      <4>3. i \in 1..Len(dispatched') /\ dispatched'[i] = dispatched[i]
        BY <1>5, <2>2 DEF FrameRead
      <4> QED BY <4>2, <4>3
    <3> QED BY <2>2, <3>2, <3>3, <3>4
  <2>4. NoneSkipped'
    BY <1>2, <2>3 DEF NoneSkipped, PacketEnd, Deliverable
  <2> QED BY <2>1, <2>4
<1>6. ~ Dropped
  BY <1>1 DEF Dropped
<1> QED BY <1>0, <1>1, <1>3, <1>4, <1>5, <1>6, ProcessRecvOutcome

\* A packet appended to the stream moves no read point.
LEMMA PeerSendAligned ==
  ASSUME NEW p \in Packets
  PROVE  AlignedInv /\ PeerSend(p) => AlignedInv'
<1>0. SUFFICES ASSUME AlignedInv, PeerSend(p) PROVE Aligned' /\ NoneSkipped'
  BY PeerSendSound DEF AlignedInv
<1>1. IsStream(wire) /\ p \in Packet /\ wire' = Send(wire, p) /\ RouteTypeOK
  BY <1>0, PacketsAssumption DEF AlignedInv, SoundInv, RouteTypeOK, PeerSend
<1>2. UNCHANGED <<arrived, pos, preTotalLen, dispatched, out>>
  BY <1>0 DEF PeerSend
<1>3. /\ Len(wire') = Len(wire) + 1
      /\ \A k \in 1..Len(wire) : wire'[k] = wire[k]
      /\ wire'[Len(wire) + 1] = Place(p, StreamEnd(wire))
  BY <1>1, SendStream
<1>4. Len(wire) \in Nat /\ StreamEnd(wire) \in Nat
  BY <1>1, StreamFacts
<1>5. Aligned'
  <2>1. HeadAt(pos) => HeadAt(pos)'
    BY <1>2, <1>3, <1>4 DEF HeadAt
  <2>2. pos = StreamEnd(wire) => HeadAt(pos)'
    <3>1. wire'[Len(wire) + 1].at = StreamEnd(wire)
      BY <1>3 DEF Place
    <3>2. Len(wire) + 1 \in 1..Len(wire')
      BY <1>3, <1>4
    <3> QED BY <1>2, <3>1, <3>2 DEF HeadAt
  <2>3. ASSUME NEW k \in 1..Len(wire) PROVE k \in 1..Len(wire') /\ wire'[k] = wire[k]
    BY <1>3, <1>4
  <2> QED BY <1>0, <1>2, <2>1, <2>2, <2>3 DEF AlignedInv, Aligned
<1>6. NoneSkipped'
  <2>1. ASSUME NEW k \in 1..Len(wire'), Deliverable(wire'[k]), PacketEnd(k)' <= pos
        PROVE  \E i \in 1..Len(dispatched) : dispatched[i] = k
    <3>1. CASE k \in 1..Len(wire)
      <4>1. wire'[k] = wire[k] /\ PacketEnd(k)' = PacketEnd(k)
        BY <1>3, <3>1 DEF PacketEnd
      <4> QED BY <1>0, <2>1, <3>1, <4>1 DEF AlignedInv, NoneSkipped
    <3>2. CASE k = Len(wire) + 1
      <4>1. PICK h \in Nat, b \in Nat : p.head = h /\ p.body = b
        BY <1>1 DEF Packet
      <4>2. PacketEnd(k)' = StreamEnd(wire) + (4 + (8 + h + b))
        BY <1>3, <3>2, <4>1 DEF PacketEnd, FrameLen, Total, Place
      <4>3. pos \in Nat /\ pos <= StreamEnd(wire)
        BY <1>1, <1>4, WireFacts
      <4> QED BY <1>4, <2>1, <4>2, <4>3
    <3> QED BY <1>3, <1>4, <3>1, <3>2
  <2> QED BY <1>2, <2>1 DEF NoneSkipped, Deliverable
<1> QED BY <1>5, <1>6

\* A new MessageRoute whose garbage length is not positive is at a packet start.
LEMMA AlignedInit ==
  ASSUME \A g \in GarbageLen : g <= 0
  PROVE  RouteInit => AlignedInv
<1> SUFFICES ASSUME RouteInit PROVE AlignedInv
  OBVIOUS
<1>1. Aligned
  BY EmptyStream DEF RouteInit, Aligned
<1>2. NoneSkipped
  BY DEF RouteInit, NoneSkipped
<1> QED BY <1>1, <1>2, SoundInit DEF AlignedInv

\* Every step of the route keeps AlignedInv.
LEMMA AlignedStep == AlignedInv /\ [RouteNext]_routeVars => AlignedInv'
<1> SUFFICES ASSUME AlignedInv, [RouteNext]_routeVars PROVE AlignedInv'
  OBVIOUS
<1>1. CASE \E p \in Packets : PeerSend(p)
  BY <1>1, PeerSendAligned
<1>2. CASE ReceiveSome
  <2>1. SoundInv'
    BY <1>2, SoundStep DEF AlignedInv, RouteNext
  <2>2. UNCHANGED <<wire, pos, preTotalLen, dispatched, out>>
    BY <1>2 DEF ReceiveSome, Receive
  <2>3. Aligned' /\ NoneSkipped'
    BY <2>2 DEF AlignedInv, Aligned, HeadAt, NoneSkipped, PacketEnd
  <2> QED BY <2>1, <2>3 DEF AlignedInv
<1>3. CASE ProcessRecv
  BY <1>3, ProcessRecvAligned
<1>4. CASE UNCHANGED routeVars
  <2>1. SoundInv'
    BY <1>4, SoundStep DEF AlignedInv
  <2>2. Aligned' /\ NoneSkipped'
    BY <1>4 DEF routeVars, AlignedInv, Aligned, HeadAt, NoneSkipped, PacketEnd
  <2> QED BY <2>1, <2>2 DEF AlignedInv
<1> QED BY <1>1, <1>2, <1>3, <1>4 DEF RouteNext

\* If mPreRecivesTotalLen does not start above zero, ProcessRecv never loses the
\* packet boundaries and consumes no deliverable packet without dispatching it.
THEOREM RouteAligned ==
  ASSUME \A g \in GarbageLen : g <= 0
  PROVE  RouteSpec => [](Aligned /\ NoneSkipped)
<1>1. AlignedInv => Aligned /\ NoneSkipped
  BY DEF AlignedInv
<1> QED BY <1>1, AlignedInit, AlignedStep, PTL DEF RouteSpec

-----------------------------------------------------------------------------
(* MessageRoute implements FrameChannel (its safety part) *)

\* Passed is the number of packets at the front that end at or before q.
LEMMA PassedIs ==
  ASSUME NEW w, Len(w) \in Nat, NEW q, NEW m \in 0..Len(w),
         \A k \in 1..Len(w) : w[k].at + FrameLen(w[k]) <= q <=> k <= m
  PROVE  m = CHOOSE n \in 0..Len(w) :
               \A k \in 1..Len(w) : w[k].at + FrameLen(w[k]) <= q <=> k <= n
<1> DEFINE P(n) == \A k \in 1..Len(w) : w[k].at + FrameLen(w[k]) <= q <=> k <= n
           c == CHOOSE n \in 0..Len(w) : P(n)
<1>1. c \in 0..Len(w) /\ P(c)
  OBVIOUS
<1>2. \A k \in 1..Len(w) : k <= c <=> k <= m
  BY <1>1
<1> HIDE DEF c
<1>3. m = c
  BY <1>1, <1>2
<1> QED BY <1>3 DEF c

\* k - 1 packets lie before packet k, and before its head length.
LEMMA PassedBefore ==
  ASSUME NEW k \in 1..Len(wire), NEW q
  PROVE  RouteTypeOK /\ (q = wire[k].at \/ q = wire[k].at + 8) =>
           /\ \A j \in 1..Len(wire) : PacketEnd(j) <= q <=> j <= k - 1
           /\ Passed(q) = k - 1
<1>0. SUFFICES ASSUME RouteTypeOK, q = wire[k].at \/ q = wire[k].at + 8
               PROVE  /\ \A j \in 1..Len(wire) : PacketEnd(j) <= q <=> j <= k - 1
                      /\ Passed(q) = k - 1
  OBVIOUS
<1>1. Len(wire) \in Nat /\ k \in Nat /\ k >= 1 /\ k - 1 \in 0..Len(wire)
  BY <1>0, WireFacts
<1>2. \A j \in 1..Len(wire) : PacketEnd(j) <= q <=> j < k
  BY <1>0, ConsumedPrefix
<1>3. \A j \in 1..Len(wire) : PacketEnd(j) <= q <=> j <= k - 1
  BY <1>1, <1>2
<1>4. Passed(q) = k - 1
  BY <1>1, <1>3, PassedIs DEF Passed, PacketEnd
<1> QED BY <1>3, <1>4

\* Where packet k ends, k packets have ended.
LEMMA PassedEnd ==
  ASSUME NEW k \in 1..Len(wire)
  PROVE  RouteTypeOK =>
           /\ \A j \in 1..Len(wire) : PacketEnd(j) <= PacketEnd(k) <=> j <= k
           /\ Passed(PacketEnd(k)) = k
<1>0. SUFFICES ASSUME RouteTypeOK
               PROVE  /\ \A j \in 1..Len(wire) : PacketEnd(j) <= PacketEnd(k) <=> j <= k
                      /\ Passed(PacketEnd(k)) = k
  OBVIOUS
<1>1. Len(wire) \in Nat /\ k \in Nat /\ k >= 1
  BY <1>0, WireFacts
<1>2. ASSUME NEW j \in 1..Len(wire) PROVE PacketEnd(j) <= PacketEnd(k) <=> j <= k
  <2>1. PICK a \in Nat, h \in Nat, b \in Nat :
          wire[k].at = a /\ PacketEnd(k) = a + 12 + h + b
    BY <1>0, PacketNumbers
  <2>2. PICK aj \in Nat, hj \in Nat, bj \in Nat :
          wire[j].at = aj /\ PacketEnd(j) = aj + 12 + hj + bj
    BY <1>0, PacketNumbers
  <2>3. /\ j < k => aj + 12 + hj + bj <= a
        /\ k < j => a + 12 + h + b <= aj
    BY <1>0, <2>1, <2>2, WireFacts
  <2>4. j \in Nat
    BY <1>1
  <2>5. j = k => PacketEnd(j) = PacketEnd(k)
    OBVIOUS
  <2>6. j < k => aj + 12 + hj + bj <= a + 12 + h + b
    BY <2>3
  <2>7. k < j => ~ (aj + 12 + hj + bj <= a + 12 + h + b)
    BY <2>3
  <2> QED BY <1>1, <2>1, <2>2, <2>4, <2>5, <2>6, <2>7
<1>3. Passed(PacketEnd(k)) = k
  <2>1. k \in 0..Len(wire)
    BY <1>1
  <2> QED BY <1>1, <1>2, <2>1, PassedIs DEF Passed, PacketEnd
<1> QED BY <1>2, <1>3

\* At the boundaries where ProcessRecv stops, Passed counts the packets it is
\* done with.
LEMMA PassedCounts ==
  AlignedInv => /\ Passed(pos) \in 0..Len(wire)
                /\ \A k \in 1..Len(wire) : PacketEnd(k) <= pos <=> k <= Passed(pos)
<1> SUFFICES ASSUME AlignedInv
             PROVE  /\ Passed(pos) \in 0..Len(wire)
                    /\ \A k \in 1..Len(wire) : PacketEnd(k) <= pos <=> k <= Passed(pos)
  OBVIOUS
<1>1. RouteTypeOK /\ Len(wire) \in Nat /\ pos \in Nat
  BY WireFacts DEF AlignedInv, SoundInv
<1>2. ASSUME NEW k \in 1..Len(wire), pos = wire[k].at \/ pos = wire[k].at + 8
      PROVE  /\ Passed(pos) \in 0..Len(wire)
             /\ \A j \in 1..Len(wire) : PacketEnd(j) <= pos <=> j <= Passed(pos)
  <2>1. /\ \A j \in 1..Len(wire) : PacketEnd(j) <= pos <=> j <= k - 1
        /\ Passed(pos) = k - 1
    BY <1>1, <1>2, PassedBefore
  <2>2. k - 1 \in 0..Len(wire)
    BY <1>1
  <2> QED BY <2>1, <2>2
<1>3. CASE pos = StreamEnd(wire)
  <2>1. ASSUME NEW j \in 1..Len(wire) PROVE PacketEnd(j) <= pos <=> j <= Len(wire)
    <3>1. PacketEnd(j) <= pos
      BY <1>1, <1>3, WireFacts
    <3>2. j <= Len(wire)
      BY <1>1
    <3> QED BY <3>1, <3>2
  <2>2. Len(wire) \in 0..Len(wire)
    BY <1>1
  <2>3. Passed(pos) = Len(wire)
    BY <1>1, <2>1, <2>2, PassedIs DEF Passed, PacketEnd
  <2> QED BY <2>1, <2>2, <2>3
<1> QED BY <1>2, <1>3 DEF AlignedInv, Aligned, HeadAt

\* Sequences with the same elements are equal.
LEMMA SameSeq ==
  ASSUME NEW S, NEW s \in Seq(S), NEW t \in Seq(S),
         Len(s) = Len(t), \A i \in 1..Len(s) : s[i] = t[i]
  PROVE  s = t
OBVIOUS

Bare(w) == [k \in 1..Len(w) |-> [type |-> w[k].type, head |-> w[k].head,
                                body |-> w[k].body]]

\* Without positions, the stream is a sequence of packets.
LEMMA BareSeq ==
  ASSUME NEW s \in Seq(Placed)
  PROVE  Bare(s) \in Seq(Packet) /\ Len(Bare(s)) = Len(s)
<1>1. Len(s) \in Nat
  OBVIOUS
<1>2. ASSUME NEW q \in Placed
      PROVE  [type |-> q.type, head |-> q.head, body |-> q.body] \in Packet
  BY <1>2 DEF Placed, Packet
<1>3. \A k \in 1..Len(s) : s[k] \in Placed
  OBVIOUS
<1>4. Bare(s) \in [1..Len(s) -> Packet]
  BY <1>2, <1>3 DEF Bare
<1> QED BY <1>1, <1>4

\* Send appends the bare packet to the bare stream.
LEMMA BareSend ==
  ASSUME NEW s, IsStream(s), NEW p \in Packet
  PROVE  Bare(Send(s, p)) = Append(Bare(s), p)
<1>1. s \in Seq(Placed) /\ Len(s) \in Nat /\ Send(s, p) \in Seq(Placed)
  BY SendStream DEF IsStream
<1>2. /\ Len(Send(s, p)) = Len(s) + 1
      /\ \A k \in 1..Len(s) : Send(s, p)[k] = s[k]
      /\ Send(s, p)[Len(s) + 1] = Place(p, StreamEnd(s))
  BY SendStream
<1>3. /\ Bare(s) \in Seq(Packet) /\ Len(Bare(s)) = Len(s)
      /\ Bare(Send(s, p)) \in Seq(Packet) /\ Len(Bare(Send(s, p))) = Len(s) + 1
  BY <1>1, <1>2, BareSeq
<1>4. [type |-> p.type, head |-> p.head, body |-> p.body] = p
  BY DEF Packet
<1>5. Bare(Send(s, p))[Len(s) + 1] = p
  <2>1. Len(s) + 1 \in 1..Len(Send(s, p))
    BY <1>1, <1>2
  <2> QED BY <1>2, <1>4, <2>1 DEF Bare, Place
<1>6. ASSUME NEW k \in 1..Len(s) PROVE Bare(Send(s, p))[k] = Bare(s)[k]
  <2>1. k \in 1..Len(Send(s, p))
    BY <1>1, <1>2
  <2> QED BY <1>2, <2>1 DEF Bare
<1> DEFINE t == Append(Bare(s), p)
<1>7. /\ t \in Seq(Packet) /\ Len(t) = Len(s) + 1
      /\ \A k \in 1..Len(s) : t[k] = Bare(s)[k]
      /\ t[Len(s) + 1] = p
  BY <1>3
<1> HIDE DEF t
<1>8. \A k \in 1..(Len(s) + 1) : Bare(Send(s, p))[k] = t[k]
  BY <1>1, <1>5, <1>6, <1>7
<1>9. Bare(Send(s, p)) = t
  BY <1>3, <1>7, <1>8, SameSeq
<1> QED BY <1>9 DEF t

\* How many packets ProcessRecv is done with.
Consumed == Passed(pos)

\* Packet Consumed + 1 is the one that is read, as a whole.
ConsumesNext ==
  /\ Consumed \in Nat /\ Consumed + 1 \in 1..Len(wire) /\ Consumed' = Consumed + 1
  /\ wire' = wire /\ FrameRead(Consumed + 1)

\* A packet that is appended has not been consumed.
LEMMA PeerSendConsumed ==
  ASSUME NEW p \in Packets
  PROVE  AlignedInv /\ PeerSend(p) => Consumed' = Consumed
<1> SUFFICES ASSUME AlignedInv, PeerSend(p) PROVE Consumed' = Consumed
  OBVIOUS
<1>0. RouteTypeOK
  BY DEF AlignedInv, SoundInv
<1>1. /\ IsStream(wire) /\ p \in Packet /\ wire' = Send(wire, p) /\ pos' = pos
  BY <1>0, PacketsAssumption DEF RouteTypeOK, PeerSend
<1>2. Len(wire) \in Nat /\ pos \in Nat /\ StreamEnd(wire) \in Nat /\ pos <= StreamEnd(wire)
  BY <1>0, WireFacts
<1>3. /\ Len(wire') = Len(wire) + 1
      /\ \A k \in 1..Len(wire) : wire'[k] = wire[k]
      /\ wire'[Len(wire) + 1] = Place(p, StreamEnd(wire))
  BY <1>1, SendStream
<1>4. ASSUME NEW k \in 1..Len(wire) PROVE PacketEnd(k)' = PacketEnd(k)
  BY <1>3 DEF PacketEnd
<1>5. ASSUME NEW k, k = Len(wire) + 1 PROVE ~ (PacketEnd(k)' <= pos)
  <2>1. PICK h \in Nat, b \in Nat : p.head = h /\ p.body = b
    BY <1>1 DEF Packet
  <2>2. PacketEnd(k)' = StreamEnd(wire) + (4 + (8 + h + b))
    BY <1>3, <1>5, <2>1 DEF PacketEnd, FrameLen, Total, Place
  <2> QED BY <1>2, <2>2
<1>6. \A k : k \in 1..Len(wire') <=> k \in 1..Len(wire) \/ k = Len(wire) + 1
  BY <1>2, <1>3
<1>7. /\ Passed(pos) \in 0..Len(wire)
      /\ \A k \in 1..Len(wire) : PacketEnd(k) <= pos <=> k <= Passed(pos)
  BY PassedCounts
<1>8. ASSUME NEW k \in 1..Len(wire') PROVE PacketEnd(k)' <= pos <=> k <= Passed(pos)
  <2>1. CASE k \in 1..Len(wire)
    BY <1>4, <1>7, <2>1
  <2>2. CASE k = Len(wire) + 1
    <3>1. ~ (k <= Passed(pos))
      BY <1>2, <1>7, <2>2
    <3> QED BY <1>5, <2>2, <3>1
  <2> QED BY <1>6, <2>1, <2>2
<1>9. Passed(pos) \in 0..Len(wire') /\ Len(wire') \in Nat
  BY <1>2, <1>3, <1>7
<1> DEFINE m == Passed(pos)
           w == wire'
<1>10. \A k \in 1..Len(w) : w[k].at + FrameLen(w[k]) <= pos <=> k <= m
  BY <1>8 DEF PacketEnd
<1>11. Len(w) \in Nat /\ m \in 0..Len(w)
  BY <1>9
<1> HIDE DEF m, w
<1>12. m = CHOOSE n \in 0..Len(w) :
             \A k \in 1..Len(w) : w[k].at + FrameLen(w[k]) <= pos <=> k <= n
  BY <1>10, <1>11, PassedIs
<1> QED BY <1>1, <1>12 DEF m, w, Consumed, Passed, PacketEnd

\* A route consumes one packet at a time, the next one of the stream.
LEMMA ConsumedStep ==
  AlignedInv /\ [RouteNext]_routeVars =>
    \/ UNCHANGED <<wire, Consumed, dispatched>>
    \/ (\E p \in Packets : wire' = Send(wire, p)) /\ UNCHANGED <<Consumed, dispatched>>
    \/ ConsumesNext
<1>0. SUFFICES ASSUME AlignedInv, [RouteNext]_routeVars
               PROVE  \/ UNCHANGED <<wire, Consumed, dispatched>>
                      \/ /\ \E p \in Packets : wire' = Send(wire, p)
                         /\ UNCHANGED <<Consumed, dispatched>>
                      \/ ConsumesNext
  OBVIOUS
<1>1. RouteTypeOK /\ SoundInv
  BY <1>0 DEF AlignedInv, SoundInv
<1>2. ASSUME NEW p \in Packets, PeerSend(p)
      PROVE  wire' = Send(wire, p) /\ UNCHANGED <<Consumed, dispatched>>
  BY <1>0, <1>2, PeerSendConsumed DEF PeerSend
<1>3. CASE UNCHANGED <<wire, pos, dispatched>>
  BY <1>3 DEF Consumed, Passed, PacketEnd
<1>4. CASE ProcessRecv
  <2>1. wire' = wire
    BY <1>1, <1>4, ProcessRecvOutcome
  <2>2. Consumed' = Passed(pos')
    BY <2>1 DEF Consumed, Passed, PacketEnd
  <2>3. ASSUME NEW k \in 1..Len(wire), HeadRead(k)
        PROVE  UNCHANGED <<wire, Consumed, dispatched>>
    <3>1. Passed(pos') = Passed(pos)
      BY <1>1, <2>3, PassedBefore DEF HeadRead
    <3> QED BY <2>1, <2>2, <2>3, <3>1 DEF HeadRead, Consumed
  <2>4. ASSUME NEW k \in 1..Len(wire), FrameRead(k) PROVE ConsumesNext
    <3>1. Passed(pos) = k - 1
      BY <1>1, <2>4, PassedBefore DEF FrameRead
    <3>2. Passed(pos') = k
      BY <1>1, <2>4, PassedEnd DEF FrameRead
    <3>3. k - 1 \in Nat /\ (k - 1) + 1 = k
      BY <1>1, WireFacts
    <3>4. Consumed \in Nat /\ Consumed + 1 = k /\ Consumed' = k
      BY <2>2, <3>1, <3>2, <3>3 DEF Consumed
    <3> QED BY <2>1, <2>4, <3>4 DEF ConsumesNext
  <2>5. ~ Dropped
    BY <1>0 DEF AlignedInv, Dropped
  <2> QED BY <1>1, <1>3, <1>4, <2>1, <2>3, <2>4, <2>5, ProcessRecvOutcome
<1>5. CASE ReceiveSome
  BY <1>3, <1>5 DEF ReceiveSome, Receive
<1>6. CASE UNCHANGED routeVars
  BY <1>3, <1>6 DEF routeVars
<1> QED BY <1>0, <1>2, <1>4, <1>5, <1>6 DEF RouteNext

\* Every step of the route is a step of the channel or changes nothing in it.
LEMMA ChannelStep ==
  AlignedInv /\ [RouteNext]_routeVars =>
    [Channel!Put \/ Channel!Handle]_(Channel!channelVars)
<1>0. SUFFICES ASSUME AlignedInv, [RouteNext]_routeVars
               PROVE  \/ Channel!Put \/ Channel!Handle
                      \/ UNCHANGED Channel!channelVars
  OBVIOUS
<1>1. IsStream(wire) /\ wire \in Seq(Placed) /\ Len(wire) \in Nat
  BY <1>0 DEF AlignedInv, SoundInv, RouteTypeOK, IsStream
<1>2. Passed(pos) = Consumed /\ Passed(pos)' = Consumed'
  BY DEF Consumed
<1>3. CASE UNCHANGED <<wire, Consumed, dispatched>>
  BY <1>2, <1>3 DEF Channel!channelVars
<1>4. ASSUME NEW p \in Packets, wire' = Send(wire, p), UNCHANGED <<Consumed, dispatched>>
      PROVE  Channel!Put
  <2>1. Bare(wire') = Append(Bare(wire), p)
    BY <1>1, <1>4, BareSend, PacketsAssumption
  <2> QED BY <1>2, <1>4, <2>1 DEF Channel!Put, Bare
<1>5. CASE ConsumesNext
  <2>1. PICK k \in 1..Len(wire) :
          /\ Consumed \in Nat /\ Consumed + 1 = k /\ Consumed' = k
          /\ wire' = wire /\ FrameRead(k)
    BY <1>5 DEF ConsumesNext
  <2>2. Bare(wire') = Bare(wire) /\ Consumed < Len(Bare(wire))
    BY <1>1, <2>1, BareSeq
  <2>3. Deliverable(Bare(wire)[k]) <=> Deliverable(wire[k])
    BY DEF Deliverable, Bare
  <2>4. dispatched' = IF Deliverable(Bare(wire)[k])
                      THEN Append(dispatched, k) ELSE dispatched
    BY <2>1, <2>3 DEF FrameRead
  <2> QED BY <1>2, <2>1, <2>2, <2>4 DEF Channel!Handle, Bare
<1> QED BY <1>0, <1>3, <1>4, <1>5, ConsumedStep

\* An initial state of the route is one of the channel.
LEMMA ChannelInit == RouteInit => Channel!Init
<1> SUFFICES ASSUME RouteInit PROVE Channel!Init
  OBVIOUS
<1>1. wire = <<>> /\ dispatched = <<>>
  BY DEF RouteInit
<1>2. 1..Len(wire) = {}
  BY <1>1
<1>3. Bare(wire) = <<>>
  BY <1>2 DEF Bare
<1>4. Passed(pos) = 0
  <2>1. 0 \in 0..Len(wire) /\ Len(wire) \in Nat
    BY <1>1
  <2> QED BY <1>2, <2>1, PassedIs DEF Passed, PacketEnd
<1> QED BY <1>1, <1>3, <1>4 DEF Channel!Init, Bare

\* MessageRoute implements FrameChannel: whatever pieces the bytes arrive in, its
\* packets are handled one at a time in order, and exactly the deliverable ones
\* are dispatched.
THEOREM RouteImplementsChannel ==
  ASSUME \A g \in GarbageLen : g <= 0
  PROVE  RouteSpec => Channel!Spec
<1> QED BY AlignedInit, AlignedStep, ChannelInit, ChannelStep, PTL
     DEF RouteSpec, Channel!Spec

-----------------------------------------------------------------------------
(* A packet that is completely buffered is handled by the next ProcessRecv *)

\* Every packet carries its type name, so that what follows its length is never
\* shorter than the eight bytes ProcessRecv waits for.
LongHeads == \A k \in 1..Len(wire) : wire[k].head >= 4

\* Packet k is the next to be handled and all of its bytes are in streambuf.
Complete(k) ==
  /\ k \in 1..Len(wire) /\ pos < PacketEnd(k) /\ PacketEnd(k) <= arrived
  /\ \A j \in 1..Len(wire) : j < k => PacketEnd(j) <= pos

\* Packet k is handled as a whole: dispatched if it is deliverable, and the
\* route stands behind it and waits for no rest.
Handled(k) ==
  /\ pos' = PacketEnd(k) /\ preTotalLen' = 0
  /\ dispatched' = IF Deliverable(wire[k]) THEN Append(dispatched, k)
                   ELSE dispatched

\* MessageRoute::Send puts a type name into every packet.
LEMMA LongHeadsStep ==
  RouteTypeOK /\ LongHeads /\ [RouteNext]_routeVars => LongHeads'
<1> SUFFICES ASSUME RouteTypeOK, LongHeads, [RouteNext]_routeVars PROVE LongHeads'
  OBVIOUS
<1>1. ASSUME NEW p \in Packets, PeerSend(p) PROVE LongHeads'
  <2>1. IsStream(wire) /\ p \in Packet /\ p.head >= 4 /\ wire' = Send(wire, p)
    BY <1>1, PacketsAssumption DEF RouteTypeOK, PeerSend
  <2>2. /\ Len(wire') = Len(wire) + 1
        /\ \A k \in 1..Len(wire) : wire'[k] = wire[k]
        /\ wire'[Len(wire) + 1] = Place(p, StreamEnd(wire))
    BY <2>1, SendStream
  <2>3. wire'[Len(wire) + 1].head >= 4
    BY <2>1, <2>2 DEF Place
  <2>4. Len(wire) \in Nat
    BY WireFacts
  <2> QED BY <2>2, <2>3, <2>4 DEF LongHeads
<1>2. CASE wire' = wire
  BY <1>2 DEF LongHeads
<1> QED BY <1>1, <1>2 DEF RouteNext, ReceiveSome, Receive, ProcessRecv, routeVars

\* At the read point of a complete packet, the packet there is that one.
LEMMA CompleteIsNext ==
  ASSUME RouteTypeOK, NEW k, Complete(k), NEW j \in 1..Len(wire),
         pos = wire[j].at \/ pos = wire[j].at + 8
  PROVE  j = k
<1>1. k \in 1..Len(wire) /\ k \in Nat /\ j \in Nat
  BY WireFacts DEF Complete
<1>2. ~ (k < j)
  <2>1. ASSUME k < j PROVE PacketEnd(k) <= pos
    BY <1>1, <2>1, ConsumedPrefix
  <2>2. PacketEnd(k) \in Nat /\ pos \in Nat
    BY <1>1, WireFacts, PacketNumbers
  <2> QED BY <2>1, <2>2 DEF Complete
<1>3. ~ (j < k)
  <2>1. ASSUME j < k PROVE FALSE
    <3>1. PacketEnd(j) <= pos
      BY <2>1 DEF Complete
    <3>2. j < j
      BY <3>1, LaterPacket
    <3> QED BY <1>1, <3>2
  <2> QED BY <2>1
<1> QED BY <1>1, <1>2, <1>3

\* If packet k is complete, the next ProcessRecv handles it, wherever the pieces
\* of the stream have stopped the route before.
LEMMA CompleteHandled ==
  ASSUME NEW k \in 1..Len(wire)
  PROVE  AlignedInv /\ LongHeads /\ Complete(k) /\ ProcessRecv => Handled(k)
<1>0. SUFFICES ASSUME AlignedInv, LongHeads, Complete(k), ProcessRecv
               PROVE  Handled(k)
  OBVIOUS
<1>1. RouteTypeOK /\ Aligned
  BY <1>0 DEF AlignedInv, SoundInv
<1>2. pos < PacketEnd(k) /\ PacketEnd(k) <= arrived
  BY <1>0 DEF Complete
<1>3. PICK a \in Nat, h \in Nat, b \in Nat :
        /\ wire[k].at = a /\ wire[k].head = h /\ wire[k].body = b
        /\ PacketEnd(k) = a + 12 + h + b
  BY <1>1, WireFacts
<1>4. PacketEnd(k) <= StreamEnd(wire) /\ StreamEnd(wire) \in Nat
  BY <1>1, WireFacts
<1>5. /\ arrived \in Nat /\ pos \in Nat /\ preTotalLen \in Int /\ h >= 4
  BY <1>0, <1>1, <1>3, WireFacts DEF RouteTypeOK, LongHeads
<1>6. Total(wire[k]) = 8 + h + b /\ Rest(Total(wire[k])) = 4 + h + b
  <2>1. Total(wire[k]) = 8 + h + b
    BY <1>3 DEF Total
  <2>2. Rest(8 + h + b) = 4 + h + b
    BY BlockOfFrame
  <2> QED BY <2>1, <2>2
<1>7. arrived - (a + 8) >= 4 + h + b
  BY <1>2, <1>3, <1>5
<1>8. Unpack(Total(wire[k]), wire[k].at + 8) => Handled(k)
  BY <1>1, <1>2, <1>3, <1>6, <1>7, UnpackFrame DEF Handled
<1>9. CASE preTotalLen <= 0
  <2>1. pos = a
    <3>1. pos # StreamEnd(wire)
      BY <1>2, <1>3, <1>4, <1>5
    <3>2. ASSUME NEW j \in 1..Len(wire), preTotalLen = Total(wire[j]) PROVE FALSE
      <4>1. PICK hj \in Nat, bj \in Nat : wire[j].head = hj /\ wire[j].body = bj
        BY <1>1, WireFacts
      <4>2. Total(wire[j]) = 8 + hj + bj
        BY <4>1 DEF Total
      <4> QED BY <1>9, <3>2, <4>2
    <3>3. PICK j \in 1..Len(wire) : wire[j].at = pos
      BY <1>1, <3>1, <3>2 DEF Aligned, HeadAt
    <3> QED BY <1>0, <1>1, <1>3, <3>3, CompleteIsNext
  <2>2. HeadAt(pos) /\ Size >= 8
    <3>1. HeadAt(pos)
      BY <1>3, <2>1 DEF HeadAt
    <3>2. Size >= 8
      BY <1>5, <1>7, <2>1 DEF Size
    <3> QED BY <3>1, <3>2
  <2>3. IsHead
    BY <1>0, <1>5, <1>9, <2>2 DEF ProcessRecv, NoData, Resume, NotHead, Size
  <2>4. PICK j \in 1..Len(wire) :
          /\ wire[j].at = pos
          /\ IF Size - 8 < Rest(Total(wire[j]))
             THEN /\ pos' = pos + 8
                  /\ preTotalLen' = Total(wire[j])
                  /\ UNCHANGED <<dispatched, out>>
             ELSE Unpack(Total(wire[j]), pos + 8)
    BY <2>3 DEF IsHead
  <2>5. j = k
    BY <1>0, <1>1, <2>4, CompleteIsNext
  <2>6. ~ (Size - 8 < Rest(Total(wire[k])))
    BY <1>3, <1>5, <1>6, <1>7, <2>1 DEF Size
  <2> QED BY <1>3, <1>8, <2>1, <2>4, <2>5, <2>6
<1>10. CASE preTotalLen > 0
  <2>1. PICK j \in 1..Len(wire) : pos = wire[j].at + 8 /\ preTotalLen = Total(wire[j])
    BY <1>1, <1>5, <1>10 DEF Aligned
  <2>2. j = k
    BY <1>0, <1>1, <2>1, CompleteIsNext
  <2>3. pos = a + 8 /\ preTotalLen = Total(wire[k])
    BY <1>3, <2>1, <2>2
  <2>4. Size >= 8 /\ ~ (Size < Rest(preTotalLen))
    BY <1>3, <1>5, <1>6, <1>7, <2>3 DEF Size
  <2>5. Resume
    BY <1>0, <1>5, <1>10, <2>4 DEF ProcessRecv, NoData, NotHead, IsHead, Size
  <2>6. Unpack(preTotalLen, pos)
    BY <2>4, <2>5 DEF Resume
  <2> QED BY <1>3, <1>8, <2>3, <2>6
<1> QED BY <1>5, <1>9, <1>10

\* A route is always at a boundary, with a type name in every packet of its stream.
THEOREM RouteReady ==
  ASSUME \A g \in GarbageLen : g <= 0
  PROVE  RouteSpec => [](AlignedInv /\ LongHeads)
<1>1. RouteInit => AlignedInv /\ LongHeads
  <2>1. RouteInit => LongHeads
    BY DEF RouteInit, LongHeads
  <2> QED BY <2>1, AlignedInit
<1>2. AlignedInv /\ LongHeads /\ [RouteNext]_routeVars => (AlignedInv /\ LongHeads)'
  BY AlignedStep, LongHeadsStep DEF AlignedInv, SoundInv
<1> QED BY <1>1, <1>2, PTL DEF RouteSpec

(***************************************************************************)
(* No packet waits for the bytes of the next one: in every state that         *)
(* RouteReady allows, a packet whose last byte is buffered is handled by the  *)
(* very next ProcessRecv, also when an earlier call has read only its length. *)
(* A call that changes nothing is no exception, so this is stated of the      *)
(* action and not under a box.                                                *)
(***************************************************************************)
THEOREM RouteCompleteHandled ==
  AlignedInv /\ LongHeads /\ ProcessRecv => \A k : Complete(k) => Handled(k)
BY CompleteHandled DEF Complete

=============================================================================

---------------------------- MODULE MessageRoute ----------------------------
(***************************************************************************)
(* One MessageRoute object (Shared/code/utility/MessageRoute.cpp): it cuts  *)
(* the byte stream of a socket into packets, hands each packet's message to *)
(* the dispatcher, and frames the messages that are sent.                   *)
(*                                                                          *)
(*    packet:  "pbh\0" | totalLen | headLen | CmdType | message             *)
(*                4         4          4      headLen   bodyLen             *)
(*                                                                          *)
(* A byte stream is never spelled out.  A stream is the sequence of the     *)
(* packets written to it, each with the position of its first byte, and a   *)
(* buffer is a pair of positions in a stream: what has been put into it and *)
(* what has been consumed.                                                  *)
(***************************************************************************)
EXTENDS Integers, Sequences

CONSTANTS
  Packets,           \* what Send can build: [type, head, body], the last two
                     \* being the lengths of the CmdType and of the message
  KnownTypes,        \* message types in the generated descriptor pool
  ProcessorMap,      \* m_ProcessorMap: registered type -> the set of the
                     \* packets its Processor answers with (empty, or one)
  TEMP_BUFFER_SIZE,  \* size of mTempBufferProcess
  Magic,             \* the bytes "pbh\0" read as a little-endian integer
  SizeMod,           \* a size_t subtraction that would be negative adds SizeMod
  DefaultBlock,      \* block size of an IstreamInputStream given size <= 0
  GarbageLen,        \* what mPreRecivesTotalLen, which the constructor leaves
                     \* uninitialised, may hold in a new object
  MaxPackets         \* bound: packets the peer sends

Packet == [type : KnownTypes \cup {"unknown"}, head : Nat, body : Nat]

\* Send puts the type name into the CmdType, so it has at least 4 bytes.
ASSUME PacketsAssumption ==
  \A p \in Packets : p \in Packet /\ p.head >= 4

ASSUME SizesAssumption ==
  /\ TEMP_BUFFER_SIZE \in Nat /\ Magic \in Nat
  /\ SizeMod \in Nat /\ SizeMod > 4
  /\ DefaultBlock \in Nat \ {0} /\ MaxPackets \in Nat
  /\ Magic > TEMP_BUFFER_SIZE
  /\ GarbageLen \subseteq Int /\ GarbageLen # {}

ASSUME ProcessorMapAssumption ==
  /\ DOMAIN ProcessorMap \subseteq KnownTypes
  /\ \A t \in DOMAIN ProcessorMap : \A p \in ProcessorMap[t] : p \in Packet

VARIABLES
  wire,         \* the packets the peer has put into the TCP stream
  arrived,      \* bytes of it that Receive has put into mDataStreamReceive
  pos,          \* bytes of it that ProcessRecv has taken out again
  preTotalLen,  \* mPreRecivesTotalLen
  dispatched,   \* history: the packets handed to a Processor, by number
  out           \* the packets Send has put into mDataStreamSend

routeVars == <<wire, arrived, pos, preTotalLen, dispatched, out>>

-----------------------------------------------------------------------------
(* Streams of packets *)

Total(p) == 8 + p.head + p.body

FrameLen(p) == 4 + Total(p)

Placed == [type : KnownTypes \cup {"unknown"}, head : Nat, body : Nat, at : Nat]

StreamEnd(s) == IF s = <<>> THEN 0 ELSE s[Len(s)].at + FrameLen(s[Len(s)])

Place(p, n) == [type |-> p.type, head |-> p.head, body |-> p.body, at |-> n]

\* MessageRoute::Send: the whole packet is appended under gSocketSendMutex.
Send(s, p) == Append(s, Place(p, StreamEnd(s)))

-----------------------------------------------------------------------------
(* ProcessRecv *)

\* mDataStreamReceive.size()
Size == arrived - pos

\* The four bytes at position p are the marker of a packet.  The marker is
\* assumed to occur nowhere else (see README).
HeadAt(p) == \E k \in 1..Len(wire) : wire[k].at = p

\* ReadLittleEndian32 at a position it is called at: the marker itself (only a
\* route that started with a garbage length reads there) or a head length.
HeadLenAt(p) ==
  IF HeadAt(p) THEN Magic
  ELSE wire[CHOOSE k \in 1..Len(wire) : wire[k].at + 8 = p].head

\* totalLen - sizeof(int), in size_t
Rest(totalLen) == IF totalLen >= 4 THEN totalLen - 4 ELSE SizeMod + totalLen - 4

\* Mutant: a block is taken to be complete even where the buffer ends.
BlockReadUnclipped(totalLen, size) ==
  LET block == IF Rest(totalLen) > 0 THEN Rest(totalLen) ELSE DefaultBlock
  IN  IF block >= 4 THEN block ELSE block * ((3 + block) \div block)

\* Bytes that constructing the IstreamInputStream with block size Rest(totalLen)
\* and reading the head length take out of the buffer: whole blocks, as many as
\* cover four bytes, if the buffer has them.  A packet's remaining fields always
\* lie in the block that holds its head length.
BlockRead(totalLen, size) ==
  LET block == IF Rest(totalLen) > 0 THEN Rest(totalLen) ELSE DefaultBlock
      n     == IF block >= 4 THEN block ELSE block * ((3 + block) \div block)
  IN  IF n <= size THEN n ELSE size

\* Mutant: the message goes to the Processor of any type.
DispatchAny(k) ==
  /\ dispatched' = Append(dispatched, k)
  /\ \E t \in DOMAIN ProcessorMap :
       \/ ProcessorMap[t] = {} /\ out' = out
       \/ \E rsp \in ProcessorMap[t] : out' = Send(out, rsp)

\* createMessage finds a descriptor for the type.
createMessage(t) == t \in KnownTypes

\* BaseMessageDispatcher::Dispatch; the Processor may answer with Send.
Dispatch(k) ==
  IF wire[k].type \in DOMAIN ProcessorMap
  THEN /\ dispatched' = Append(dispatched, k)
       /\ \/ /\ ProcessorMap[wire[k].type] = {}
             /\ out' = out
          \/ \E rsp \in ProcessorMap[wire[k].type] : out' = Send(out, rsp)
  ELSE UNCHANGED <<dispatched, out>>

\* Mutant: the body length is not compared with the size of mTempBufferProcess.
UnpackUnlimited(totalLen, p) ==
  /\ pos' = p + BlockRead(totalLen, arrived - p)
  /\ preTotalLen' = 0
  /\ \E k \in 1..Len(wire) :
       /\ wire[k].at + 8 = p
       /\ IF wire[k].type \in KnownTypes THEN Dispatch(k)
          ELSE UNCHANGED <<dispatched, out>>

\* Mutant: a message without fields, whose body is empty, is rejected.
UnpackNonEmpty(totalLen, p) ==
  /\ pos' = p + BlockRead(totalLen, arrived - p)
  /\ preTotalLen' = 0
  /\ \E k \in 1..Len(wire) :
       /\ wire[k].at + 8 = p
       /\ IF /\ wire[k].head <= TEMP_BUFFER_SIZE
             /\ wire[k].body \in 1..TEMP_BUFFER_SIZE
             /\ wire[k].type \in KnownTypes
          THEN Dispatch(k)
          ELSE UNCHANGED <<dispatched, out>>

\* From line 135 on: totalLen is known and its bytes, from p on, are buffered.
Unpack(totalLen, p) ==
  LET headLen == HeadLenAt(p)
      bodyLen == totalLen - headLen - 8
  IN  /\ pos' = p + BlockRead(totalLen, arrived - p)
      /\ preTotalLen' = 0
      /\ IF headLen <= TEMP_BUFFER_SIZE /\ bodyLen \in 0..TEMP_BUFFER_SIZE
         THEN \E k \in 1..Len(wire) :
                /\ wire[k].at + 8 = p
                /\ IF createMessage(wire[k].type)
                   THEN Dispatch(k)
                   ELSE UNCHANGED <<dispatched, out>>
         ELSE UNCHANGED <<dispatched, out>>

\* Fewer than eight bytes are buffered: nothing is read.
NoData ==
  /\ Size < 8
  /\ UNCHANGED <<pos, preTotalLen, dispatched, out>>

\* Mutant: the rest of the packet is not waited for.
ResumeAtOnce ==
  /\ Size >= 8
  /\ preTotalLen > 0
  /\ Unpack(preTotalLen, pos)

\* A length was read earlier: go on once the rest of the packet is there.
Resume ==
  /\ Size >= 8
  /\ preTotalLen > 0
  /\ IF Size < Rest(preTotalLen)
     THEN UNCHANGED <<pos, preTotalLen, dispatched, out>>
     ELSE Unpack(preTotalLen, pos)

\* The next four bytes are not the marker: they are dropped.
NotHead ==
  /\ Size >= 8
  /\ preTotalLen <= 0
  /\ ~ HeadAt(pos)
  /\ pos' = pos + 4
  /\ preTotalLen' = 0
  /\ UNCHANGED <<dispatched, out>>

\* Mutant: the length of an incomplete packet is not kept.
IsHeadForgets ==
  /\ Size >= 8
  /\ preTotalLen <= 0
  /\ \E k \in 1..Len(wire) :
       /\ wire[k].at = pos
       /\ IF Size - 8 < Rest(Total(wire[k]))
          THEN pos' = pos + 8 /\ UNCHANGED <<preTotalLen, dispatched, out>>
          ELSE Unpack(Total(wire[k]), pos + 8)

\* The marker and the length are read; the rest follows if it is buffered.
IsHead ==
  /\ Size >= 8
  /\ preTotalLen <= 0
  /\ \E k \in 1..Len(wire) :
       /\ wire[k].at = pos
       /\ LET totalLen == Total(wire[k])
          IN  IF Size - 8 < Rest(totalLen)
              THEN /\ pos' = pos + 8
                   /\ preTotalLen' = totalLen
                   /\ UNCHANGED <<dispatched, out>>
              ELSE Unpack(totalLen, pos + 8)

ProcessRecv ==
  /\ NoData \/ Resume \/ NotHead \/ IsHead
  /\ UNCHANGED <<wire, arrived>>

-----------------------------------------------------------------------------
(* The route alone: the peer writes packets, the socket delivers their bytes *)
(* in pieces of any size, the io thread calls Process over and over.         *)

RouteInit ==
  /\ wire = <<>> /\ arrived = 0 /\ pos = 0
  /\ preTotalLen \in GarbageLen
  /\ dispatched = <<>> /\ out = <<>>

\* The peer's MessageRoute::Send puts one more packet into the stream.
PeerSend(p) ==
  /\ Len(wire) < MaxPackets
  /\ wire' = Send(wire, p)
  /\ UNCHANGED <<arrived, pos, preTotalLen, dispatched, out>>

\* Receive: a completed read of n bytes is copied into mDataStreamReceive.
Receive(n) ==
  /\ n \in 1..(StreamEnd(wire) - arrived)
  /\ arrived' = arrived + n
  /\ UNCHANGED <<wire, pos, preTotalLen, dispatched, out>>

ReceiveSome == \E n \in 1..(StreamEnd(wire) - arrived) : Receive(n)

RouteNext ==
  \/ \E p \in Packets : PeerSend(p)
  \/ ReceiveSome
  \/ ProcessRecv

RouteSpec == RouteInit /\ [][RouteNext]_routeVars

RouteFairSpec ==
  RouteSpec /\ WF_routeVars(ReceiveSome) /\ WF_routeVars(ProcessRecv)

-----------------------------------------------------------------------------
(* Properties *)

\* The packets whose message reaches a Processor.
Deliverable(p) ==
  /\ p.head <= TEMP_BUFFER_SIZE /\ p.body <= TEMP_BUFFER_SIZE
  /\ p.type \in DOMAIN ProcessorMap

PacketEnd(k) == wire[k].at + FrameLen(wire[k])

\* A stream is the concatenation of its packets.
IsStream(s) ==
  /\ s \in Seq(Placed)
  /\ s # <<>> => s[1].at = 0
  /\ \A i \in 1..Len(s) : \A j \in 1..Len(s) :
       /\ j = i + 1 => s[j].at = s[i].at + FrameLen(s[i])
       /\ i < j => s[i].at + FrameLen(s[i]) <= s[j].at

\* Every variable has its type; what is consumed has been received before, and
\* what is received has been sent.
RouteTypeOK ==
  /\ IsStream(wire) /\ IsStream(out)
  /\ arrived \in 0..StreamEnd(wire)
  /\ pos \in 0..arrived
  /\ preTotalLen \in Int
  /\ dispatched \in Seq(Nat)

\* ProcessRecv never loses the packet boundaries, whatever pieces the stream
\* arrives in and also after a packet it rejects: it stands at the first byte of
\* a packet (or behind the last one), or behind the length of a packet whose
\* rest has to come, and then preTotalLen is that packet's length.
Aligned ==
  \/ preTotalLen <= 0 /\ (HeadAt(pos) \/ pos = StreamEnd(wire))
  \/ \E k \in 1..Len(wire) :
       pos = wire[k].at + 8 /\ preTotalLen = Total(wire[k])

\* Only deliverable packets that have been consumed are dispatched, each at most
\* once and in the order of the stream.  This survives even a lost boundary.
DispatchedInOrder ==
  /\ \A i \in 1..Len(dispatched) :
       /\ dispatched[i] \in 1..Len(wire)
       /\ Deliverable(wire[dispatched[i]])
       /\ PacketEnd(dispatched[i]) <= pos
  /\ \A i, j \in 1..Len(dispatched) : i < j => dispatched[i] < dispatched[j]

\* No deliverable packet is consumed without having been dispatched.
NoneSkipped ==
  \A k \in 1..Len(wire) :
    Deliverable(wire[k]) /\ PacketEnd(k) <= pos =>
      \E i \in 1..Len(dispatched) : dispatched[i] = k

\* How many packets end at or before position q.  They are the first ones of the
\* stream, since its packets follow each other.
Passed(q) ==
  CHOOSE n \in 0..Len(wire) : \A k \in 1..Len(wire) : PacketEnd(k) <= q <=> k <= n

\* MessageRoute implements FrameChannel: the packets handled are those whose
\* last byte ProcessRecv has consumed.  Under fairness every packet is handled,
\* so none waits for ever in mDataStreamReceive.
Channel == INSTANCE FrameChannel WITH
  sent      <- [k \in 1..Len(wire) |-> [type |-> wire[k].type,
                                        head |-> wire[k].head,
                                        body |-> wire[k].body]],
  handled   <- Passed(pos),
  delivered <- dispatched

ImplementsChannel == Channel!FairSpec

=============================================================================

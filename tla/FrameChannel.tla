---------------------------- MODULE FrameChannel ----------------------------
(***************************************************************************)
(* What a MessageRoute promises, without bytes: packets are handled one by  *)
(* one in the order they were sent; handling one delivers it when it is     *)
(* deliverable and skips it otherwise; every packet is handled in the end.  *)
(***************************************************************************)
EXTENDS Naturals, Sequences

CONSTANTS
  Packets,          \* the packets that can be sent
  Deliverable(_)    \* those the receiver hands to a processor

VARIABLES
  sent,       \* the packets sent so far
  handled,    \* how many of them have been handled
  delivered   \* the numbers of those that were delivered

channelVars == <<sent, handled, delivered>>

Init == sent = <<>> /\ handled = 0 /\ delivered = <<>>

Put ==
  /\ \E p \in Packets : sent' = Append(sent, p)
  /\ UNCHANGED <<handled, delivered>>

Handle ==
  /\ handled < Len(sent)
  /\ handled' = handled + 1
  /\ delivered' = IF Deliverable(sent[handled + 1])
                  THEN Append(delivered, handled + 1)
                  ELSE delivered
  /\ UNCHANGED sent

Spec == Init /\ [][Put \/ Handle]_channelVars

FairSpec == Spec /\ WF_channelVars(Handle)
=============================================================================

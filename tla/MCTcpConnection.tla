--------------------------- MODULE MCTcpConnection ---------------------------
(* Instances of TcpConnection: a request that is answered and one that is not. *)
EXTENDS TcpConnection, TLC

Pkt(t, h, b) == [type |-> t, head |-> h, body |-> b]

mcKnownTypes == {"reqMove", "rspMove", "reqAlarm"}

mcPackets == {Pkt("reqMove", 4, 1), Pkt("reqAlarm", 4, 0)}

\* The server registers no processor for reqAlarm.
mcProcessorMap == "reqMove" :> {Pkt("rspMove", 5, 1)}

mcGarbageLen == {0}
=============================================================================

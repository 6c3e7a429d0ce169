------------------------------ MODULE MCSession ------------------------------
(* A session with two kinds of requests that are answered, one that is not, and *)
(* a reply that is too long for the client.                                     *)
EXTENDS Session, TLC

Pkt(t, h, b) == [type |-> t, head |-> h, body |-> b]

mcKnownTypes == {"reqMove", "rspMove", "reqSignin", "rspSignin", "reqAlarm"}

mcPackets == {Pkt("reqMove", 4, 1), Pkt("reqSignin", 4, 0), Pkt("reqAlarm", 4, 0)}

mcProcessorMap == "reqMove" :> {Pkt("rspMove", 4, 1)} @@ "reqSignin" :> {Pkt("rspSignin", 4, 7)}

mcClientProcessorMap == "rspMove" :> {} @@ "rspSignin" :> {}

mcGarbageLen == {0}
=============================================================================

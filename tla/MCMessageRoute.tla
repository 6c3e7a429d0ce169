--------------------------- MODULE MCMessageRoute ---------------------------
(* Instances of MessageRoute with small packets, for the limits.            *)
EXTENDS MessageRoute, TLC

Pkt(t, h, b) == [type |-> t, head |-> h, body |-> b]

\* TEMP_BUFFER_SIZE is 6: two packets fit exactly, two are one byte too long,
\* one has no descriptor and one has no processor.
mcPackets == {Pkt("req", 4, 6), Pkt("evt", 6, 0), Pkt("req", 4, 7),
              Pkt("evt", 7, 0), Pkt("unknown", 4, 0), Pkt("rsp", 4, 0)}

\* Lengths with and without the alignment the four-byte search steps have.
mcTwoPackets == {Pkt("req", 4, 0), Pkt("evt", 5, 2)}

mcKnownTypes == {"req", "evt", "rsp"}

\* "req" is answered, "evt" is not, "rsp" is not registered.
mcProcessorMap == "req" :> {Pkt("evt", 6, 1)} @@ "evt" :> {}

\* 0, and the negative number a debug heap leaves in fresh memory
mcGarbageLen == {0, -842150451}

\* a heap block that was used before may hold any number
mcReusedLen == {0, 1, 4, 6, 9, 20}
=============================================================================

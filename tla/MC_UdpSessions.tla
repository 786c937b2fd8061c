--------------------------- MODULE MC_UdpSessions ---------------------------
(* UdpSessions with two ports of ann, one of bob and a refused client.     *)
EXTENDS UdpSessions

MCAddrOf == [k \in Key |-> IF k \in {"ann:1", "ann:2"} THEN "ann"
                           ELSE IF k = "bob:1" THEN "bob" ELSE "eve"]
=============================================================================

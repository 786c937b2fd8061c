--------------------------- MODULE MC_TcpStreams ----------------------------
(* TcpStreams on small instances: "open" admits both clients, "strict"     *)
(* only ann, and "broken" is a spec no listener is started for.            *)
EXTENDS TcpStreams, TLC

CONSTANTS ann, bob

MCTwo == {"open", "strict"}
MCThree == {"open", "strict", "broken"}
MCAllow == [s \in Specs |-> IF s = "strict" THEN {ann} ELSE {ann, bob}]
MCSymmetry == Permutations(Conn)
=============================================================================

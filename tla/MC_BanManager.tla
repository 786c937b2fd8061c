--------------------------- MODULE MC_BanManager ---------------------------
(* Instances of BanManager for TLC.  Requests are interchangeable, and no   *)
(* property speaks of one of them or of liveness.                           *)
EXTENDS BanManager, TLC

MCSymmetry == Permutations(Request)
=============================================================================

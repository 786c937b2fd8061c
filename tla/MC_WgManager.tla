---------------------------- MODULE MC_WgManager ----------------------------
(* WgManager with two devices, the second of which can get the address of  *)
(* the first, and a site whose key can change.  In "wide" device a may go  *)
(* to one destination until time 2; in "none" it may go nowhere; in        *)
(* "moved" its address belongs to device b; "rekeyed" gives the site       *)
(* another key and renews device a for good; "empty" has no peer.          *)
EXTENDS WgManager

Device(k, owns, until, dsts) ==
  [site |-> FALSE, pub |-> k, owns |-> owns, until |-> until, dsts |-> dsts]
Site(k) == [site |-> TRUE, pub |-> k, owns |-> {"10.1"}, until |-> 0, dsts |-> {}]
Conf(a, b, s) == [p \in Peer |-> CASE p = "device:a" -> a [] p = "device:b" -> b [] OTHER -> s]

Wide == Conf(Device("A", {"10.2"}, 2, {"nas"}), NoPeer, Site("S"))
Narrow == Conf(Device("A", {"10.2"}, 0, {}), NoPeer, NoPeer)
Moved == Conf(NoPeer, Device("B", {"10.2"}, 0, {"nas"}), Site("S"))
Rekeyed == Conf(Device("A", {"10.2"}, 0, {"nas"}), NoPeer, Site("S2"))

MCConfigs == {Wide, Narrow, Moved, Rekeyed, Absent}
=============================================================================

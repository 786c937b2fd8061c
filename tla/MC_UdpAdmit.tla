---------------------------- MODULE MC_UdpAdmit -----------------------------
(* UdpAdmit with two flows of one source.  A reload may switch between     *)
(* allowing both and allowing the first only.                              *)
EXTENDS UdpAdmit

MCSrcOf == [k \in Flow |-> "a"]
MCPolicies == {Flow, {"a1"}}
=============================================================================

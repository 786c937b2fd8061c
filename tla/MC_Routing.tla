----------------------------- MODULE MC_Routing -----------------------------
(* Routing with a stored host app.x that can be public, VPN only or        *)
(* disabled and can give up a second name, a stored wildcard *.x, and a    *)
(* container that claims app.x and api.x, or the wildcard.                 *)
EXTENDS Routing, TLC

Host(from, names, vpnOnly, enabled) ==
  [from |-> from, names |-> names, vpnOnly |-> vpnOnly, enabled |-> enabled]

MCWildOf == [n \in Name |-> "*.x"]
MCDbConfig == 1 :> {Host("db", {"app.x"}, FALSE, TRUE), Host("db", {"app.x", "api.x"}, FALSE, TRUE),
                    Host("db", {"app.x"}, TRUE, TRUE), Host("db", {"app.x"}, FALSE, FALSE)}
           @@ 2 :> {Host("db", {"*.x"}, FALSE, TRUE)}
MCDkConfig == 3 :> {Host("docker", {"app.x", "api.x"}, FALSE, TRUE), Host("docker", {"*.x"}, FALSE, TRUE)}
=============================================================================

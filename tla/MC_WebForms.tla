----------------------------- MODULE MC_WebForms -----------------------------
(***************************************************************************)
(* Stored objects for WebForms: each has one or two of the features the    *)
(* dialogs treat apart, the objects only the API can make among them.      *)
(***************************************************************************)
EXTENDS WebForms

MCLists ==
    [acl |-> {1, 2}, cert |-> {1}, prov |-> {1, 2}, site |-> {1, 2}, peer |-> {1, 2},
     people |-> {[prov |-> 1, sub |-> "ann"], [prov |-> 2, sub |-> "bob"]}]

(* Everything, or the first of everything.                                 *)
MCStarts == {MCLists, [MCLists EXCEPT !.acl = {1}, !.prov = {1}, !.site = {1}, !.peer = {1}]}

Base == [NewHost EXCEPT !.up = [host |-> "web", via |-> 0]]
Rule == [path |-> "/x", mode |-> "public", acl |-> 0, prov |-> 0, groups |-> {},
         emails |-> {}, pass |-> FALSE, methods |-> {"GET"}]
Ann == [kind |-> "user", prov |-> 2, peer |-> 0, who |-> "ann"]
Staff == [kind |-> "group", prov |-> 2, peer |-> 0, who |-> "staff"]
Device == [kind |-> "peer", prov |-> 0, peer |-> 2, who |-> ""]

Hosts ==
    { [Base EXCEPT !.acl = 2, !.certMode = "custom", !.cert = 1, !.http3 = "on"],
      [Base EXCEPT !.oidc = [prov |-> 2, groups |-> {"staff"}, pass |-> FALSE], !.seconds = 5,
                   !.rules = <<Rule, [Rule EXCEPT !.mode = "accessList", !.acl = 2],
                               [Rule EXCEPT !.mode = "oidc", !.prov = 2, !.pass = TRUE,
                                            !.groups = {"staff"}]>>,
                   !.headers = <<[op |-> "remove", name |-> "Server", value |-> ""]>>,
                   !.rate = [on |-> TRUE, rps |-> 5, burst |-> 7]],
      [Base EXCEPT !.up.via = 2, !.pool = <<[host |-> "web2", via |-> 2]>>, !.http3 = "off",
                   !.locations = <<[path |-> "/api", up |-> [host |-> "api", via |-> 2],
                                    strip |-> "/api", rest |-> ""]>>],
      [Base EXCEPT !.pool = <<[host |-> "v6", via |-> 1]>>,
                   !.rules = <<[Rule EXCEPT !.mode = "oidc", !.prov = 2, !.emails = {"a@b"},
                                            !.groups = {"a,b"}]>>,
                   !.hsts = [on |-> FALSE, maxAge |-> 0]],
      [Base EXCEPT !.rules = <<[Rule EXCEPT !.methods = {"OPTIONS"}]>>],
      [Base EXCEPT !.type = "redirect", !.up = NoUpstream, !.vpnOnly = TRUE,
                   !.redirect = [code |-> 308, host |-> "other", path |-> FALSE],
                   !.rewrite = [strip |-> "/a", replacement |-> "/b"], !.fauth = "http://auth"],
      [Base EXCEPT !.type = "vpn-portal", !.up = NoUpstream, !.mtls = [mode |-> "require", ca |-> "pem"],
                   !.portal = [prov |-> 2, claims |-> "userinfo", enrol |-> <<Ann, Staff>>]] }

Stream == [kind |-> "stream", port |-> 5432, fhost |-> "db", via |-> 0, cidrs |-> {}, acl |-> 0,
           accept |-> FALSE, trusted |-> {}, tls |-> FALSE, cert |-> 0, enabled |-> TRUE]

Others ==
    { [Stream EXCEPT !.acl = 2, !.via = 2, !.accept = TRUE, !.trusted = {"10.0.0.0/8"}],
      [Stream EXCEPT !.cidrs = {"10.0.0.0/8"}, !.tls = TRUE, !.cert = 1],
      [kind |-> "acl", users |-> <<[name |-> "u", password |-> "kept"]>>,
       rules |-> <<[action |-> "deny", vpn |-> NoSubject, host |-> "", country |-> "AT",
                    cidr |-> "", methods |-> {}],
                   [action |-> "allow", vpn |-> Device, host |-> "", country |-> "",
                    cidr |-> "", methods |-> {"GET"}],
                   [action |-> "allow", vpn |-> Ann, host |-> "", country |-> "",
                    cidr |-> "", methods |-> {}]>>],
      [kind |-> "acl", users |-> <<>>,
       rules |-> <<[action |-> "allow", vpn |-> NoSubject, host |-> "", country |-> "",
                    cidr |-> "10.0.0.0/8", methods |-> {"GET", "OPTIONS"}]>>],
      [kind |-> "policy", name |-> "p", subject |-> Ann,
       routes |-> <<[cidr |-> "10.0.0.0", bits |-> 8, proto |-> "tcp", ports |-> "443"]>>],
      [kind |-> "idp", name |-> "i", secret |-> "kept", hours |-> 12] }

MCObjects == Hosts \cup Others
=============================================================================

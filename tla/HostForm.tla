------------------------------ MODULE HostForm ------------------------------
(***************************************************************************)
(* The host dialog of the admin interface (src/web/app.js): what openModal *)
(* puts into its fields from a stored host and the lists of the page, and  *)
(* what the submit handler makes of the fields.  Fields that are filled    *)
(* and read in the same way share one field here: "flag" for the plain     *)
(* switches, "text" for the texts and areas, "seconds" for the numbers     *)
(* whose 0 is an empty field, "http3" for the three options whose default  *)
(* may be stored in so many words and is sent as nothing (HTTP/3 and       *)
(* buffering, on unless off, and the TLS version, 1.2 unless 1.3),         *)
(* "headers" for both lists of header rules, "strip" for the three texts   *)
(* that make a path rewrite.                                               *)
(***************************************************************************)
EXTENDS FormParts

NoUpstream == [host |-> "", via |-> 0]
NoRedirect == [code |-> 0, host |-> "", path |-> TRUE]
NoOidc == [prov |-> 0, groups |-> {}, pass |-> FALSE]
NoRewrite == [strip |-> "", replacement |-> ""]
NoRate == [on |-> FALSE, rps |-> 0, burst |-> 0]
NoPortal == [prov |-> 0, claims |-> "", enrol |-> <<>>]
DefaultAge == 15552000

(* What a host starts as: the fields openModal sets for a new one.         *)
NewHost ==
    [kind |-> "host", type |-> "proxy", up |-> NoUpstream, pool |-> <<>>, locations |-> <<>>,
     root |-> "", redirect |-> NoRedirect, acl |-> 0, certMode |-> "auto", cert |-> 0,
     forceSsl |-> TRUE, enabled |-> TRUE, vpnOnly |-> FALSE, portal |-> NoPortal,
     flag |-> FALSE, text |-> "", seconds |-> 0, http3 |-> "unset",
     hsts |-> [on |-> FALSE, maxAge |-> DefaultAge], rate |-> NoRate,
     rewrite |-> NoRewrite, fauth |-> "", oidc |-> NoOidc, rules |-> <<>>,
     mtls |-> [mode |-> "", ca |-> ""], headers |-> <<>>]

OrElse(n, default) == IF n = 0 THEN default ELSE n

(* The provider of a host without single sign-on is the first of the list, *)
(* behind a switch that is off.                                            *)
FillProviderSelect(lists, p) == IF p # 0 THEN Select(lists.prov, p) ELSE First(lists.prov)

(* openModal, up to the portal block, which is filled later.               *)
FillHost(h, lists) ==
    [kind |-> "host", type |-> h.type, up |-> h.up.host, via |-> FillViaSelect(lists, h.up.via),
     pool |-> Mapped(LAMBDA u : u.host, h.pool),
     locations |-> Mapped(AddLocationRow, h.locations),
     root |-> h.root, redirect |-> [h.redirect EXCEPT !.code = OrElse(@, 301)],
     acl |-> Select(lists.acl, h.acl),
     certMode |-> h.certMode, cert |-> Select(lists.cert, h.cert),
     forceSsl |-> h.forceSsl, enabled |-> h.enabled, vpnOnly |-> h.vpnOnly,
     flag |-> h.flag, text |-> h.text, seconds |-> h.seconds, http3 |-> h.http3 # "off",
     hsts |-> [h.hsts EXCEPT !.maxAge = OrElse(@, DefaultAge)],
     rate |-> h.rate, rewrite |-> h.rewrite,
     fauthOn |-> h.fauth # "", fauth |-> h.fauth,
     oidcOn |-> h.oidc.prov # 0,
     oidc |-> [prov |-> FillProviderSelect(lists, h.oidc.prov), groups |-> h.oidc.groups,
               pass |-> h.oidc.prov = 0 \/ h.oidc.pass],
     rules |-> Mapped(LAMBDA r : AddAuthRuleRow(r, lists), h.rules),
     mtls |-> h.mtls, headers |-> h.headers]

(* fillPortalBlock: a host that is no portal gets one row to fill in.      *)
FillPortalBlock(h, lists) ==
    LET po == h.portal
        rows == IF po = NoPortal THEN <<NoSubject>> ELSE po.enrol
    IN [prov |-> IF po.prov # 0 THEN Select(lists.prov, po.prov) ELSE First(lists.prov),
        claims |-> IF po.claims = "" THEN "id_token" ELSE po.claims,
        enrol |-> Mapped(LAMBDA s : MakeSubjectPicker(s, lists, TRUE), rows)]

(* readPortalOptions: every enrolment is about the portal's own provider.  *)
ReadPortalOptions(b) ==
    [prov |-> b.prov, claims |-> b.claims,
     enrol |-> Filter(Mapped(LAMBDA w : ReadSubject(w, b.prov), b.enrol),
                         LAMBDA s : s.kind # "group" \/ s.who # "")]

(* Single sign-on is for a proxy host, and needs a provider on the list.   *)
ReadOidc(f) ==
    IF f.type = "proxy" /\ f.oidcOn /\ f.oidc.prov # 0
    THEN [f.oidc EXCEPT !.groups = SplitNames(@)] ELSE NoOidc

(* The submit handler: the host it sends.  Fields of another host type     *)
(* keep what they show and are left out of what is sent.                   *)
ReadHost(f, portal) ==
    LET proxy == f.type = "proxy"
        rewritten == f.rewrite.strip # ""
    IN [kind |-> "host", type |-> f.type,
        up |-> IF proxy THEN ViaOn([host |-> f.up, via |-> 0], f.via) ELSE NoUpstream,
        pool |-> IF proxy THEN Mapped(LAMBDA u : ViaOn(u, f.via), ParsePool(f.pool)) ELSE <<>>,
        locations |-> IF ~proxy THEN <<>>
                      ELSE Mapped(LAMBDA l : [l EXCEPT !.up = ViaOn(@, f.via)],
                                  ReadLocations(f.locations)),
        root |-> IF f.type = "static" THEN f.root ELSE "",
        redirect |-> IF f.type = "redirect" THEN f.redirect ELSE NoRedirect,
        certMode |-> f.certMode,
        cert |-> IF f.certMode = "custom" THEN f.cert ELSE 0,
        forceSsl |-> f.certMode \in {"auto", "custom"} /\ f.forceSsl,
        enabled |-> f.enabled, acl |-> f.acl,
        vpnOnly |-> f.type # "vpn-portal" /\ f.vpnOnly,
        portal |-> IF f.type = "vpn-portal" THEN ReadPortalOptions(portal) ELSE NoPortal,
        flag |-> f.flag, text |-> f.text, seconds |-> f.seconds,
        http3 |-> IF f.http3 THEN "unset" ELSE "off",
        hsts |-> [f.hsts EXCEPT !.maxAge = OrElse(@, DefaultAge)],
        rate |-> IF f.rate.on
                 THEN [on |-> TRUE, rps |-> OrElse(f.rate.rps, 10), burst |-> OrElse(f.rate.burst, 20)]
                 ELSE NoRate,
        rewrite |-> IF rewritten THEN f.rewrite ELSE NoRewrite,
        fauth |-> IF f.fauthOn THEN f.fauth ELSE "",
        oidc |-> ReadOidc(f),
        rules |-> IF proxy THEN ReadAuthRules(f.rules) ELSE <<>>,
        mtls |-> IF f.mtls.mode = "" THEN [mode |-> "", ca |-> ""] ELSE f.mtls,
        headers |-> ReadHdrRows(f.headers)]
=============================================================================

------------------------------ MODULE PageForms ------------------------------
(***************************************************************************)
(* The stream, access list, LAN policy and identity provider dialogs of    *)
(* the admin interface (src/web/app.js): what they show for a stored       *)
(* object, and what their submit handlers send.                            *)
(***************************************************************************)
EXTENDS FormParts

(***************************************************************************)
(* Streams.  A source is an access list or, when none is chosen, a list of *)
(* networks; ports and lists that may be empty are numbers and sets.  The  *)
(* routes by SNI are lines the submit handler's pattern reads.             *)
(***************************************************************************)
FillStream(s, lists) ==
    [s EXCEPT !.via = FillViaSelect(lists, @), !.acl = Select(lists.acl, @),
              !.cert = Select(lists.cert, @)]

ReadStream(f) ==
    [f EXCEPT !.cidrs = IF f.acl # 0 THEN {} ELSE @,
              !.trusted = IF f.accept THEN @ ELSE {},
              !.cert = IF f.tls THEN @ ELSE 0]

(***************************************************************************)
(* Access lists.  A stored rule has one of four fields set; its row has a  *)
(* kind and a value.  A user's stored password is never in the page.       *)
(***************************************************************************)
Countries == {"AT", "DE"}    \* the codes of the country picker

AddAclRuleRow(r, lists) ==
    LET kind == CASE r.vpn # NoSubject -> "vpn"
                  [] r.host # "" -> "host"
                  [] r.country # "" -> "country"
                  [] OTHER -> "cidr"
    IN [action |-> r.action, kind |-> kind, methods |-> Chips(r.methods),
        vpn |-> IF kind = "vpn" THEN MakeSubjectPicker(r.vpn, lists, FALSE) ELSE NoSubject,
        val |-> CASE kind = "vpn" -> ""
                  [] kind = "host" -> r.host
                  [] kind = "country" -> IF r.country \in Countries THEN r.country ELSE ""
                  [] kind = "cidr" -> r.cidr]

ReadAclRule(w) ==
    [action |-> w.action, methods |-> w.methods,
     vpn |-> IF w.kind = "vpn" THEN ReadSubject(w.vpn, w.vpn.prov) ELSE NoSubject,
     host |-> IF w.kind = "host" THEN w.val ELSE "",
     country |-> IF w.kind = "country" THEN w.val ELSE "",
     cidr |-> IF w.kind = "cidr" THEN w.val ELSE ""]

FillAcl(a, lists) ==
    [a EXCEPT !.rules = Mapped(LAMBDA r : AddAclRuleRow(r, lists), @),
              !.users = Mapped(LAMBDA u : [name |-> u.name, password |-> ""], @)]

(* A user without a name is left out; one without a password is sent       *)
(* without, and the server leaves the password it has.                     *)
ReadAcl(f) ==
    [f EXCEPT !.rules = Mapped(ReadAclRule,
                               Filter(@, LAMBDA w : w.kind = "vpn" \/ w.val # "")),
              !.users = Filter(@, LAMBDA u : u.name # "")]

(***************************************************************************)
(* LAN policies and identity providers.                                    *)
(***************************************************************************)
FillPolicy(p, lists) == [p EXCEPT !.subject = MakeSubjectPicker(@, lists, TRUE)]

ReadPolicy(f) ==
    [f EXCEPT !.subject = ReadSubject(@, f.subject.prov), !.routes = ReadRoutes(@)]

(* The secret of a provider is never shown; an empty one leaves it.        *)
FillIdp(p) == [p EXCEPT !.secret = ""]
ReadIdp(f) == f
=============================================================================

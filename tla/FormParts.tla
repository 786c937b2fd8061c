------------------------------ MODULE FormParts ------------------------------
(***************************************************************************)
(* The controls the dialogs of the admin interface (src/web/app.js) are    *)
(* made of: what a control shows for a stored value, given the lists the   *)
(* page holds, and what is read back from it.                              *)
(*                                                                         *)
(* The lists are a record: the ids of access lists (acl), certificates     *)
(* (cert), identity providers (prov) and sites (site), the devices a rule  *)
(* can name (peer), and the people seen at a portal, with their provider   *)
(* (people).  An id of 0 is an absent reference and the empty value of a   *)
(* select; a number of 0 is an empty number field.  A text is one without  *)
(* blanks around it, which most fields trim.                               *)
(***************************************************************************)
EXTENDS Naturals, Sequences

Mapped(F(_), s) == [n \in DOMAIN s |-> F(s[n])]

Elements(s) == {s[n] : n \in DOMAIN s}

(* The rows of s that are among keep, collected one by one.                *)
Where(s, keep) ==
    LET kept[n \in 0 .. Len(s)] ==
            IF n = 0 THEN <<>>
            ELSE IF s[n] \in keep THEN Append(kept[n-1], s[n])
            ELSE kept[n-1]
    IN kept[Len(s)]

Filter(s, Test(_)) == Where(s, {x \in Elements(s) : Test(x)})

Select_first(options, v) ==
    IF v \in options \cup {0} THEN v ELSE IF options = {} THEN 0 ELSE CHOOSE w \in options : TRUE

(* A select: a value that is not among its options selects nothing.        *)
Select(options, v) == IF v \in options THEN v ELSE 0

(* A select nothing was assigned to shows its first option.                *)
First(options) ==
    IF options = {} THEN 0 ELSE CHOOSE v \in options : \A w \in options : v <= w

(* fillViaSelect: "the local network" is always an option, and is what is  *)
(* left when the site is not on the list.                                  *)
FillViaSelect(lists, v) == Select(lists.site, v)

ViaOn_dropped(u, via) == u

(* viaOn: one site covers the host, its pool and its locations.            *)
ViaOn(u, via) == IF via = 0 THEN u ELSE [u EXCEPT !.via = via]

(* Upstreams parsePool and readLocations have no pattern for: IPv6.        *)
Unwritable == {"v6"}

ParsePool(lines) ==
    Mapped(LAMBDA u : [host |-> u, via |-> 0],
           Filter(lines, LAMBDA u : u # "" /\ u \notin Unwritable))

(* Names in one text field, with commas between them: a name that has a    *)
(* comma of its own is read back as two.                                   *)
WithComma == [x \in {"a,b"} |-> {"a", "b"}]

SplitNames(names) ==
    UNION {IF x \in DOMAIN WithComma THEN WithComma[x] ELSE {x} : x \in names}

(* The HTTP methods a rule has a chip for.  The server knows three more    *)
(* (OPTIONS, CONNECT, TRACE), which are not shown; a rule that is sent     *)
(* without a method is about every method.                                 *)
Verbs == {"GET", "HEAD", "POST", "PUT", "PATCH", "DELETE"}

Chips(methods) == methods \cap Verbs

(***************************************************************************)
(* Lists of rows.                                                          *)
(***************************************************************************)
ReadHdrRows(rows) ==
    Mapped(LAMBDA w : IF w.op = "remove" THEN [w EXCEPT !.value = ""] ELSE w,
           Filter(rows, LAMBDA w : w.name # ""))

AddAuthRuleRow(r, lists) ==
    [path |-> r.path, mode |-> r.mode, groups |-> r.groups, methods |-> Chips(r.methods),
     acl  |-> IF r.acl # 0 THEN Select(lists.acl, r.acl) ELSE First(lists.acl),
     prov |-> Select(lists.prov, r.prov)]

(* A rule's own provider brings its own groups and passes the identity on; *)
(* its other allow-lists have no field.                                    *)
ReadAuthRule(w) ==
    LET own == w.mode = "oidc" /\ w.prov # 0 IN
    [path |-> w.path, mode |-> w.mode, methods |-> w.methods,
     acl    |-> IF w.mode = "accessList" THEN w.acl ELSE 0,
     prov   |-> IF own THEN w.prov ELSE 0,
     groups |-> IF own THEN SplitNames(w.groups) ELSE {},
     emails |-> {}, pass |-> own]

(* A rule whose access list is gone from the list is left out.             *)
ReadAuthRules(rows) ==
    Mapped(ReadAuthRule,
           Filter(rows, LAMBDA w : w.path # "" /\ (w.mode = "accessList" => w.acl # 0)))

(* A location has a field for the prefix to strip, none for the rest of    *)
(* its path rewrite.                                                       *)
AddLocationRow(l) == [path |-> l.path, up |-> l.up.host, strip |-> l.strip]

ReadLocations(rows) ==
    Mapped(LAMBDA w : [path |-> w.path, up |-> [host |-> w.up, via |-> 0],
                       strip |-> w.strip, rest |-> ""],
           Filter(rows, LAMBDA w : w.path # "" /\ w.up \notin Unwritable))

(* A destination without a prefix length is one address.                   *)
ReadRoutes(rows) ==
    Mapped(LAMBDA w : [w EXCEPT !.bits = IF @ = 0 THEN 32 ELSE @],
           Filter(rows, LAMBDA w : w.cidr # ""))

(***************************************************************************)
(* The subject picker: who a rule, a policy or an enrolment is about.      *)
(***************************************************************************)
IdentityKinds == {"group", "user", "any-user"}
NoSubject == [kind |-> "", prov |-> 0, peer |-> 0, who |-> ""]

(* knownPeople: the people of a provider who were seen at a portal.        *)
KnownPeople(lists, p) == {x.sub : x \in {y \in lists.people : y.prov = p}}

(* The picker for a stored subject, or NoSubject.  The person a rule names *)
(* is always an option; a peer that is gone or revoked is not.             *)
MakeSubjectPicker(cur, lists, identityOnly) ==
    [kind |-> IF cur.kind # "" THEN cur.kind ELSE IF identityOnly THEN "group" ELSE "any",
     prov |-> IF cur.prov # 0 THEN Select(lists.prov, cur.prov) ELSE First(lists.prov),
     peer |-> Select(lists.peer, cur.peer),
     who  |-> cur.who]

(* Its kind is changed, and build(null) forgets what was there: the first  *)
(* peer or person is shown, an empty text for a group.                     *)
KindChanged(w, kind, lists) ==
    LET people == IF kind = "user" THEN KnownPeople(lists, w.prov) ELSE {} IN
    {[kind |-> kind, prov |-> w.prov, who |-> who,
      peer |-> IF kind = "peer" THEN First(lists.peer) ELSE 0] :
        who \in IF people = {} THEN {""} ELSE people}

(* The reader: prov is the picker's own provider, or the portal's.         *)
ReadSubject(w, prov) ==
    [kind |-> w.kind,
     prov |-> IF w.kind \in IdentityKinds THEN prov ELSE 0,
     peer |-> IF w.kind = "peer" THEN w.peer ELSE 0,
     who  |-> IF w.kind \in {"user", "group"} THEN w.who ELSE ""]
=============================================================================

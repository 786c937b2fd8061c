------------------------------ MODULE WebForms ------------------------------
(***************************************************************************)
(* Editing in the admin interface (src/web/app.js): a page shows objects   *)
(* and lists it loaded some time ago, a dialog is filled from both, and    *)
(* what is read back from the dialog replaces the whole object, while      *)
(* another administrator changes the same store.  What a dialog shows and  *)
(* sends is in HostForm and PageForms.                                     *)
(***************************************************************************)
EXTENDS HostForm, PageForms, FiniteSets

CONSTANTS Objects,     \* the objects that may be stored
          Lists,       \* what there may be to refer to
          Starts,      \* what there is of it at the start
          Ids,         \* the objects of the instance
          MaxChanges,  \* bound: changes at the server
          MaxFills     \* bound: portal blocks being filled at once

ASSUME FormsAssumption == MaxChanges \in Nat /\ MaxFills \in Nat \ {0}

VARIABLES store,     \* the objects at the server
          refs,      \* what there is at the server to refer to
          rows,      \* the objects in the page
          lists,     \* the lists in the page
          refresh,   \* a refresh that has not finished
          dialog,    \* the dialog that is open
          portal,    \* the portal block of the host dialog
          fills,     \* fillPortalBlock calls that have not finished
          changes    \* how many changes were made at the server

formVars == <<store, refs, rows, lists, refresh, dialog, portal, fills, changes>>

Empty == [NewHost EXCEPT !.kind = "none"]
NoRefresh == [at |-> "no", store |-> <<>>, refs |-> <<>>]
NoDialog == [id |-> 0, from |-> Empty, whole |-> TRUE, form |-> Empty, filled |-> Empty]

(***************************************************************************)
(* References, as pairs <<list, member>>.                                  *)
(***************************************************************************)
SubjectNames(s) == {<<"prov", s.prov>>, <<"peer", s.peer>>}

Named(o) ==
    LET all == CASE o.kind = "host" ->
                      {<<"acl", o.acl>>, <<"cert", o.cert>>, <<"prov", o.oidc.prov>>,
                       <<"site", o.up.via>>, <<"prov", o.portal.prov>>}
                        \cup {<<"acl", r.acl>> : r \in Elements(o.rules)}
                        \cup {<<"prov", r.prov>> : r \in Elements(o.rules)}
                        \cup {<<"site", u.via>> : u \in Elements(o.pool)}
                        \cup {<<"site", l.up.via>> : l \in Elements(o.locations)}
                        \cup UNION {SubjectNames(s) : s \in Elements(o.portal.enrol)}
                 [] o.kind = "stream" -> {<<"acl", o.acl>>, <<"cert", o.cert>>, <<"site", o.via>>}
                 [] o.kind = "acl" -> UNION {SubjectNames(r.vpn) : r \in Elements(o.rules)}
                 [] o.kind = "policy" -> SubjectNames(o.subject)
                 [] OTHER -> {}
    IN {x \in all : x[2] # 0}

Known(names, l) == \A x \in names : x[2] \in l[x[1]]

FormsInit ==
    /\ refs \in Starts
    /\ store \in [Ids -> Objects]
    /\ \A i, j \in Ids : store[i].kind = store[j].kind /\ Known(Named(store[i]), refs)
    /\ rows = store
    /\ lists = refs
    /\ refresh = NoRefresh
    /\ dialog = NoDialog
    /\ portal = [of |-> <<0, Empty>>, whole |-> TRUE, block |-> FillPortalBlock(NewHost, Lists)]
    /\ fills = {}
    /\ changes = 0

(***************************************************************************)
(* Another administrator, or an API client.  The server deletes nothing    *)
(* that is in use and stores no reference to what does not exist.          *)
(***************************************************************************)
(* They may first add what the object is to refer to.                      *)
OtherSaves(i, o) ==
    /\ changes < MaxChanges /\ o.kind = store[i].kind
    /\ store' = [store EXCEPT ![i] = o]
    /\ refs' = [k \in DOMAIN refs |-> refs[k] \cup {x[2] : x \in {y \in Named(o) : y[1] = k}}]
    /\ changes' = changes + 1
    /\ UNCHANGED <<rows, lists, refresh, dialog, portal, fills>>

OtherDeletes(k, v) ==
    /\ changes < MaxChanges /\ v \in refs[k]
    /\ \A i \in Ids : <<k, v>> \notin Named(store[i])
    /\ refs' = [refs EXCEPT ![k] = @ \ {v}]
    /\ changes' = changes + 1
    /\ UNCHANGED <<store, rows, lists, refresh, dialog, portal, fills>>

OtherCreates(k, v) ==
    /\ changes < MaxChanges /\ v \in Lists[k] \ refs[k]
    /\ refs' = [refs EXCEPT ![k] = @ \cup {v}]
    /\ changes' = changes + 1
    /\ UNCHANGED <<store, rows, lists, refresh, dialog, portal, fills>>

(***************************************************************************)
(* refresh: the answers to its calls are as old as each call; the objects, *)
(* access lists and certificates must be there, providers and sites that   *)
(* cannot be loaded are taken for none.                                    *)
(***************************************************************************)
RefreshBegins ==
    /\ refresh.at = "no"
    /\ refresh' = [at |-> "lists", store |-> store, refs |-> refs]
    /\ UNCHANGED <<store, refs, rows, lists, dialog, portal, fills, changes>>

RefreshFails ==
    /\ refresh.at = "lists"
    /\ refresh' = NoRefresh
    /\ UNCHANGED <<store, refs, rows, lists, dialog, portal, fills, changes>>

(* later: the calls that were answered after what others changed meanwhile *)
RefreshLists(later, noProviders) ==
    LET read(k) == IF k \in later THEN refs[k] ELSE refresh.refs[k] IN
    /\ refresh.at = "lists"
    /\ \A k \in later : IF k = "store" THEN store # refresh.store ELSE refs[k] # refresh.refs[k]
    /\ lists' = [lists EXCEPT !.acl = read("acl"), !.cert = read("cert"),
                              !.prov = IF noProviders THEN {} ELSE read("prov")]
    /\ refresh' = [refresh EXCEPT !.at = "sites", !.refs = <<>>,
                                  !.store = IF "store" \in later THEN store ELSE @]
    /\ UNCHANGED <<store, refs, rows, dialog, portal, fills, changes>>

(* loadWGSites follows, and then the page is drawn.                        *)
RefreshRows(noSites) ==
    /\ refresh.at = "sites"
    /\ lists' = [lists EXCEPT !.site = IF noSites THEN {} ELSE refs.site]
    /\ rows' = refresh.store
    /\ refresh' = NoRefresh
    /\ UNCHANGED <<store, refs, dialog, portal, fills, changes>>

(***************************************************************************)
(* The dialog.                                                             *)
(***************************************************************************)
FillForm(o, l) ==
    CASE o.kind = "host" -> FillHost(o, l)
      [] o.kind = "stream" -> FillStream(o, l)
      [] o.kind = "acl" -> FillAcl(o, l)
      [] o.kind = "policy" -> FillPolicy(o, l)
      [] o.kind = "idp" -> FillIdp(o)

ReadForm(f) ==
    CASE f.kind = "host" -> ReadHost(f, portal.block)
      [] f.kind = "stream" -> ReadStream(f)
      [] f.kind = "acl" -> ReadAcl(f)
      [] f.kind = "policy" -> ReadPolicy(f)
      [] f.kind = "idp" -> ReadIdp(f)

(* loadVPNPeople: what the pickers offer.  Each of its two calls may fail  *)
(* by itself, and then there is nothing of that kind.                      *)
Calls == {"site", "peer", "people"}
Got(k, ok) == IF k \in ok THEN refs[k] ELSE {}
People(ok) == [lists EXCEPT !.peer = Got("peer", ok), !.people = Got("people", ok)]

(* Edit: the access list dialog loads sites and people before it shows its *)
(* rules, the host dialog loads people for its portal block afterwards.    *)
(* Nothing of an access list is shown before its loads are done; a second  *)
(* opening meanwhile is AclRowsOwn of WebConsole.                          *)
Open(i, ok) ==
    LET o == rows[i]
        l == IF o.kind = "acl" THEN [People(ok) EXCEPT !.site = Got("site", ok)] ELSE lists
    IN /\ dialog.id = 0 /\ (o.kind # "acl" => ok = {})
       /\ dialog' = [id |-> i, from |-> o, whole |-> Known(Named(o), l),
                     form |-> FillForm(o, l), filled |-> FillForm(o, l)]
       /\ lists' = l
       /\ fills' = IF o.kind = "host" THEN fills \cup {<<i, o>>} ELSE fills
       /\ Cardinality(fills') <= MaxFills
       /\ UNCHANGED <<store, refs, rows, refresh, portal, changes>>

PortalFilled(x, ok) ==
    /\ x \in fills
    /\ fills' = fills \ {x}
    /\ lists' = People(ok)
    /\ portal' = [of |-> x, whole |-> Known(Named(x[2]), lists'), block |-> FillPortalBlock(x[2], lists')]
    /\ UNCHANGED <<store, refs, rows, refresh, dialog, changes>>

(* One control is changed: what it makes of the form.                      *)
Edits(f) ==
    CASE f.kind = "host" ->
            {[f EXCEPT !.type = t] : t \in {"proxy", "vpn-portal"}}
              \cup {[f EXCEPT !.oidcOn = ~@]}
      [] f.kind = "stream" ->
            {[f EXCEPT !.acl = v] : v \in lists.acl \cup {0}}
              \cup {[f EXCEPT !.accept = ~@], [f EXCEPT !.tls = ~@]}
      [] f.kind = "acl" -> {[f EXCEPT !.rules = IF @ = <<>> THEN @ ELSE Tail(@)]}
      [] f.kind = "policy" ->
            UNION {{[f EXCEPT !.subject = w] : w \in KindChanged(f.subject, k, lists)} :
                      k \in IdentityKinds}
      [] OTHER -> {}

Edit(f) ==
    /\ dialog.id # 0 /\ f \in Edits(dialog.form)
    /\ dialog' = [dialog EXCEPT !.form = f]
    /\ UNCHANGED <<store, refs, rows, lists, refresh, portal, fills, changes>>

Close ==
    /\ dialog.id # 0
    /\ dialog' = NoDialog
    /\ UNCHANGED <<store, refs, rows, lists, refresh, portal, fills, changes>>

(* The server: what it refuses of what the dialogs can send, and the       *)
(* secrets it keeps when none is sent.                                     *)
ValidSubject(s) ==
    /\ s.kind = "peer" => s.peer # 0
    /\ s.kind \in IdentityKinds => s.prov # 0
    /\ s.kind \in {"user", "group"} => s.who # ""

(* A user without a password must be one the stored list has.              *)
HasPasswords(users, stored) ==
    \A u \in Elements(users) : u.password # "" \/ u.name \in {v.name : v \in Elements(stored)}

AcceptsHost(h) ==
    /\ h.certMode = "custom" => h.cert # 0
    /\ h.type = "proxy" => h.up.host # ""
    /\ h.type = "vpn-portal" => h.portal.prov # 0 /\ h.portal.enrol # <<>>
    /\ \A e \in Elements(h.portal.enrol) : ValidSubject(e)

AcceptsStream(o) == (o.tls => o.cert # 0) /\ (o.accept => o.trusted # {})

AcceptsAcl(o, stored) ==
    /\ o.rules # <<>> \/ o.users # <<>>
    /\ \A r \in Elements(o.rules) : ValidSubject(r.vpn)
    /\ HasPasswords(o.users, stored.users)

AcceptsPolicy(p) == p.subject.kind \in IdentityKinds /\ ValidSubject(p.subject) /\ p.routes # <<>>

Accepts(i, o) ==
    /\ Known(Named(o), refs)
    /\ o.kind = "host" => AcceptsHost(o)
    /\ o.kind = "stream" => AcceptsStream(o)
    /\ o.kind = "acl" => AcceptsAcl(o, store[i])
    /\ o.kind = "policy" => AcceptsPolicy(o)

Merged(o) ==
    CASE o.kind = "acl" ->
            [o EXCEPT !.users = Mapped(LAMBDA u : [u EXCEPT !.password = "kept"], @)]
      [] o.kind = "idp" -> [o EXCEPT !.secret = "kept"]
      [] OTHER -> o

Save ==
    /\ dialog.id # 0 /\ Accepts(dialog.id, ReadForm(dialog.form)) /\ changes < MaxChanges
    /\ store' = [store EXCEPT ![dialog.id] = Merged(ReadForm(dialog.form))]
    /\ dialog' = NoDialog
    /\ changes' = changes + 1
    /\ UNCHANGED <<refs, rows, lists, refresh, portal, fills>>

(* The switch of a row sends back the whole object the row was drawn from. *)
Toggle(i) ==
    LET o == [rows[i] EXCEPT !.enabled = ~@] IN
    /\ dialog.id = 0 /\ rows[i].kind \in {"host", "stream"} /\ Accepts(i, o)
    /\ changes < MaxChanges
    /\ store' = [store EXCEPT ![i] = o]
    /\ changes' = changes + 1
    /\ UNCHANGED <<refs, rows, lists, refresh, dialog, portal, fills>>

FormsNext ==
    \/ \E i \in Ids, o \in Objects : OtherSaves(i, o)
    \/ \E k \in {"acl", "cert", "prov", "site"} :
          \E v \in Lists[k] : OtherDeletes(k, v) \/ OtherCreates(k, v)
    \/ RefreshBegins \/ RefreshFails
    \/ \E later \in SUBSET {"store", "acl", "cert", "prov"}, b \in BOOLEAN : RefreshLists(later, b)
    \/ \E b \in BOOLEAN : RefreshRows(b)
    \/ \E i \in Ids, ok \in SUBSET Calls : Open(i, ok)
    \/ \E x \in fills, ok \in SUBSET {"peer", "people"} : PortalFilled(x, ok)
    \/ \E f \in Edits(dialog.form) : Edit(f)
    \/ Close \/ Save
    \/ \E i \in Ids : Toggle(i)

FormsSpec == FormsInit /\ [][FormsNext]_formVars

(***************************************************************************)
(* Properties.                                                             *)
(***************************************************************************)
(* What the dialogs have fields for.  The API stores more, and a dialog    *)
(* drops or changes it: pool members and locations by IPv6 address or      *)
(* behind another site than the host, a location's other rewrites, a       *)
(* rule's other allow-lists, groups with a comma, methods without a chip,  *)
(* countries that are not on the list, an HSTS age of zero, a header to    *)
(* remove with a value, a replacement without a rewrite, and what a host   *)
(* or stream keeps from when it was of another type or had other options.  *)
Plainly(names) == names \cap DOMAIN WithComma = {}

OfItsType(h) ==
    /\ h.type # "proxy" =>
          h.pool = <<>> /\ h.locations = <<>> /\ h.rules = <<>> /\ h.oidc = NoOidc
    /\ h.type # "static" => h.root = ""
    /\ h.type # "vpn-portal" => h.portal = NoPortal

HostExpressible(h) ==
    /\ OfItsType(h)
    /\ \A u \in Elements(h.pool) : u.host \notin Unwritable /\ u.via = h.up.via
    /\ \A l \in Elements(h.locations) :
          l.up.host \notin Unwritable /\ l.up.via = h.up.via /\ l.rest = ""
    /\ \A r \in Elements(h.rules) :
          /\ r.methods \subseteq Verbs
          /\ r.emails = {} /\ r.pass = (r.prov # 0) /\ Plainly(r.groups)
    /\ Plainly(h.oidc.groups)
    /\ h.hsts.maxAge # 0
    /\ h.rewrite.strip = "" => h.rewrite = NoRewrite
    /\ \A w \in Elements(h.headers) : w.op = "remove" => w.value = ""

Expressible(o) ==
    CASE o.kind = "host" -> HostExpressible(o)
      [] o.kind = "stream" -> (o.acl # 0 => o.cidrs = {}) /\ (~o.tls => o.cert = 0)
      [] o.kind = "acl" -> \A r \in Elements(o.rules) :
                              r.country \in Countries \cup {""} /\ r.methods \subseteq Verbs
      [] OTHER -> TRUE

(* An option that is on unless stored as off may be stored as on.          *)
Normal(o) == IF o.kind = "host" /\ o.http3 = "on" THEN [o EXCEPT !.http3 = "unset"] ELSE o

Unedited ==
    /\ dialog.id # 0 /\ dialog.form = dialog.filled
    /\ dialog.from.kind = "host" /\ dialog.form.type = "vpn-portal" =>
          portal.of = <<dialog.id, dialog.from>> /\ portal.whole

Sent == Merged(ReadForm(dialog.form))

(* Saving a dialog whose fields are what they were when it opened changes  *)
(* nothing, if every object it refers to was on the lists of the page and  *)
(* the dialog has a field for everything: whatever was switched back and   *)
(* forth before, and whatever others did and the page reloaded meanwhile.  *)
Kept ==
    Unedited /\ dialog.whole /\ Expressible(dialog.from)
        => Sent = Normal(dialog.from)

(* A dialog that was opened with lists that are stale, or could not be     *)
(* loaded, may drop a reference it cannot show.  It never puts another in  *)
(* its place: nothing is sent that the object did not refer to.            *)
NoStrangers == Unedited => Named(Sent) \subseteq Named(dialog.from)

(* Saving a dialog whose fields were not touched leaves its rules with the *)
(* methods they are limited to: a rule without methods is one for all.     *)
(* (It does not hold: a rule for methods without a chip loses its limit.)  *)
RulesNotWidened ==
    Unedited /\ dialog.from.kind \in {"host", "acl"}
        => ({} \in {r.methods : r \in Elements(Sent.rules)}
              => {} \in {r.methods : r \in Elements(dialog.from.rules)})

(* Saving a host whose fields were not touched does not drop the provider  *)
(* it was using.                                                           *)
ProviderKept ==
    Unedited /\ dialog.from.kind = "host" /\ dialog.from.type = "proxy"
             /\ dialog.from.oidc.prov # 0
        => Sent.oidc.prov = dialog.from.oidc.prov
=============================================================================

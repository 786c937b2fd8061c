--------------------------- MODULE WebPages_proofs ---------------------------
(***************************************************************************)
(* Proofs that the properties of WebShell hold for any pages, sections and *)
(* addresses and for a history of any length.                              *)
(*                                                                         *)
(* Everything the page does to the history goes through SetRoute; its      *)
(* lemma says what that leaves behind it.  The address and the page then   *)
(* agree because each way into the pages, and each step inside them, ends  *)
(* in SwitchPage or in a section of the page that is shown, and because no *)
(* step moves the history under the pages without calling popstate.        *)
(*                                                                         *)
(* The second part is about Overview: its timer, the report it shows, the  *)
(* hovered point and the axis of its charts.                               *)
(*                                                                         *)
(* The third part is about WebForms: what a dialog that is opened and      *)
(* saved sends back.  It needs what the server checks of every object it   *)
(* stores, because a select that finds nothing falls back to its first     *)
(* option.                                                                 *)
(***************************************************************************)
EXTENDS WebShell, Overview, WebForms, Integers, SequenceTheorems,
        WellFoundedInduction, TLAPS

SectionNames == {None} \cup UNION {ToSet(Sections[p]) : p \in Sectioned}
\* What an entry of the history can be.
Entries == Addresses \cup [page : Pages, section : SectionNames]

Signing ==
    /\ view \in {"none", "login", "password", "app"}
    /\ ask \in {"none", "boot", "login", "password", "logout"}
    /\ totp \in BOOLEAN
    /\ session \in {"out", "in", "must"}

Frame ==
    /\ page \in Pages
    /\ current \in [Sectioned -> SectionNames]
    /\ \A p \in Sectioned : current[p] \in ToSet(Sections[p]) \cup {None}
    /\ hist \in Seq(Entries)
    /\ pos \in 1 .. Len(hist)

IInv == Signing /\ Frame /\ AddressNamesPage

-----------------------------------------------------------------------------
(* The history.                                                            *)

(* What a new entry behind entry at of a history does to it.               *)
LEMMA Push ==
    ASSUME NEW h \in Seq(Entries), NEW at \in 1 .. Len(h), NEW x \in Entries,
           NEW g, g = Append(SubSeq(h, 1, at), x)
    PROVE  /\ g \in Seq(Entries) /\ Len(g) = at + 1
           /\ \A i \in 1 .. at : g[i] = h[i]
           /\ g[at + 1] = x
<1> DEFINE s == SubSeq(h, 1, at)
<1>1. at \in Nat /\ Len(h) \in Nat /\ 1 <= at /\ at <= Len(h)
  BY LenProperties
<1>2. \A i \in 1 .. at : h[i] \in Entries
  BY <1>1, ElementOfSeq
<1>3. s \in Seq(Entries) /\ Len(s) = at /\ \A i \in 1 .. at : s[i] = h[i]
  BY <1>1, <1>2, SubSeqProperties
<1> HIDE DEF s
<1>4. g = Append(s, x)
  BY DEF s
<1> QED
  BY <1>1, <1>3, <1>4, AppendProperties

(* setRoute: the current entry is the route afterwards, the entries before *)
(* stay, replacing stays on the entry, and a route that is there already   *)
(* changes nothing.                                                        *)
LEMMA SetRouteIs ==
    ASSUME NEW h \in Seq(Entries), NEW at \in 1 .. Len(h), NEW route \in Entries,
           NEW replace \in BOOLEAN, SetRoute(h, at, route, replace)
    PROVE  /\ hist' \in Seq(Entries) /\ pos' \in 1 .. Len(hist')
           /\ hist'[pos'] = route
           /\ pos' >= at /\ pos' \in Nat
           /\ \A i \in 1 .. at - 1 : hist'[i] = h[i]
           /\ replace => pos' = at
           /\ h[at] = route => hist' = h /\ pos' = at
<1>0. at \in Nat /\ Len(h) \in Nat /\ 1 <= at /\ at <= Len(h)
  BY LenProperties
<1>1. CASE h[at] = route
  BY <1>0, <1>1 DEF SetRoute
<1>2. CASE h[at] # route /\ replace
  <2>1. hist' = [h EXCEPT ![at] = route] /\ pos' = at
    BY <1>2 DEF SetRoute
  <2>2. hist' \in Seq(Entries) /\ Len(hist') = Len(h) /\ hist'[at] = route
        /\ \A i \in 1 .. Len(h) : i # at => hist'[i] = h[i]
    BY <2>1, ExceptSeq
  <2> QED
    BY <1>0, <1>2, <2>1, <2>2
<1>3. CASE h[at] # route /\ ~replace
  <2>1. hist' = Append(SubSeq(h, 1, at), route) /\ pos' = at + 1
    BY <1>3 DEF SetRoute
  <2>2. /\ hist' \in Seq(Entries) /\ Len(hist') = at + 1
        /\ \A i \in 1 .. at : hist'[i] = h[i]
        /\ hist'[at + 1] = route
    BY <2>1, Push
  <2> QED
    BY <1>0, <1>3, <2>1, <2>2
<1> QED
  BY <1>1, <1>2, <1>3

-----------------------------------------------------------------------------
(* Pages and sections.                                                     *)

(* The first section of a page is one of its sections.                     *)
LEMMA FirstSection == \A p \in Sectioned : Sections[p][1] \in ToSet(Sections[p])
  BY ShellAssumption DEF ToSet, Sectioned

(* showSection leaves the page on one of its sections: the one asked for,  *)
(* if the page has it.                                                     *)
LEMMA ShowSectionIs ==
    ASSUME Frame, NEW p \in Sectioned, NEW s, current' = ShowSection(p, s)
    PROVE  /\ current' \in [Sectioned -> SectionNames]
           /\ \A q \in Sectioned : current'[q] \in ToSet(Sections[q]) \cup {None}
           /\ s \in ToSet(Sections[p]) => current'[p] = s
<1> DEFINE x == IF s \in ToSet(Sections[p]) THEN s
                ELSE IF current[p] # None THEN current[p] ELSE Sections[p][1]
<1>1. current' = [current EXCEPT ![p] = x]
  BY DEF ShowSection
<1>2. x \in ToSet(Sections[p])
  BY FirstSection DEF Frame
<1>3. ToSet(Sections[p]) \subseteq SectionNames
  BY DEF SectionNames
<1>4. s \in ToSet(Sections[p]) => x = s
  OBVIOUS
<1> HIDE DEF x
<1>5. current \in [Sectioned -> SectionNames]
      /\ \A q \in Sectioned : current[q] \in ToSet(Sections[q]) \cup {None}
  BY DEF Frame
<1> QED
  BY <1>1, <1>2, <1>3, <1>4, <1>5

(* The address of a page is a possible entry.                              *)
LEMMA RouteIsEntry ==
    ASSUME NEW p \in Pages, NEW cur \in [Sectioned -> SectionNames]
    PROVE  Route(p, cur) \in Entries
  BY DEF Route, Entries, SectionNames

(* switchPage, wherever in whatever history it is called: the address is   *)
(* that of the page that is shown, the entries before it stay, replacing   *)
(* stays on the entry, and a page that has the address already changes     *)
(* nothing in the history.                                                 *)
LEMMA SwitchPageIs ==
    ASSUME Frame, NEW p, NEW s, NEW h \in Seq(Entries), NEW at \in 1 .. Len(h),
           NEW replace \in BOOLEAN, SwitchPage(p, s, h, at, replace)
    PROVE  /\ Frame'
           /\ p \in Pages => page' = p
           /\ p \in Sectioned /\ s \in ToSet(Sections[p]) => current'[p] = s
           /\ hist'[pos'] = Route(page', current')
           /\ pos' >= at /\ pos' \in Nat
           /\ \A i \in 1 .. at - 1 : hist'[i] = h[i]
           /\ replace => pos' = at
           /\ h[at] = Route(page', current') => hist' = h /\ pos' = at
<1> DEFINE name == IF p \in Pages THEN p ELSE "overview"
<1>1. name \in Pages /\ (p \in Pages => name = p) /\ Sectioned \subseteq Pages
  BY ShellAssumption
<1>2. /\ page' = name
      /\ current' = IF name \in Sectioned THEN ShowSection(name, s) ELSE current
      /\ SetRoute(h, at, Route(name, current'), replace)
  BY DEF SwitchPage
<1> HIDE DEF name
<1>3. /\ current' \in [Sectioned -> SectionNames]
      /\ \A q \in Sectioned : current'[q] \in ToSet(Sections[q]) \cup {None}
      /\ name \in Sectioned /\ s \in ToSet(Sections[name]) => current'[name] = s
  <2>1. CASE name \in Sectioned
    BY <1>2, <2>1, ShowSectionIs
  <2>2. CASE name \notin Sectioned
    BY <1>2, <2>2 DEF Frame
  <2> QED
    BY <2>1, <2>2
<1>4. Route(name, current') \in Entries
  BY <1>1, <1>3, RouteIsEntry
<1>5. /\ hist' \in Seq(Entries) /\ pos' \in 1 .. Len(hist')
      /\ hist'[pos'] = Route(name, current')
      /\ pos' >= at /\ pos' \in Nat
      /\ \A i \in 1 .. at - 1 : hist'[i] = h[i]
      /\ replace => pos' = at
      /\ h[at] = Route(name, current') => hist' = h /\ pos' = at
  BY <1>2, <1>4, SetRouteIs
<1> QED
  BY <1>1, <1>2, <1>3, <1>5 DEF Frame

(* An entry is a page and a section.                                       *)
LEMMA AddressParts ==
    \A a \in Entries : a = [page |-> a.page, section |-> a.section]
  BY ShellAssumption DEF Entries

(* Restore: an entry that names a page and a section shows just these and  *)
(* leaves the history as it is; any other entry is corrected in place.     *)
LEMMA RestoreIs ==
    ASSUME Frame, NEW h \in Seq(Entries), NEW at \in 1 .. Len(h), Restore(h, at)
    PROVE  /\ Frame'
           /\ hist'[pos'] = Route(page', current')
           /\ pos' = at
           /\ \A i \in 1 .. at - 1 : hist'[i] = h[i]
           /\ Names(h[at]) => hist' = h /\ Route(page', current') = h[at]
<1> DEFINE a == h[at]
           r == RouteFromHash(a)
<1>1. a \in Entries
  BY ElementOfSeq
<1>2. a = [page |-> a.page, section |-> a.section]
  BY <1>1, AddressParts
<1>3. SwitchPage(r.page, r.section, h, at, TRUE)
  BY DEF Restore
<1>4. /\ Frame'
      /\ r.page \in Pages => page' = r.page
      /\ r.page \in Sectioned /\ r.section \in ToSet(Sections[r.page]) => current'[r.page] = r.section
      /\ hist'[pos'] = Route(page', current')
      /\ \A i \in 1 .. at - 1 : hist'[i] = h[i]
      /\ pos' = at
      /\ h[at] = Route(page', current') => hist' = h
  <2> DEFINE p == r.page
             s == r.section
  <2>1. SwitchPage(p, s, h, at, TRUE) /\ TRUE \in BOOLEAN
    BY <1>3
  <2> HIDE DEF p, s
  <2>2. /\ Frame'
        /\ p \in Pages => page' = p
        /\ p \in Sectioned /\ s \in ToSet(Sections[p]) => current'[p] = s
        /\ hist'[pos'] = Route(page', current')
        /\ \A i \in 1 .. at - 1 : hist'[i] = h[i]
        /\ pos' = at
        /\ h[at] = Route(page', current') => hist' = h
    BY <2>1, SwitchPageIs, ZenonT(60)
  <2> QED
    BY <2>2 DEF p, s
<1>5. ASSUME Names(a) PROVE Route(page', current') = a
  <2> HIDE DEF a
  <2>1. a.page \in Pages /\ a.page # None
    BY <1>5, ShellAssumption DEF Names
  <2>2. r.page = a.page /\ r.section = a.section
    BY <1>2, <2>1 DEF RouteFromHash
  <2>3. page' = a.page
    BY <1>4, <2>1, <2>2
  <2>4. CASE a.page \in Sectioned
    <3>1. current'[a.page] = a.section
      BY <1>4, <1>5, <2>2, <2>4 DEF Names
    <3> QED
      BY <1>2, <2>3, <2>4, <3>1 DEF Route
  <2>5. CASE a.page \notin Sectioned
    BY <1>2, <1>5, <2>3, <2>5 DEF Route, Names
  <2> QED
    BY <2>4, <2>5
<1> QED
  BY <1>4, <1>5

(* The handler of popstate, with the pages shown or hidden behind another  *)
(* view.                                                                   *)
LEMMA PopStateIs ==
    ASSUME Frame, NEW h \in Seq(Entries), NEW at \in 1 .. Len(h), PopState(h, at)
    PROVE  /\ Frame'
           /\ view = "app" => hist'[pos'] = Route(page', current')
           /\ pos' = at
           /\ \A i \in 1 .. at - 1 : hist'[i] = h[i]
           /\ view = "app" /\ Names(h[at]) => hist' = h /\ Route(page', current') = h[at]
<1>1. CASE view = "app"
  BY <1>1, RestoreIs DEF PopState
<1>2. CASE view # "app"
  BY <1>2 DEF PopState, Frame
<1> QED
  BY <1>1, <1>2

-----------------------------------------------------------------------------
(* The steps.                                                              *)

(* Whatever was done to the history, the entries behind the current one    *)
(* are those of before, as far as both go.                                 *)
Behind == \A i \in 1 .. Min({pos, pos'}) - 1 : hist'[i] = hist[i]

(* The smaller of two numbers is one of them.                              *)
LEMMA MinPair ==
    ASSUME NEW a \in Nat, NEW b \in Nat
    PROVE  Min({a, b}) \in Nat /\ Min({a, b}) <= a /\ Min({a, b}) <= b
<1>1. \E x \in {a, b} : \A y \in {a, b} : x =< y
  OBVIOUS
<1>2. Min({a, b}) \in {a, b} /\ \A y \in {a, b} : Min({a, b}) =< y
  BY <1>1 DEF Min
<1> QED
  BY <1>2

(* Entries before the one the history is at, or before a later one, are    *)
(* enough.                                                                 *)
LEMMA BehindKept ==
    ASSUME NEW at \in Nat, NEW a \in Nat, NEW b \in Nat, at >= a \/ at >= b
    PROVE  1 .. Min({a, b}) - 1 \subseteq 1 .. at - 1
  BY MinPair

(* A step that stays on its entry, pushes a new one or travels, and keeps  *)
(* the entries before where it ends up, keeps what is behind.              *)
LEMMA BehindIfKept ==
    ASSUME pos \in Nat, pos' \in Nat, NEW at \in Nat, at >= pos \/ at >= pos',
           \A i \in 1 .. at - 1 : hist'[i] = hist[i]
    PROVE  Behind
<1>1. 1 .. Min({pos, pos'}) - 1 \subseteq 1 .. at - 1
  BY BehindKept
<1> QED
  BY <1>1 DEF Behind

(* The initial state.                                                      *)
LEMMA InitIInv == Init => IInv
<1> SUFFICES ASSUME Init PROVE IInv
  OBVIOUS
<1>1. PICK a \in Addresses : hist = <<a>>
  BY DEF Init
<1>2. hist \in Seq(Entries) /\ Len(hist) = 1
  BY <1>1 DEF Entries
<1>3. current \in [Sectioned -> SectionNames]
      /\ \A p \in Sectioned : current[p] \in ToSet(Sections[p]) \cup {None}
  BY DEF Init, SectionNames
<1>4. page \in Pages /\ pos \in 1 .. Len(hist)
  BY <1>2, ShellAssumption DEF Init
<1>5. Frame
  BY <1>2, <1>3, <1>4 DEF Frame
<1>6. Signing /\ AddressNamesPage
  BY DEF Init, Signing, AddressNamesPage
<1> QED
  BY <1>5, <1>6 DEF IInv

(* The navigation.                                                         *)
LEMMA ClickStep ==
    ASSUME IInv, NEW p \in Pages, NEW s, Click(p, s)
    PROVE  IInv' /\ Behind
<1>1. Frame /\ pos \in Nat /\ pos \in 1 .. Len(hist) /\ hist \in Seq(Entries)
  BY LenProperties DEF IInv, Frame
<1>2. /\ Frame'
      /\ hist'[pos'] = Route(page', current')
      /\ pos' >= pos /\ pos' \in Nat
      /\ \A i \in 1 .. pos - 1 : hist'[i] = hist[i]
  BY <1>1, SwitchPageIs DEF Click
<1>3. Signing'
  BY DEF Click, IInv, Signing
<1>4. Behind
  <2>1. pos \in Nat /\ pos' \in Nat /\ pos >= pos /\ \A i \in 1 .. pos - 1 : hist'[i] = hist[i]
    BY <1>1, <1>2
  <2> QED
    BY <2>1, BehindIfKept
<1> QED
  BY <1>2, <1>3, <1>4 DEF IInv, AddressNamesPage

(* A section of the page that is shown.                                    *)
LEMMA ClickSectionStep ==
    ASSUME IInv, NEW s, ClickSection(s)
    PROVE  IInv' /\ Behind
<1>1. Frame /\ pos \in Nat /\ pos \in 1 .. Len(hist) /\ hist \in Seq(Entries)
  BY LenProperties DEF IInv, Frame
<1>2. /\ page \in Sectioned /\ page \in Pages /\ page' = page
      /\ s \in ToSet(Sections[page])
      /\ current' = ShowSection(page, s)
  BY <1>1 DEF ClickSection, Frame
<1>3. /\ current' \in [Sectioned -> SectionNames]
      /\ \A q \in Sectioned : current'[q] \in ToSet(Sections[q]) \cup {None}
      /\ current'[page] = s
  BY <1>1, <1>2, ShowSectionIs
<1>4. [page |-> page, section |-> s] = Route(page', current')
  BY <1>2, <1>3 DEF Route
<1>5. Route(page', current') \in Entries
  BY <1>2, <1>3, RouteIsEntry
<1>6. SetRoute(hist, pos, Route(page', current'), FALSE) /\ FALSE \in BOOLEAN
  BY <1>4 DEF ClickSection
<1>7. /\ hist' \in Seq(Entries) /\ pos' \in 1 .. Len(hist')
      /\ hist'[pos'] = Route(page', current')
      /\ pos' >= pos /\ pos' \in Nat
      /\ \A i \in 1 .. pos - 1 : hist'[i] = hist[i]
  BY <1>1, <1>5, <1>6, SetRouteIs
<1>8. Frame'
  BY <1>2, <1>3, <1>7 DEF Frame
<1>9. Signing'
  BY DEF ClickSection, IInv, Signing
<1>10. Behind
  <2>1. pos \in Nat /\ pos' \in Nat /\ pos >= pos /\ \A i \in 1 .. pos - 1 : hist'[i] = hist[i]
    BY <1>1, <1>7
  <2> QED
    BY <2>1, BehindIfKept
<1> QED
  BY <1>7, <1>8, <1>9, <1>10 DEF IInv, AddressNamesPage

(* Back, Forward and the list of entries.                                  *)
LEMMA TravelStep ==
    ASSUME IInv, NEW at \in DOMAIN hist, Travel(at)
    PROVE  /\ IInv' /\ Behind /\ pos' = at
           /\ view = "app" /\ Names(hist[at]) => hist' = hist /\ Route(page', current') = hist[at]
<1>1. Frame /\ pos \in Nat /\ at \in Nat /\ at \in 1 .. Len(hist) /\ hist \in Seq(Entries)
  BY LenProperties DEF IInv, Frame
<1>2. /\ Frame'
      /\ view = "app" => hist'[pos'] = Route(page', current')
      /\ pos' = at
      /\ \A i \in 1 .. at - 1 : hist'[i] = hist[i]
      /\ view = "app" /\ Names(hist[at]) => hist' = hist /\ Route(page', current') = hist[at]
  BY <1>1, PopStateIs DEF Travel
<1>3. Signing' /\ view' = view
  BY DEF Travel, IInv, Signing
<1>4. Behind
  <2>1. pos' \in Nat /\ at >= pos' /\ \A i \in 1 .. at - 1 : hist'[i] = hist[i]
    BY <1>1, <1>2
  <2> QED
    BY <1>1, <2>1, BehindIfKept
<1> QED
  BY <1>2, <1>3, <1>4 DEF IInv, AddressNamesPage

(* An address that is typed, or comes from a bookmark.                     *)
LEMMA TypeAddressStep ==
    ASSUME IInv, NEW a \in Addresses, TypeAddress(a)
    PROVE  IInv' /\ Behind
<1> DEFINE g == Append(SubSeq(hist, 1, pos), a)
<1>1. Frame /\ pos \in Nat /\ pos \in 1 .. Len(hist) /\ hist \in Seq(Entries) /\ a \in Entries
  BY LenProperties DEF IInv, Frame, Entries
<1>2. PopState(g, pos + 1)
  BY DEF TypeAddress
<1>3. g \in Seq(Entries) /\ Len(g) = pos + 1 /\ \A i \in 1 .. pos : g[i] = hist[i]
  BY <1>1, Push
<1> HIDE DEF g
<1>4. pos + 1 \in 1 .. Len(g) /\ pos + 1 \in Nat /\ (pos + 1) - 1 = pos
  BY <1>1, <1>3
<1>5. /\ Frame'
      /\ view = "app" => hist'[pos'] = Route(page', current')
      /\ pos' = pos + 1
      /\ \A i \in 1 .. (pos + 1) - 1 : hist'[i] = g[i]
  BY <1>1, <1>2, <1>3, <1>4, PopStateIs
<1>6. \A i \in 1 .. (pos + 1) - 1 : hist'[i] = hist[i]
  BY <1>3, <1>4, <1>5
<1>7. Signing' /\ view' = view
  BY DEF TypeAddress, IInv, Signing
<1>8. Behind
  <2>1. pos' \in Nat /\ pos + 1 >= pos' /\ pos + 1 \in Nat
    BY <1>4, <1>5
  <2> QED
    BY <1>1, <1>6, <2>1, BehindIfKept
<1> QED
  BY <1>5, <1>7, <1>8 DEF IInv, AddressNamesPage

(* A step that leaves the history alone keeps what is behind.              *)
LEMMA BehindIfUnchanged ==
    ASSUME Frame, UNCHANGED <<hist, pos>>
    PROVE  Behind
  BY DEF Behind

(* The end of a sign-in.                                                   *)
LEMMA AfterLoginStep ==
    ASSUME IInv, Signing', NEW must, AfterLogin(must)
    PROVE  IInv' /\ Behind
<1>1. Frame /\ pos \in Nat /\ pos \in 1 .. Len(hist) /\ hist \in Seq(Entries)
  BY LenProperties DEF IInv, Frame
<1>2. CASE must
  <2>1. view' = "password" /\ UNCHANGED <<page, current, hist, pos>>
    BY <1>2 DEF AfterLogin
  <2> QED
    BY <1>1, <2>1, BehindIfUnchanged DEF IInv, Frame, AddressNamesPage
<1>3. CASE ~must
  <2>1. view' = "app" /\ Restore(hist, pos)
    BY <1>3 DEF AfterLogin
  <2>2. /\ Frame'
        /\ hist'[pos'] = Route(page', current')
        /\ pos' = pos
        /\ \A i \in 1 .. pos - 1 : hist'[i] = hist[i]
    BY <1>1, <2>1, RestoreIs
  <2>3. Behind
    <3>1. pos \in Nat /\ pos' \in Nat /\ pos >= pos /\ \A i \in 1 .. pos - 1 : hist'[i] = hist[i]
      BY <1>1, <2>2
    <3> QED
      BY <3>1, BehindIfKept
  <2> QED
    BY <2>2, <2>3 DEF IInv, AddressNamesPage
<1> QED
  BY <1>2, <1>3

(* A new password leads to the overview.                                   *)
LEMMA PasswordDoneStep ==
    ASSUME IInv, PasswordDone
    PROVE  IInv' /\ Behind
<1>1. Frame /\ pos \in Nat /\ pos \in 1 .. Len(hist) /\ hist \in Seq(Entries)
  BY LenProperties DEF IInv, Frame
<1>2. /\ Frame'
      /\ hist'[pos'] = Route(page', current')
      /\ pos' >= pos /\ pos' \in Nat
      /\ \A i \in 1 .. pos - 1 : hist'[i] = hist[i]
  BY <1>1, SwitchPageIs, ZenonT(60) DEF PasswordDone
<1>3. Signing'
  BY DEF PasswordDone, IInv, Signing, None
<1>4. Behind
  <2>1. pos \in Nat /\ pos' \in Nat /\ pos >= pos /\ \A i \in 1 .. pos - 1 : hist'[i] = hist[i]
    BY <1>1, <1>2
  <2> QED
    BY <2>1, BehindIfKept
<1> QED
  BY <1>2, <1>3, <1>4 DEF IInv, AddressNamesPage

(* Every step that shows no page, or leaves the page and the address as    *)
(* they are.                                                               *)
LEMMA AsideStep ==
    ASSUME IInv, Signing', UNCHANGED <<hist, pos>>,
           \/ UNCHANGED <<page, current>> /\ (view' # "app" \/ view' = view)
           \/ view' # "app" /\ page' = "overview" /\ current' = [p \in Sectioned |-> None]
    PROVE  IInv' /\ Behind
<1>1. Frame
  BY DEF IInv
<1>2. Frame'
  BY ShellAssumption DEF IInv, Frame, SectionNames
<1>3. AddressNamesPage'
  BY DEF IInv, AddressNamesPage
<1> QED
  BY <1>1, <1>2, <1>3, BehindIfUnchanged DEF IInv

(* Every step.                                                             *)
LEMMA NextStep ==
    ASSUME IInv, Next
    PROVE  IInv' /\ Behind
<1> USE DEF None
<1>1. CASE \E p \in Pages : \E s \in {None} \cup UNION {ToSet(Sections[q]) : q \in {p} \cap Sectioned} :
               Click(p, s)
  BY <1>1, ClickStep
<1>2. CASE page \in Sectioned /\ \E s \in ToSet(Sections[page]) : ClickSection(s)
  BY <1>2, ClickSectionStep
<1>3. CASE \E at \in DOMAIN hist : Travel(at)
  BY <1>3, TravelStep
<1>4. CASE \E a \in Addresses : TypeAddress(a)
  BY <1>4, TypeAddressStep
<1>5. CASE Reload
  BY <1>5, AsideStep DEF Reload, IInv, Signing
<1>6. CASE BootDone
  <2>1. Signing'
    BY <1>6 DEF BootDone, AfterLogin, IInv, Signing
  <2> QED
    BY <1>6, <2>1, AfterLoginStep DEF BootDone
<1>7. CASE BootFailed
  BY <1>7, AsideStep DEF BootFailed, IInv, Signing
<1>8. CASE Submit("login", "login") \/ Submit("password", "password") \/ Submit("app", "logout")
  BY <1>8, AsideStep DEF Submit, IInv, Signing
<1>9. CASE \E worth \in {"in", "must"} : LoginDone(worth)
  <2> PICK worth \in {"in", "must"} : LoginDone(worth)
    BY <1>9
  <2>1. Signing'
    BY DEF LoginDone, AfterLogin, IInv, Signing
  <2> QED
    BY <2>1, AfterLoginStep DEF LoginDone
<1>10. CASE TotpRequired
  BY <1>10, AsideStep DEF TotpRequired, IInv, Signing
<1>11. CASE PasswordDone
  BY <1>11, PasswordDoneStep
<1>12. CASE Refused
  BY <1>12, AsideStep DEF Refused, IInv, Signing
<1>13. CASE \E reached \in BOOLEAN : LogoutDone(reached)
  BY <1>13, AsideStep DEF LogoutDone, IInv, Signing
<1>14. CASE SessionEnds
  BY <1>14, AsideStep DEF SessionEnds, IInv, Signing
<1> QED
  BY <1>1, <1>2, <1>3, <1>4, <1>5, <1>6, <1>7, <1>8, <1>9, <1>10, <1>11, <1>12, <1>13, <1>14 DEF Next

(* The inductive invariant.                                                *)
LEMMA Invariance == Spec => []IInv
<1>1. IInv /\ [Next]_vars => IInv'
  <2> SUFFICES ASSUME IInv, [Next]_vars PROVE IInv'
    OBVIOUS
  <2>1. CASE Next
    BY <2>1, NextStep
  <2>2. CASE UNCHANGED vars
    BY <2>2 DEF vars, IInv, Signing, Frame, AddressNamesPage
  <2> QED
    BY <2>1, <2>2
<1> QED
  BY <1>1, InitIInv, PTL DEF Spec

-----------------------------------------------------------------------------
(* The type invariant: a page is never on a section of another one, and    *)
(* the history has a current entry.                                        *)
THEOREM TypeCorrect == Spec => []TypeOK
<1>1. IInv => TypeOK
  <2> SUFFICES ASSUME IInv PROVE TypeOK
    OBVIOUS
  <2>1. DOMAIN hist = 1 .. Len(hist)
    BY LenProperties DEF IInv, Frame
  <2> QED
    BY <2>1 DEF IInv, Signing, Frame, TypeOK
<1> QED
  BY <1>1, Invariance, PTL

(* While the pages are shown the address names the page and the section    *)
(* that is shown, for any addresses that people type or have bookmarked.   *)
THEOREM AddressNamesPageHolds == Spec => []AddressNamesPage
<1>1. IInv => AddressNamesPage
  BY DEF IInv
<1> QED
  BY <1>1, Invariance, PTL

(* Back returns to the page before, in a history of any length: no step    *)
(* changes an entry behind the current one, and going back leaves the      *)
(* entry the person was on.                                                *)
THEOREM BackReturnsHolds == Spec => BackReturns
<1> DEFINE Returns ==
      /\ \A i \in 1 .. Min({pos, pos'}) - 1 : hist'[i] = hist[i]
      /\ \A at \in 1 .. pos - 1 : Travel(at) =>
           /\ pos' = at
           /\ view = "app" /\ Names(hist[at])
                => hist' = hist /\ Route(page', current') = hist[at]
<1>1. IInv /\ [Next]_vars => [Returns]_vars
  <2> SUFFICES ASSUME IInv, Next PROVE Returns
    OBVIOUS
  <2>1. \A i \in 1 .. Min({pos, pos'}) - 1 : hist'[i] = hist[i]
    BY NextStep DEF Behind
  <2>2. ASSUME NEW at \in 1 .. pos - 1, Travel(at)
        PROVE  /\ pos' = at
               /\ view = "app" /\ Names(hist[at])
                    => hist' = hist /\ Route(page', current') = hist[at]
    <3>1. at \in DOMAIN hist
      BY LenProperties DEF IInv, Frame
    <3> QED
      BY <2>2, <3>1, TravelStep
  <2> QED
    BY <2>1, <2>2
<1> QED
  BY <1>1, Invariance, PTL DEF Spec, BackReturns

-----------------------------------------------------------------------------
(***************************************************************************)
(* The overview.  The loads on their way are of any number and may be      *)
(* answered in any order.                                                  *)
(***************************************************************************)
\* What a load is.
Loads == [st : {"free", "traffic", "state"}, range : Ranges \cup {"none"}, reschedules : BOOLEAN]

\* What keeps the overview loading: at most one timer is set.
Polls == /\ range \in Ranges
         /\ load \in [Tids -> Loads]
         /\ timers \in {0, 1}

(* No step sets a second timer: ovSchedule clears the one that is set, and *)
(* a timer that fires is gone before anything is scheduled.                *)
LEMMA PollsStep == Polls /\ [OvNext]_ovVars => Polls'
<1> SUFFICES ASSUME Polls, [OvNext]_ovVars PROVE Polls'
  OBVIOUS
<1> USE DEF Polls
<1>1. ASSUME NEW t \in Tids, NEW r \in Ranges, NEW b \in BOOLEAN, OvLoadTraffic(t, r, b)
      PROVE load' \in [Tids -> Loads]
  BY <1>1 DEF OvLoadTraffic, Loads
<1>2. ASSUME NEW t \in Tids, Finish(t)
      PROVE load' \in [Tids -> Loads]
  <2>1. load[t] \in Loads
    OBVIOUS
  <2> QED BY <1>2, <2>1 DEF Finish, Free, Loads
<1>3. CASE LeavePage \/ HideTab \/ UNCHANGED ovVars
  BY <1>3 DEF LeavePage, HideTab, ovVars
<1>4. CASE ToggleTable
  BY <1>4 DEF ToggleTable
<1>5. ASSUME NEW t \in Tids, ShowOverview(t) PROVE Polls'
  BY <1>5, <1>1 DEF ShowOverview
<1>6. ASSUME NEW t \in Tids, ShowTab(t) PROVE Polls'
  <2>1. load' \in [Tids -> Loads]
    BY <1>6, <1>1 DEF ShowTab
  <2> QED BY <1>6, <2>1 DEF ShowTab
<1>7. ASSUME NEW t \in Tids, TimerFires(t) PROVE Polls'
  <2>1. timers' \in {0, 1}
    <3>1. timers = 1
      BY <1>7 DEF TimerFires
    <3>2. CASE open /\ ~hidden
      <4>1. timers' = timers - 1
        BY <1>7, <3>2 DEF TimerFires
      <4> QED BY <3>1, <4>1
    <3>3. CASE ~(open /\ ~hidden)
      <4>1. OvSchedule(timers - 1)
        BY <1>7, <3>3, Zenon DEF TimerFires
      <4> QED BY <3>1, <4>1 DEF OvSchedule
    <3> QED BY <3>2, <3>3
  <2>2. load' \in [Tids -> Loads]
    BY <1>7, <1>1 DEF TimerFires
  <2> QED BY <1>7, <2>1, <2>2 DEF TimerFires
<1>8. ASSUME NEW t \in Tids, NEW r \in Ranges, OvSetRange(t, r) PROVE Polls'
  <2>1. timers' \in {0, 1}
    BY <1>8 DEF OvSetRange, OvSchedule
  <2>2. load' \in [Tids -> Loads]
    BY <1>8, <1>1 DEF OvSetRange
  <2> QED BY <1>8, <2>1, <2>2 DEF OvSetRange
<1>9. ASSUME NEW t \in Tids, NEW rep \in Reports, Answered(t, rep) PROVE Polls'
  BY <1>9, <1>2 DEF Answered
<1>10. ASSUME NEW t \in Tids, Failed(t) PROVE Polls'
  BY <1>10, <1>2 DEF Failed
<1>11. ASSUME NEW t \in Tids, StateLoaded(t) PROVE Polls'
  BY <1>11 DEF StateLoaded, OvSchedule, Free, Loads
<1>12. ASSUME NEW c \in Charted, ClearHover(c) \/ \E i \in 0 .. chart[c].points : SetIndex(c, i) PROVE Polls'
  BY <1>12 DEF ClearHover, SetIndex
<1> QED
  BY <1>3, <1>4, <1>5, <1>6, <1>7, <1>8, <1>9, <1>10, <1>11, <1>12 DEF OvNext, AnswerOf

(* However loads, changes of the range, of the page and of the tab follow  *)
(* one another, and however many loads are on their way at once, at most   *)
(* one timer of the overview is set (ovSchedule in app.js).                *)
THEOREM OneTimerHolds == OvSpec => []OneTimer
<1>1. OvInit => Polls
  BY DEF OvInit, Polls, Loads, Free
<1>2. Polls => OneTimer
  BY DEF Polls, OneTimer
<1> QED
  BY <1>1, <1>2, PollsStep, PTL DEF OvSpec

(* An answer for a range that was left meanwhile is not shown, and the one *)
(* for the range that is chosen is still on its way.                       *)
LEMMA ReportStep == Polls /\ ReportOfRange /\ [OvNext]_ovVars => ReportOfRange'
<1> SUFFICES ASSUME Polls, ReportOfRange, [OvNext]_ovVars PROVE ReportOfRange'
  OBVIOUS
<1> USE DEF Polls, ReportOfRange
<1>1. ASSUME NEW t \in Tids, NEW r \in Ranges, NEW b \in BOOLEAN, OvLoadTraffic(t, r, b)
      PROVE /\ load'[t].st = "traffic" /\ load'[t].range = r
            /\ \A u \in Tids : load[u].st = "traffic" => load'[u] = load[u]
  BY <1>1 DEF OvLoadTraffic, Loads
<1>2. ASSUME NEW t \in Tids, Finish(t)
      PROVE \A u \in Tids \ {t} : load'[u] = load[u]
  BY <1>2 DEF Finish
<1>3. CASE LeavePage \/ HideTab \/ UNCHANGED ovVars
  BY <1>3 DEF LeavePage, HideTab, ovVars
<1>4. CASE ToggleTable
  BY <1>4 DEF ToggleTable
<1>5. ASSUME NEW t \in Tids, ShowOverview(t) PROVE ReportOfRange'
  BY <1>5, <1>1 DEF ShowOverview
<1>6. ASSUME NEW t \in Tids, ShowTab(t) PROVE ReportOfRange'
  BY <1>6, <1>1 DEF ShowTab
<1>7. ASSUME NEW t \in Tids, TimerFires(t) PROVE ReportOfRange'
  BY <1>7, <1>1 DEF TimerFires
<1>8. ASSUME NEW t \in Tids, NEW r \in Ranges, OvSetRange(t, r) PROVE ReportOfRange'
  BY <1>8, <1>1 DEF OvSetRange
<1>9. ASSUME NEW t \in Tids, NEW rep \in Reports, Answered(t, rep) PROVE ReportOfRange'
  <2>1. CASE load[t].range = range
    BY <2>1, <1>9 DEF Answered
  <2>2. CASE load[t].range # range
    BY <2>2, <1>9, <1>2 DEF Answered
  <2> QED BY <2>1, <2>2
<1>10. ASSUME NEW t \in Tids, Failed(t) PROVE ReportOfRange'
  BY <1>10 DEF Failed
<1>11. ASSUME NEW t \in Tids, StateLoaded(t) PROVE ReportOfRange'
  <2>1. \A u \in Tids \ {t} : load'[u] = load[u]
    BY <1>11 DEF StateLoaded
  <2>2. UNCHANGED <<range, report>> /\ load[t].st = "state"
    BY <1>11 DEF StateLoaded
  <2>3. CASE error' = error
    BY <2>1, <2>2, <2>3
  <2>4. CASE error' = TRUE
    BY <2>4
  <2> QED BY <1>11, <2>3, <2>4 DEF StateLoaded
<1>12. ASSUME NEW c \in Charted, ClearHover(c) \/ \E i \in 0 .. chart[c].points : SetIndex(c, i) PROVE ReportOfRange'
  BY <1>12 DEF ClearHover, SetIndex
<1> QED
  BY <1>3, <1>4, <1>5, <1>6, <1>7, <1>8, <1>9, <1>10, <1>11, <1>12 DEF OvNext, AnswerOf

(* What the overview shows is of the range that is chosen, unless that     *)
(* range is still loading or the page says that loading failed: for any    *)
(* ranges and reports, and any number of loads that are answered in any    *)
(* order (ovLoadTraffic in app.js).                                        *)
THEOREM ReportOfRangeHolds == OvSpec => []ReportOfRange
<1>1. OvInit => Polls /\ ReportOfRange
  BY DEF OvInit, Polls, Loads, Free, ReportOfRange
<1> QED
  BY <1>1, PollsStep, ReportStep, PTL DEF OvSpec

(* Points in groups make a group at least.                                 *)
LEMMA GroupsExist == ASSUME NEW n \in Nat \ {0}, NEW g \in Nat \ {0} PROVE Groups(n, g) \in Nat \ {0}
<1>1. n + g - 1 \in Nat /\ n + g - 1 >= g
  OBVIOUS
<1>2. \A a \in Nat : a >= g => a \div g \in Nat \ {0}
  <2> TAKE a \in Nat
  <2> HAVE a >= g
  <2>1. a \div g \in Nat /\ a = g * (a \div g) + (a % g) /\ a % g \in 0 .. g - 1
    OBVIOUS
  <2> QED BY <2>1
<1> QED BY <1>1, <1>2 DEF Groups

(* The smaller of two.                                                     *)
LEMMA MinOfTwo == ASSUME NEW a \in Int, NEW b \in Int
  PROVE Min({a, b}) \in {a, b} /\ Min({a, b}) <= a /\ Min({a, b}) <= b
<1>1. \E x \in {a, b} : \A y \in {a, b} : x <= y
  BY SMT
<1> QED BY <1>1 DEF Min

\* The hovered point of each chart is one of its points, or none.
Hovering == /\ range \in Ranges
            /\ report \in Reports \cup {NoReport}
            /\ \A c \in Charted : chart[c].points \in Nat
            /\ idx \in [Charted -> Nat \cup {Null}]
            /\ HoverInRange

(* Drawing other data keeps the hovered point within what is drawn.        *)
LEMMA RenderKeeps ==
  ASSUME Hovering, NEW rep \in Reports, OvRenderCharts(rep)
  PROVE /\ \A c \in Charted : chart'[c].points \in Nat
        /\ idx' \in [Charted -> Nat \cup {Null}]
        /\ HoverInRange'
<1> DEFINE d == Drawn[range][rep]
<1>1. d = [line |-> Grouped(rep, Line[range]), columns |-> Grouped(rep, Columns[range])]
  BY DEF Hovering, Drawn
<1>2. \A g \in Nat \ {0} : Grouped(rep, g).points \in Nat \ {0}
  BY GroupsExist, OverviewAssumption DEF Grouped
<1>3. \A c \in Charted : d[c].points \in Nat \ {0}
  BY <1>1, <1>2, OverviewAssumption DEF Hovering, Charted
<1> HIDE DEF d
<1>4. /\ chart' = d
      /\ idx' = [c \in Charted |->
            IF idx[c] = Null \/ d[c].points = 0 THEN idx[c]
            ELSE Min({idx[c], d[c].points - 1})]
  BY DEF OvRenderCharts, Update, d
<1>5. ASSUME NEW c \in Charted
      PROVE  idx'[c] \in Nat \cup {Null} /\ (idx'[c] # Null => idx'[c] < d[c].points)
  <2>1. CASE idx[c] = Null
    BY <2>1, <1>4
  <2>2. CASE idx[c] # Null
    <3>1. idx[c] \in Nat /\ d[c].points - 1 \in Nat
      BY <1>3, <2>2 DEF Hovering
    <3>2. idx'[c] = Min({idx[c], d[c].points - 1})
      BY <1>3, <1>4, <2>2
    <3>a. idx[c] \in Int /\ d[c].points - 1 \in Int
      BY <3>1
    <3>b. /\ Min({idx[c], d[c].points - 1}) \in {idx[c], d[c].points - 1}
          /\ Min({idx[c], d[c].points - 1}) <= d[c].points - 1
      BY <3>a, MinOfTwo, Zenon
    <3>3. idx'[c] \in {idx[c], d[c].points - 1} /\ idx'[c] <= d[c].points - 1
      BY <3>2, <3>b, Zenon
    <3> QED BY <1>3, <3>1, <3>3
  <2> QED BY <2>1, <2>2
<1> QED
  BY <1>3, <1>4, <1>5 DEF HoverInRange

(* Every step does.                                                        *)
LEMMA HoverStep == Hovering /\ [OvNext]_ovVars => Hovering'
<1> SUFFICES ASSUME Hovering, [OvNext]_ovVars PROVE Hovering'
  OBVIOUS
<1>1. CASE UNCHANGED <<range, report, chart, idx>>
  BY <1>1 DEF Hovering, HoverInRange
<1>2. ASSUME NEW t \in Tids, NEW r \in Ranges, OvSetRange(t, r) PROVE Hovering'
  BY <1>2 DEF OvSetRange, Hovering, HoverInRange
<1>3. CASE ToggleTable
  <2>1. report \in Reports /\ OvRenderCharts(report) /\ UNCHANGED <<range, report>>
    BY <1>3 DEF ToggleTable, Hovering
  <2> QED BY <2>1, RenderKeeps DEF Hovering
<1>4. ASSUME NEW t \in Tids, NEW rep \in Reports, Answered(t, rep) PROVE Hovering'
  <2>1. CASE load[t].range # range
    BY <1>4, <2>1, <1>1 DEF Answered
  <2>2. CASE load[t].range = range
    <3>1. report' = rep /\ OvRenderCharts(rep) /\ UNCHANGED range
      BY <1>4, <2>2 DEF Answered
    <3> QED BY <3>1, RenderKeeps DEF Hovering
  <2> QED BY <2>1, <2>2
<1>5. ASSUME NEW c \in Charted, NEW i \in 0 .. chart[c].points, SetIndex(c, i) PROVE Hovering'
  <2>1. i \in Nat /\ i < chart[c].points
    BY <1>5 DEF SetIndex, Hovering
  <2> QED BY <1>5, <2>1 DEF SetIndex, Hovering, HoverInRange
<1>6. ASSUME NEW c \in Charted, ClearHover(c) PROVE Hovering'
  BY <1>6 DEF ClearHover, Hovering, HoverInRange
<1>7. CASE \/ LeavePage \/ HideTab \/ UNCHANGED ovVars
          \/ \E t \in Tids : ShowOverview(t) \/ ShowTab(t) \/ TimerFires(t) \/ Failed(t) \/ StateLoaded(t)
  BY <1>7, <1>1 DEF LeavePage, HideTab, ovVars, ShowOverview, ShowTab, TimerFires, Failed, StateLoaded
<1> QED
  BY <1>2, <1>3, <1>4, <1>5, <1>6, <1>7, Zenon DEF OvNext, AnswerOf

(* The point a chart has under the pointer or the keyboard is one of those *)
(* it shows, also when a report with fewer points, or another range,       *)
(* replaced the one it was chosen in (update in charts.js): for any        *)
(* reports that have points and any grouping of them.                      *)
THEOREM HoverInRangeHolds == OvSpec => []HoverInRange
<1>1. OvInit => Hovering
  BY DEF OvInit, Hovering, HoverInRange, Blank, Null
<1>2. Hovering => HoverInRange
  BY DEF Hovering
<1>3. Hovering /\ [OvNext]_ovVars => Hovering'
  BY HoverStep
<1> QED BY <1>1, <1>2, <1>3, PTL DEF OvSpec

-----------------------------------------------------------------------------
(* The axis.                                                               *)

(* The power of ten at or below a number.                                  *)
LEMMA Magnitude ==
    ASSUME NEW raw \in Nat, NEW m \in Powers, m <= raw, raw < 10 * m
    PROVE  Max({p \in Powers : p <= raw}) = m
<1> DEFINE S == {p \in Powers : p <= raw}
<1>1. m \in S
  OBVIOUS
<1>2. \A p \in S : p <= m
  <2> SUFFICES ASSUME NEW p \in Powers, p < 10 * m PROVE p <= m
    BY SMT DEF Powers
  <2> QED BY SMT DEF Powers
<1>3. S \subseteq Int
  BY SMT DEF Powers
<1>4. \A x \in S : (\A y \in S : x >= y) => x = m
  BY <1>1, <1>2, <1>3
<1>5. Max(S) = CHOOSE x \in S : \A y \in S : x >= y
  BY DEF Max
<1>6. \E x \in S : \A y \in S : x >= y
  BY <1>1, <1>2, <1>3
<1> HIDE DEF S
<1>7. Max(S) = m
  BY <1>4, <1>5, <1>6, Zenon
<1> QED BY <1>7 DEF S

(* A step below the maximum and at least a quarter of it: two to four of   *)
(* them reach the maximum, and no more than needed.                        *)
LEMMA Steps ==
    ASSUME NEW max \in Nat, NEW step \in Nat \ {0}, step < max, max <= 4 * step,
           NEW k, k = (max + step - 1) \div step
    PROVE  k \in 2 .. 4 /\ max <= k * step /\ k * step - max < step /\ (k * step) \div step = k
<1>1. k \in Int /\ max + step - 1 = step * k + ((max + step - 1) % step)
         /\ (max + step - 1) % step \in 0 .. step - 1
  OBVIOUS
<1>2. step * k = k * step
  BY <1>1
<1>3. max <= k * step /\ k * step - max < step
  BY <1>1, <1>2
<1>4. k > 1
  <2> SUFFICES ASSUME k <= 1 PROVE FALSE
    BY <1>1
  <2>1. k * step <= step
    BY <1>1
  <2> QED BY <2>1, <1>3
<1>5. k < 5
  <2> SUFFICES ASSUME k >= 5 PROVE FALSE
    BY <1>1
  <2>1. k * step >= 5 * step
    BY <1>1
  <2> QED BY <2>1, <1>3
<1>6. (k * step) \div step = k
  BY <1>1
<1> QED BY <1>1, <1>3, <1>4, <1>5, <1>6

(* The axis of a maximum whose quarter lies between a power of ten and the *)
(* next.                                                                   *)
LEMMA ScaleOfMagnitude ==
    ASSUME NEW v \in Nat \ {0}, NEW m \in Powers, m <= 25 * v, 25 * v < 10 * m,
           NEW s, s = NiceScale(100 * v, 4)
    PROVE  100 * v <= s.max /\ s.max - 100 * v < s.step /\ s.max \div s.step \in 2 .. 4
<1> DEFINE raw == 25 * v
           step == (IF raw > 5 * m THEN 10 ELSE IF raw > 2 * m THEN 5 ELSE IF raw > m THEN 2 ELSE 1) * m
           k == (100 * v + step - 1) \div step
<1>1. (100 * v) \div 4 = raw
  OBVIOUS
<1>2. Max({p \in Powers : p <= raw}) = m
  BY Magnitude
<1>3. m \in Nat \ {0}
  BY SMT DEF Powers
<1>4. step \in Nat \ {0} /\ step < 100 * v /\ 100 * v <= 4 * step
  BY <1>3
<1>5. s = [max |-> k * step, step |-> step]
  <2>1. ~(100 * v <= 0)
    BY SMT
  <2> QED BY <1>1, <1>2, <2>1, ZenonT(60) DEF NiceScale
<1> DEFINE max == 100 * v
<1>m. max \in Nat /\ step < max /\ max <= 4 * step
  BY <1>4
<1>k. k = (max + step - 1) \div step
  OBVIOUS
<1> HIDE DEF step, max, k
<1>n. k \in 2 .. 4 /\ max <= k * step /\ k * step - max < step /\ (k * step) \div step = k
  BY <1>4, <1>m, <1>k, Steps, Zenon
<1>6. k \in 2 .. 4 /\ 100 * v <= k * step /\ k * step - 100 * v < step /\ (k * step) \div step = k
  BY <1>n DEF max
<1> QED BY <1>5, <1>6

(* The axis niceScale chooses for a largest value of v is high enough for  *)
(* it, by less than one step, and has two to four steps: for every v below *)
(* 400000 (niceScale in charts.js).  This is the scale in AxisFits.        *)
THEOREM NiceScaleFits ==
    ASSUME NEW v \in Nat, 0 < v, v < 400000, NEW s, s = NiceScale(100 * v, 4)
    PROVE  100 * v <= s.max /\ s.max - 100 * v < s.step /\ s.max \div s.step \in 2 .. 4
<1>1. \E m \in Powers : m <= 25 * v /\ 25 * v < 10 * m
  BY SMT DEF Powers
<1>2. v \in Nat \ {0}
  BY SMT
<1> QED BY <1>1, <1>2, ScaleOfMagnitude, SMT

-----------------------------------------------------------------------------
(* The forms.                                                              *)

(* A set of natural numbers that is not empty has a least one: what every  *)
(* induction below is made of.                                             *)
LEMMA Least == ASSUME NEW T \in SUBSET Nat, T # {} PROVE \E x \in T : \A y \in T : x <= y
<1> DEFINE R == OpToRel(<, Nat)
<1>1. IsWellFoundedOn(R, Nat)
  BY NatLessThanWellFounded
<1>2. \A x \in Nat, y \in Nat : <<y, x>> \in R <=> y < x
  BY DEF OpToRel
<1> HIDE DEF R
<1>3. \E x \in T : \A y \in T : ~(<<y, x>> \in R)
  BY <1>1, WFMin
<1>4. PICK x \in T : \A y \in T : ~(<<y, x>> \in R)
  BY <1>3
<1>5. \A y \in T : ~(y < x)
  BY <1>2, <1>4, Zenon
<1>6. \A y \in T : x <= y
  BY <1>5
<1> QED BY <1>6

(* Induction over the natural numbers, with a set for the property.        *)
LEMMA NatInd ==
  ASSUME NEW S, 0 \in S, \A n \in Nat : n \in S => n + 1 \in S
  PROVE  Nat \subseteq S
<1> SUFFICES ASSUME Nat \ S # {} PROVE FALSE
  OBVIOUS
<1>1. PICK x \in Nat \ S : \A y \in Nat \ S : x <= y
  BY Least
<1>2. x # 0 /\ x - 1 \in Nat /\ ~(x <= x - 1)
  OBVIOUS
<1>3. x - 1 \in S
  BY <1>1, <1>2
<1>4. (x - 1) + 1 \in S
  BY <1>2, <1>3
<1> QED BY <1>4

IsSeq(s) == s \in Seq(Elements(s))

(* The rows Where has kept after the first n.                              *)
Collected(f, s, S, n) ==
  /\ f \in [0..n -> Seq(Elements(s))]
  /\ f[0] = << >>
  /\ \A i \in 1..n : f[i] = IF s[i] \in S THEN Append(f[i-1], s[i]) ELSE f[i-1]

(* A sequence of anything is a sequence of its own elements.               *)
LEMMA SeqIs ==
  ASSUME NEW T, NEW s \in Seq(T)
  PROVE  /\ IsSeq(s) /\ Len(s) \in Nat /\ DOMAIN s = 1..Len(s)
         /\ Elements(s) \subseteq T
<1>1. Len(s) \in Nat /\ DOMAIN s = 1..Len(s) /\ s \in [1..Len(s) -> T]
  BY LenProperties
<1>2. s \in [1..Len(s) -> Elements(s)] /\ Elements(s) \subseteq T
  BY <1>1 DEF Elements
<1> HIDE DEF Elements
<1>3. s \in Seq(Elements(s))
  BY <1>1, <1>2, SeqDef
<1> QED BY <1>1, <1>2, <1>3 DEF IsSeq

(* A list built row by row from a list is a list again.                    *)
LEMMA FcnIsSeq ==
  ASSUME NEW s, IsSeq(s), NEW g, g = [n \in DOMAIN s |-> g[n]]
  PROVE  IsSeq(g)
<1>1. Len(s) \in Nat /\ DOMAIN s = 1..Len(s)
  BY SeqIs DEF IsSeq
<1>2. g \in [1..Len(s) -> Elements(g)]
  BY <1>1 DEF Elements
<1> HIDE DEF Elements
<1>3. g \in Seq(Elements(g))
  BY <1>1, <1>2, SeqDef
<1> QED BY <1>3 DEF IsSeq

(* The rows Where keeps can be collected over any list: by induction over  *)
(* its length.                                                             *)
LEMMA CollectedExists ==
  ASSUME NEW s, IsSeq(s), NEW S
  PROVE  \E f : Collected(f, s, S, Len(s))
<1> DEFINE E == Elements(s)
           A == {n \in Nat : n <= Len(s) => \E f : Collected(f, s, S, n)}
<1>0. Len(s) \in Nat /\ s \in Seq(E) /\ \A i \in 1..Len(s) : s[i] \in E
  BY SeqIs DEF IsSeq, Elements
<1>1. 0 \in A
  <2>1. << >> \in Seq(E)
    OBVIOUS
  <2>2. Collected([i \in 0..0 |-> << >>], s, S, 0)
    BY <2>1 DEF Collected
  <2> QED BY <2>2
<1>2. ASSUME NEW n \in Nat, n \in A PROVE n + 1 \in A
  <2> SUFFICES ASSUME n + 1 <= Len(s) PROVE \E f : Collected(f, s, S, n + 1)
    OBVIOUS
  <2>1. PICK f : Collected(f, s, S, n)
    BY <1>0, <1>2
  <2> DEFINE x == s[n+1]
             last == IF x \in S THEN Append(f[n], x) ELSE f[n]
             g == [i \in 0..n+1 |-> IF i = n + 1 THEN last ELSE f[i]]
  <2>2. x \in E
    BY <1>0
  <2>3. f[n] \in Seq(E) /\ \A i \in 0..n : f[i] \in Seq(E)
    BY <2>1 DEF Collected
  <2>4. last \in Seq(E)
    BY <2>2, <2>3, AppendProperties
  <2>5. g \in [0..n+1 -> Seq(E)]
    BY <2>3, <2>4
  <2>6. \A i \in 0..n : g[i] = f[i]
    OBVIOUS
  <2>7. g[n+1] = last
    OBVIOUS
  <2> HIDE DEF g
  <2>8. ASSUME NEW i \in 1..n+1
        PROVE  g[i] = IF s[i] \in S THEN Append(g[i-1], s[i]) ELSE g[i-1]
    <3>1. CASE i = n + 1
      <4>0. i - 1 = n /\ n \in 0..n
        BY <3>1
      <4>1. g[i-1] = f[n]
        BY <2>6, <4>0
      <4> QED BY <4>1, <3>1, <2>7
    <3>2. CASE i # n + 1
      <4>1. i \in 1..n /\ i - 1 \in 0..n /\ i \in 0..n
        BY <3>2
      <4>2. f[i] = IF s[i] \in S THEN Append(f[i-1], s[i]) ELSE f[i-1]
        BY <4>1, <2>1 DEF Collected
      <4>3. g[i] = f[i] /\ g[i-1] = f[i-1]
        BY <4>1, <2>6
      <4> QED BY <4>2, <4>3
    <3> QED BY <3>1, <3>2
  <2>9. g[0] = << >>
    BY <2>6, <2>1 DEF Collected
  <2>10. Collected(g, s, S, n + 1)
    BY <2>5, <2>8, <2>9 DEF Collected
  <2> QED BY <2>10
<1> HIDE DEF A
<1>3. Nat \subseteq A
  BY <1>1, <1>2, NatInd, ZenonT(60)
<1> QED BY <1>0, <1>3 DEF A

(* Where is what the collecting ends in: its recursive function is that    *)
(* one, row by row.                                                        *)
LEMMA WhereCollects ==
  ASSUME NEW s, IsSeq(s), NEW S
  PROVE  \E f : Collected(f, s, S, Len(s)) /\ Where(s, S) = f[Len(s)]
<1> DEFINE G(f) == [n \in 0..Len(s) |-> IF n = 0 THEN << >>
                       ELSE IF s[n] \in S THEN Append(f[n-1], s[n]) ELSE f[n-1]]
           k == CHOOSE f : f = G(f)
<1>0. Len(s) \in Nat
  BY SeqIs DEF IsSeq
<1>1. PICK f : Collected(f, s, S, Len(s))
  BY CollectedExists
<1>2. f = G(f)
  <2>1. f = [n \in 0..Len(s) |-> f[n]]
    BY <1>1 DEF Collected
  <2>2. \A n \in 0..Len(s) : f[n] = IF n = 0 THEN << >>
                       ELSE IF s[n] \in S THEN Append(f[n-1], s[n]) ELSE f[n-1]
    <3> TAKE n \in 0..Len(s)
    <3>1. CASE n = 0
      BY <3>1, <1>1 DEF Collected
    <3>2. CASE n # 0
      <4>1. n \in 1..Len(s)
        BY <1>0, <3>2
      <4> QED BY <3>2, <4>1, <1>1 DEF Collected
    <3> QED BY <3>1, <3>2
  <2> QED BY <2>1, <2>2
<1>3. k = G(k)
  BY <1>2
<1>4. Where(s, S) = k[Len(s)]
  BY DEF Where
<1> HIDE DEF k
<1>5. ASSUME NEW n \in 0..Len(s)
      PROVE  k[n] = IF n = 0 THEN << >>
                    ELSE IF s[n] \in S THEN Append(k[n-1], s[n]) ELSE k[n-1]
  <2> DEFINE h == G(k)
  <2>1. h[n] = IF n = 0 THEN << >>
               ELSE IF s[n] \in S THEN Append(k[n-1], s[n]) ELSE k[n-1]
    OBVIOUS
  <2> HIDE DEF h
  <2>2. k = h
    BY <1>3 DEF h
  <2>3. k[n] = h[n]
    BY <2>2
  <2> QED BY <2>1, <2>3
<1> DEFINE A == {n \in Nat : n <= Len(s) => k[n] = f[n]}
<1>6. 0 \in A
  BY <1>0, <1>1, <1>5 DEF Collected
<1>7. ASSUME NEW n \in Nat, n \in A PROVE n + 1 \in A
  <2> SUFFICES ASSUME n + 1 <= Len(s) PROVE k[n+1] = f[n+1]
    OBVIOUS
  <2>1. k[n] = f[n] /\ n + 1 \in 1..Len(s) /\ n + 1 \in 0..Len(s) /\ (n + 1) - 1 = n /\ n + 1 # 0
    BY <1>0, <1>7
  <2>2. /\ f[n+1] = IF s[n+1] \in S THEN Append(f[(n+1)-1], s[n+1]) ELSE f[(n+1)-1]
        /\ k[n+1] = IF s[n+1] \in S THEN Append(k[(n+1)-1], s[n+1]) ELSE k[(n+1)-1]
    BY <2>1, <1>1, <1>5 DEF Collected
  <2> QED BY <2>1, <2>2
<1> HIDE DEF A
<1>8. Nat \subseteq A
  BY <1>6, <1>7, NatInd, ZenonT(60)
<1>9. k[Len(s)] = f[Len(s)]
  BY <1>0, <1>8 DEF A
<1> QED BY <1>1, <1>4, <1>9

(* What Where returns is a list, of rows it was given and of rows it was   *)
(* to keep.  Every read of a table of rows (.filter in app.js) goes        *)
(* through it.                                                             *)
LEMMA WhereIs ==
  ASSUME NEW s, IsSeq(s), NEW S
  PROVE  /\ IsSeq(Where(s, S))
         /\ Elements(Where(s, S)) \subseteq Elements(s) \cap S
<1> DEFINE E == Elements(s) \cap S
<1>0. Len(s) \in Nat /\ \A i \in 1..Len(s) : s[i] \in Elements(s)
  BY SeqIs DEF IsSeq, Elements
<1>1. PICK f : Collected(f, s, S, Len(s)) /\ Where(s, S) = f[Len(s)]
  BY WhereCollects
<1> DEFINE A == {n \in Nat : n <= Len(s) => f[n] \in Seq(E)}
<1>2. 0 \in A
  <2>1. << >> \in Seq(E)
    OBVIOUS
  <2> QED BY <2>1, <1>1 DEF Collected
<1>3. ASSUME NEW n \in Nat, n \in A PROVE n + 1 \in A
  <2> SUFFICES ASSUME n + 1 <= Len(s) PROVE f[n+1] \in Seq(E)
    OBVIOUS
  <2>1. f[n] \in Seq(E) /\ n + 1 \in 1..Len(s) /\ (n + 1) - 1 = n
    BY <1>0, <1>3
  <2>2. f[n+1] = IF s[n+1] \in S THEN Append(f[(n+1)-1], s[n+1]) ELSE f[(n+1)-1]
    BY <2>1, <1>1 DEF Collected
  <2>3. CASE s[n+1] \in S
    <3>1. s[n+1] \in E
      BY <1>0, <2>1, <2>3
    <3>2. f[n+1] = Append(f[n], s[n+1])
      BY <2>1, <2>2, <2>3
    <3> HIDE DEF E
    <3> QED BY <2>1, <3>1, <3>2, AppendProperties
  <2>4. CASE s[n+1] \notin S
    BY <2>1, <2>2, <2>4
  <2> QED BY <2>3, <2>4
<1> HIDE DEF A, E
<1>4. Nat \subseteq A
  BY <1>2, <1>3, NatInd, ZenonT(60)
<1>5. Where(s, S) \in Seq(E)
  BY <1>0, <1>1, <1>4 DEF A
<1>6. IsSeq(Where(s, S)) /\ Elements(Where(s, S)) \subseteq E
  BY <1>5, SeqIs
<1> QED BY <1>6 DEF E

(* A filter that every row passes returns the table it was given: by       *)
(* induction over its rows.                                                *)
LEMMA WhereAll ==
  ASSUME NEW s, IsSeq(s), NEW S, Elements(s) \subseteq S
  PROVE  Where(s, S) = s
<1> DEFINE E == Elements(s)
<1>0. Len(s) \in Nat /\ s \in Seq(E) /\ \A i \in 1..Len(s) : s[i] \in E /\ s[i] \in S
  BY SeqIs DEF IsSeq, Elements
<1>1. PICK f : Collected(f, s, S, Len(s)) /\ Where(s, S) = f[Len(s)]
  BY WhereCollects
<1> DEFINE A == {n \in Nat : n <= Len(s) =>
                   f[n] \in Seq(E) /\ Len(f[n]) = n /\ \A i \in 1..n : f[n][i] = s[i]}
<1>2. 0 \in A
  <2> DEFINE e == << >>
  <2>1. e \in Seq(E) /\ Len(e) = 0
    OBVIOUS
  <2>2. f[0] = e
    BY <1>1 DEF Collected
  <2> HIDE DEF e, E
  <2>3. f[0] \in Seq(E) /\ Len(f[0]) = 0 /\ \A i \in 1..0 : f[0][i] = s[i]
    BY <2>1, <2>2
  <2> QED BY <2>3
<1>3. ASSUME NEW n \in Nat, n \in A PROVE n + 1 \in A
  <2> SUFFICES ASSUME n + 1 <= Len(s)
               PROVE  f[n+1] \in Seq(E) /\ Len(f[n+1]) = n + 1 /\ \A i \in 1..n+1 : f[n+1][i] = s[i]
    OBVIOUS
  <2> DEFINE g == f[n]
             x == s[n+1]
  <2>1. /\ g \in Seq(E) /\ Len(g) = n /\ \A i \in 1..n : g[i] = s[i]
        /\ n + 1 \in 1..Len(s) /\ (n + 1) - 1 = n
    BY <1>0, <1>3
  <2>2. f[n+1] = IF s[n+1] \in S THEN Append(f[(n+1)-1], s[n+1]) ELSE f[(n+1)-1]
    BY <2>1, <1>1 DEF Collected
  <2>3. x \in E /\ f[n+1] = Append(g, x)
    BY <1>0, <2>1, <2>2
  <2> HIDE DEF g, x, E
  <2>4. /\ Append(g, x) \in Seq(E) /\ Len(Append(g, x)) = n + 1
        /\ \A i \in 1..n : Append(g, x)[i] = g[i]
        /\ Append(g, x)[n+1] = x
    BY <2>1, <2>3, AppendProperties
  <2>5. \A i \in 1..n+1 : Append(g, x)[i] = s[i]
    BY <2>1, <2>4 DEF x
  <2> QED BY <2>3, <2>4, <2>5
<1> HIDE DEF A
<1>4. Nat \subseteq A
  BY <1>2, <1>3, NatInd, ZenonT(60)
<1> DEFINE w == f[Len(s)]
<1>5. w \in Seq(E) /\ Len(w) = Len(s) /\ \A i \in 1..Len(s) : w[i] = s[i]
  BY <1>0, <1>4 DEF A
<1> HIDE DEF w, E
<1>6. w = s
  BY <1>0, <1>5, SeqEqual
<1> QED BY <1>1, <1>6 DEF w
-----------------------------------------------------------------------------
(* What the server has checked of everything it stores, as far as the      *)
(* dialogs rely on it: a rule by access list has its list                  *)
(* (validateAuthRules in store.go), a portal has its provider, and the     *)
(* subject of a policy or of an access rule names what its kind needs      *)
(* (VPNSubject.Validate in vpn.go).                                        *)
Has(o, fields) == fields \subseteq DOMAIN o

StoredHost(o) ==
  /\ Has(o, {"kind", "type", "rules", "portal"})
  /\ IsSeq(o.rules)
  /\ \A r \in Elements(o.rules) : r.mode = "accessList" => r.acl # 0
  /\ IsSeq(o.portal.enrol)
  /\ o.type = "vpn-portal" => o.portal.prov # 0
StoredStream(o) == Has(o, {"kind", "via", "acl", "cert", "cidrs", "trusted", "enabled"})
StoredAcl(o) ==
  /\ Has(o, {"kind", "rules", "users"})
  /\ IsSeq(o.rules)
  /\ \A r \in Elements(o.rules) : ValidSubject(r.vpn)
StoredPolicy(o) ==
  /\ Has(o, {"kind", "subject", "routes"})
  /\ o.subject.kind # "" /\ ValidSubject(o.subject)
StoredIdp(o) == Has(o, {"kind", "secret"})

Stored(o) ==
  \/ o.kind = "host" /\ StoredHost(o)
  \/ o.kind = "stream" /\ StoredStream(o)
  \/ o.kind = "acl" /\ StoredAcl(o)
  \/ o.kind = "policy" /\ StoredPolicy(o)
  \/ o.kind = "idp" /\ StoredIdp(o)

(* A select shows the option it was given or, when that is not among its   *)
(* options, the empty one.                                                 *)
LEMMA SelectIs == ASSUME NEW options, NEW v PROVE Select(options, v) \in {v, 0}
BY DEF Select

(* What the subject picker (makeSubjectPicker and its value) sends back    *)
(* names the provider and the peer it was made from, or none, unless it    *)
(* shows a first provider of its own accord, and that only for a subject   *)
(* that names no identity and is sent without one.                         *)
LEMMA SubjectRead ==
  ASSUME NEW cur, NEW l, NEW only \in BOOLEAN, NEW w, w = MakeSubjectPicker(cur, l, only),
         NEW prov, NEW r, r = ReadSubject(w, prov)
  PROVE  /\ r.prov \in {prov, 0} /\ r.peer \in {cur.peer, 0}
         /\ ValidSubject(cur) /\ (only => cur.kind # "") /\ prov = w.prov
              => r.prov \in {cur.prov, 0}
<1>1. /\ w.kind = IF cur.kind # "" THEN cur.kind ELSE IF only THEN "group" ELSE "any"
      /\ w.prov = IF cur.prov # 0 THEN Select(l.prov, cur.prov) ELSE First(l.prov)
      /\ w.peer = Select(l.peer, cur.peer)
  BY DEF MakeSubjectPicker
<1>2. /\ r.prov = IF w.kind \in IdentityKinds THEN prov ELSE 0
      /\ r.peer = IF w.kind = "peer" THEN w.peer ELSE 0
  BY DEF ReadSubject
<1>3. r.prov \in {prov, 0} /\ r.peer \in {cur.peer, 0}
  BY <1>1, <1>2, SelectIs
<1>4. ASSUME ValidSubject(cur), only => cur.kind # "", prov = w.prov
      PROVE  r.prov \in {cur.prov, 0}
  <2>1. CASE cur.prov # 0
    BY <1>1, <1>3, <1>4, <2>1, SelectIs
  <2>2. CASE cur.prov = 0
    <3>1. cur.kind \notin IdentityKinds
      BY <1>4, <2>2 DEF ValidSubject
    <3>2. w.kind \notin IdentityKinds
      BY <1>1, <1>4, <3>1 DEF IdentityKinds
    <3> QED BY <1>2, <3>2
  <2> QED BY <2>1, <2>2
<1> QED BY <1>3, <1>4

(* The stream dialog (openStreamModal and its submit) sends no name the    *)
(* stream did not have.                                                    *)
LEMMA StreamNames ==
  ASSUME NEW o, o.kind = "stream", StoredStream(o), NEW l,
         NEW f, f = FillStream(o, l), NEW r, r = ReadStream(f)
  PROVE  Named(r) \subseteq Named(o)
<1>1. /\ f.kind = "stream" /\ f.via \in {o.via, 0} /\ f.acl \in {o.acl, 0} /\ f.cert \in {o.cert, 0}
      /\ Has(f, {"kind", "via", "acl", "cert", "cidrs", "trusted", "enabled"})
  BY SelectIs DEF FillStream, FillViaSelect, StoredStream, Has
<1>2. r.kind = "stream" /\ r.via = f.via /\ r.acl = f.acl /\ r.cert \in {f.cert, 0}
  BY <1>1 DEF ReadStream, Has
<1>3. Named(r) = {x \in {<<"acl", r.acl>>, <<"cert", r.cert>>, <<"site", r.via>>} : x[2] # 0}
  BY <1>2 DEF Named
<1>4. Named(o) = {x \in {<<"acl", o.acl>>, <<"cert", o.cert>>, <<"site", o.via>>} : x[2] # 0}
  BY DEF Named
<1> QED BY <1>1, <1>2, <1>3, <1>4

(* The policy dialog sends no name the policy did not have.                *)
LEMMA PolicyNames ==
  ASSUME NEW o, o.kind = "policy", StoredPolicy(o), NEW l,
         NEW f, f = FillPolicy(o, l), NEW r, r = ReadPolicy(f)
  PROVE  Named(r) \subseteq Named(o)
<1> DEFINE w == MakeSubjectPicker(o.subject, l, TRUE)
           q == ReadSubject(w, w.prov)
<1>1. f.kind = "policy" /\ f.subject = w /\ Has(f, {"kind", "subject", "routes"})
  BY DEF FillPolicy, StoredPolicy, Has
<1>2. r.kind = "policy" /\ r.subject = q
  BY <1>1 DEF ReadPolicy, Has
<1>3. q.prov \in {o.subject.prov, 0} /\ q.peer \in {o.subject.peer, 0}
  <2>1. w = MakeSubjectPicker(o.subject, l, TRUE) /\ q = ReadSubject(w, w.prov)
    OBVIOUS
  <2>2. ValidSubject(o.subject) /\ o.subject.kind # ""
    BY DEF StoredPolicy
  <2> HIDE DEF w, q
  <2> QED BY <2>1, <2>2, SubjectRead
<1> HIDE DEF q
<1>4. Named(r) = {x \in {<<"prov", q.prov>>, <<"peer", q.peer>>} : x[2] # 0}
  BY <1>2 DEF Named, SubjectNames
<1>5. Named(o) = {x \in {<<"prov", o.subject.prov>>, <<"peer", o.subject.peer>>} : x[2] # 0}
  BY DEF Named, SubjectNames
<1> QED BY <1>3, <1>4, <1>5

(* A row that is left after the filter was built from a stored row.        *)
LEMMA RowsFrom ==
  ASSUME NEW s, IsSeq(s), NEW g, g = [n \in DOMAIN s |-> g[n]], NEW S
  PROVE  \A x \in Elements(Where(g, S)) : x \in S /\ \E n \in DOMAIN s : x = g[n]
<1>1. IsSeq(g)
  BY FcnIsSeq
<1>2. Elements(Where(g, S)) \subseteq Elements(g) \cap S
  BY <1>1, WhereIs
<1>3. \A x \in Elements(g) : \E n \in DOMAIN s : x = g[n]
  BY DEF Elements
<1> QED BY <1>2, <1>3

(* A row of a list that is built row by row has the stored row it comes    *)
(* from.                                                                   *)
LEMMA ElementsOf ==
  ASSUME NEW s, NEW v, s = [n \in DOMAIN v |-> s[n]]
  PROVE  \A x \in Elements(s) : \E n \in DOMAIN v : x = s[n] /\ v[n] \in Elements(v)
BY DEF Elements

(* One row of an access list, shown and read back, names no other provider *)
(* or peer.                                                                *)
LEMMA AclRow ==
  ASSUME NEW q, ValidSubject(q.vpn), NEW l, NEW x, x = AddAclRuleRow(q, l)
  PROVE  /\ ReadAclRule(x).vpn.prov \in {q.vpn.prov, 0}
         /\ ReadAclRule(x).vpn.peer \in {q.vpn.peer, 0}
<1> DEFINE w == MakeSubjectPicker(q.vpn, l, FALSE)
           r == ReadSubject(w, w.prov)
<1>6. x.vpn = (IF x.kind = "vpn" THEN w ELSE NoSubject)
  <2> DEFINE kind == CASE q.vpn # NoSubject -> "vpn"
                       [] q.host # "" -> "host"
                       [] q.country # "" -> "country"
                       [] OTHER -> "cidr"
             val == CASE kind = "vpn" -> ""
                      [] kind = "host" -> q.host
                      [] kind = "country" -> IF q.country \in Countries THEN q.country ELSE ""
                      [] kind = "cidr" -> q.cidr
  <2>1. x = [action |-> q.action, kind |-> kind, methods |-> Chips(q.methods),
             vpn |-> IF kind = "vpn" THEN w ELSE NoSubject, val |-> val]
    BY Zenon DEF AddAclRuleRow
  <2> HIDE DEF kind, val, w
  <2> QED BY <2>1
<1>7. ReadAclRule(x).vpn \in {r, NoSubject}
  <2>1. ReadAclRule(x).vpn = IF x.kind = "vpn" THEN ReadSubject(x.vpn, x.vpn.prov) ELSE NoSubject
    BY DEF ReadAclRule
  <2> QED BY <1>6, <2>1
<1>8. r.prov \in {q.vpn.prov, 0} /\ r.peer \in {q.vpn.peer, 0}
  <2>1. w = MakeSubjectPicker(q.vpn, l, FALSE) /\ r = ReadSubject(w, w.prov)
    OBVIOUS
  <2> HIDE DEF w, r
  <2> QED BY <2>1, SubjectRead
<1> HIDE DEF r, w
<1>9. NoSubject.prov = 0 /\ NoSubject.peer = 0
  BY DEF NoSubject
<1>10. CASE ReadAclRule(x).vpn = r
  BY <1>8, <1>10
<1>11. CASE ReadAclRule(x).vpn = NoSubject
  BY <1>9, <1>11
<1> QED BY <1>7, <1>10, <1>11

(* The access list dialog sends no name the list did not have.             *)
LEMMA AclNames ==
  ASSUME NEW o, o.kind = "acl", StoredAcl(o), NEW l,
         NEW f, f = FillAcl(o, l), NEW r, r = Merged(ReadAcl(f))
  PROVE  Named(r) \subseteq Named(o)
<1> DEFINE g == [n \in DOMAIN o.rules |-> AddAclRuleRow(o.rules[n], l)]
           S == {w \in Elements(g) : w.kind = "vpn" \/ w.val # ""}
           v == Where(g, S)
           t == ReadAcl(f)
<1>1. f.kind = "acl" /\ f.rules = g /\ Has(f, {"kind", "rules", "users"})
  BY DEF FillAcl, StoredAcl, Has, Mapped
<1>2. t.kind = "acl" /\ t.rules = [n \in DOMAIN v |-> ReadAclRule(v[n])] /\ Has(t, {"kind", "rules", "users"})
  BY <1>1 DEF ReadAcl, Has, Mapped, Filter
<1>3. r.kind = "acl" /\ r.rules = [n \in DOMAIN v |-> ReadAclRule(v[n])]
  BY <1>2 DEF Merged, Has
<1>4. ASSUME NEW x \in Elements(r.rules)
      PROVE  \E q \in Elements(o.rules) :
                x.vpn.prov \in {q.vpn.prov, 0} /\ x.vpn.peer \in {q.vpn.peer, 0}
  <2>1. g = [n \in DOMAIN o.rules |-> g[n]] /\ v = Where(g, S)
    OBVIOUS
  <2>2. \A n \in DOMAIN o.rules : g[n] = AddAclRuleRow(o.rules[n], l)
    OBVIOUS
  <2>3. IsSeq(o.rules) /\ \A q \in Elements(o.rules) : ValidSubject(q.vpn)
    BY DEF StoredAcl
  <2> HIDE DEF g, S, v
  <2>4. PICK n \in DOMAIN v : x = ReadAclRule(v[n]) /\ v[n] \in Elements(v)
    BY <1>3 DEF Elements
  <2>5. PICK m \in DOMAIN o.rules : v[n] = g[m]
    BY <2>1, <2>3, <2>4, RowsFrom
  <2> DEFINE q == o.rules[m]
  <2>6. q \in Elements(o.rules) /\ ValidSubject(q.vpn) /\ v[n] = AddAclRuleRow(q, l)
    BY <2>2, <2>3, <2>5 DEF Elements
  <2> HIDE DEF q
  <2>7. x.vpn.prov \in {q.vpn.prov, 0} /\ x.vpn.peer \in {q.vpn.peer, 0}
    BY <2>4, <2>6, AclRow
  <2> QED BY <2>6, <2>7
<1> HIDE DEF v
<1>6. Named(r) = {x \in UNION {{<<"prov", q.vpn.prov>>, <<"peer", q.vpn.peer>>} : q \in Elements(r.rules)} : x[2] # 0}
  BY <1>3 DEF Named, SubjectNames
<1>7. Named(o) = {x \in UNION {{<<"prov", q.vpn.prov>>, <<"peer", q.vpn.peer>>} : q \in Elements(o.rules)} : x[2] # 0}
  BY DEF Named, SubjectNames
<1> QED BY <1>4, <1>6, <1>7

(* One auth rule of a host, shown and read back, names no other access     *)
(* list or provider: a rule that gates by an access list has one, so the   *)
(* select never falls back to its first option.                            *)
LEMMA RuleRow ==
  ASSUME NEW q, q.mode = "accessList" => q.acl # 0, NEW l, NEW w, w = AddAuthRuleRow(q, l)
  PROVE  ReadAuthRule(w).acl \in {q.acl, 0} /\ ReadAuthRule(w).prov \in {q.prov, 0}
<1>1. /\ w.mode = q.mode
      /\ w.acl = IF q.acl # 0 THEN Select(l.acl, q.acl) ELSE First(l.acl)
      /\ w.prov = Select(l.prov, q.prov)
  BY DEF AddAuthRuleRow
<1>2. /\ ReadAuthRule(w).acl = IF w.mode = "accessList" THEN w.acl ELSE 0
      /\ ReadAuthRule(w).prov \in {w.prov, 0}
  BY DEF ReadAuthRule
<1> QED BY <1>1, <1>2, SelectIs

(* The enrolment rows of the portal block, read back, name the portal's    *)
(* provider and their own peers, or none.                                  *)
LEMMA EnrolRows ==
  ASSUME NEW o, IsSeq(o.portal.enrol), o.portal.prov # 0, NEW l,
         NEW b, b = FillPortalBlock(o, l), NEW p, p = ReadPortalOptions(b)
  PROVE  /\ p.prov \in {o.portal.prov, 0}
         /\ \A s \in Elements(p.enrol) : \E q \in Elements(o.portal.enrol) :
               s.prov \in {o.portal.prov, 0} /\ s.peer \in {q.peer, 0}
<1> DEFINE enrol == o.portal.enrol
           g == [n \in DOMAIN enrol |-> ReadSubject(MakeSubjectPicker(enrol[n], l, TRUE), b.prov)]
           S == {s \in Elements(g) : s.kind # "group" \/ s.who # ""}
<1>1. o.portal # NoPortal
  <2>1. NoPortal.prov = 0
    BY DEF NoPortal
  <2> QED BY <2>1
<1>2. /\ b.prov = Select(l.prov, o.portal.prov)
      /\ b.enrol = [n \in DOMAIN enrol |-> MakeSubjectPicker(enrol[n], l, TRUE)]
  BY <1>1 DEF FillPortalBlock, Mapped
<1>3. p.prov = b.prov /\ p.enrol = Where(g, S)
  BY <1>2 DEF ReadPortalOptions, Mapped, Filter
<1>4. b.prov \in {o.portal.prov, 0}
  BY <1>2, SelectIs
<1>5. ASSUME NEW s \in Elements(p.enrol)
      PROVE  \E q \in Elements(enrol) : s.prov \in {o.portal.prov, 0} /\ s.peer \in {q.peer, 0}
  <2>1. IsSeq(g)
    <3>1. g = [n \in DOMAIN enrol |-> g[n]]
      OBVIOUS
    <3> HIDE DEF g
    <3> QED BY <3>1, FcnIsSeq
  <2>2. Elements(p.enrol) \subseteq Elements(g)
    <3> HIDE DEF g, S
    <3> QED BY <1>3, <2>1, WhereIs
  <2>3. s \in Elements(g)
    BY <2>2
  <2>4. PICK n \in DOMAIN enrol : s = ReadSubject(MakeSubjectPicker(enrol[n], l, TRUE), b.prov)
    BY <2>3 DEF Elements
  <2>5. enrol[n] \in Elements(enrol)
    BY DEF Elements
  <2>6. s.prov \in {b.prov, 0} /\ s.peer \in {enrol[n].peer, 0}
    BY <2>4, SubjectRead
  <2> QED BY <1>4, <2>5, <2>6
<1> QED BY <1>3, <1>4, <1>5

(* What the submit handler of the host dialog sends, as far as names go,   *)
(* from the form and the portal block it reads.                            *)
LEMMA HostSent ==
  ASSUME NEW f, NEW b, NEW r, r = ReadHost(f, b)
  PROVE  /\ r.kind = "host" /\ r.type = f.type /\ r.acl = f.acl /\ r.cert \in {f.cert, 0}
         /\ r.up.via \in {f.via, 0}
         /\ r.oidc.prov # 0 => f.oidcOn /\ r.oidc.prov = f.oidc.prov
         /\ \A u \in Elements(r.pool) : u.via \in {f.via, 0}
         /\ \A u \in Elements(r.locations) : u.up.via \in {f.via, 0}
         /\ r.rules = IF f.type = "proxy" THEN ReadAuthRules(f.rules) ELSE << >>
         /\ r.portal = IF f.type = "vpn-portal" THEN ReadPortalOptions(b) ELSE NoPortal
<1> DEFINE proxy == f.type = "proxy"
           up == IF proxy THEN ViaOn([host |-> f.up, via |-> 0], f.via) ELSE NoUpstream
           pool == IF proxy THEN Mapped(LAMBDA u : ViaOn(u, f.via), ParsePool(f.pool)) ELSE << >>
           locations == IF ~proxy THEN << >>
                        ELSE Mapped(LAMBDA l : [l EXCEPT !.up = ViaOn(@, f.via)],
                                      ReadLocations(f.locations))
<1>1. /\ r.kind = "host" /\ r.type = f.type /\ r.acl = f.acl /\ r.cert \in {f.cert, 0}
      /\ r.up = up /\ r.pool = pool /\ r.locations = locations /\ r.oidc = ReadOidc(f)
      /\ r.rules = IF f.type = "proxy" THEN ReadAuthRules(f.rules) ELSE << >>
      /\ r.portal = IF f.type = "vpn-portal" THEN ReadPortalOptions(b) ELSE NoPortal
  <2> HIDE DEF up, pool, locations
  <2> QED BY DEF ReadHost, up, pool, locations, proxy
<1>2. \A u : u = [host |-> u.host, via |-> 0] => ViaOn(u, f.via).via \in {f.via, 0}
  <2> TAKE u
  <2> HAVE u = [host |-> u.host, via |-> 0]
  <2>1. u.via = 0 /\ [u EXCEPT !.via = f.via].via = f.via
    OBVIOUS
  <2> QED BY <2>1 DEF ViaOn
<1>3. up.via \in {f.via, 0}
  BY <1>2 DEF NoUpstream
<1>4. \A u \in Elements(pool) : u.via \in {f.via, 0}
  <2>1. CASE proxy
    <3> DEFINE p == ParsePool(f.pool)
    <3>1. \A n \in DOMAIN p : p[n] = [host |-> p[n].host, via |-> 0]
      BY DEF ParsePool, Mapped
    <3>2. pool = [n \in DOMAIN p |-> ViaOn(p[n], f.via)]
      BY <2>1 DEF Mapped
    <3> HIDE DEF p, pool
    <3> QED BY <1>2, <3>1, <3>2 DEF Elements
  <2>2. CASE ~proxy
    BY <2>2 DEF Elements
  <2> QED BY <2>1, <2>2
<1>5. \A u \in Elements(locations) : u.up.via \in {f.via, 0}
  <2>1. CASE proxy
    <3> DEFINE p == ReadLocations(f.locations)
    <3>1. \A n \in DOMAIN p : "up" \in DOMAIN p[n] /\ p[n].up = [host |-> p[n].up.host, via |-> 0]
      BY DEF ReadLocations, Mapped
    <3>2. locations = [n \in DOMAIN p |-> [p[n] EXCEPT !.up = ViaOn(@, f.via)]]
      BY <2>1 DEF Mapped
    <3> HIDE DEF p, locations
    <3>3. ASSUME NEW n \in DOMAIN p PROVE locations[n].up.via \in {f.via, 0}
      <4> DEFINE x == p[n]
                 y == ViaOn(x.up, f.via)
      <4>1. locations[n] = [x EXCEPT !.up = y] /\ "up" \in DOMAIN x
        BY <3>1, <3>2
      <4>2. y.via \in {f.via, 0}
        BY <1>2, <3>1
      <4> HIDE DEF x, y
      <4>3. locations[n].up = y
        BY <4>1
      <4> QED BY <4>2, <4>3
    <3>4. DOMAIN locations = DOMAIN p
      BY <3>2
    <3> QED BY <3>3, <3>4 DEF Elements
  <2>2. CASE ~proxy
    BY <2>2 DEF Elements
  <2> QED BY <2>1, <2>2
<1>6. ReadOidc(f).prov # 0 => f.oidcOn /\ ReadOidc(f).prov = f.oidc.prov
  <2>1. NoOidc.prov = 0
    BY DEF NoOidc
  <2> QED BY <2>1 DEF ReadOidc
<1> HIDE DEF up, pool, locations
<1> QED BY <1>1, <1>3, <1>4, <1>5, <1>6

(* What openHostModal fills in, as far as names go.                        *)
LEMMA HostShown ==
  ASSUME NEW o, NEW l, NEW f, f = FillHost(o, l)
  PROVE  /\ f.kind = "host" /\ f.type = o.type
         /\ f.acl \in {o.acl, 0} /\ f.cert \in {o.cert, 0} /\ f.via \in {o.up.via, 0}
         /\ f.oidcOn = (o.oidc.prov # 0) /\ f.oidc.prov = FillProviderSelect(l, o.oidc.prov)
         /\ f.rules = [n \in DOMAIN o.rules |-> AddAuthRuleRow(o.rules[n], l)]
         /\ Has(f, {"kind", "type", "oidcOn", "rules"})
<1>0. /\ f.kind = "host" /\ f.type = o.type
      /\ f.acl = Select(l.acl, o.acl) /\ f.cert = Select(l.cert, o.cert)
      /\ f.via = FillViaSelect(l, o.up.via)
      /\ f.oidcOn = (o.oidc.prov # 0)
  BY Zenon DEF FillHost
<1>1. f.oidc.prov = FillProviderSelect(l, o.oidc.prov)
  BY Zenon DEF FillHost
<1>3. f.rules = [n \in DOMAIN o.rules |-> AddAuthRuleRow(o.rules[n], l)]
  BY Zenon DEF FillHost, Mapped
<1>4. f.acl \in {o.acl, 0} /\ f.cert \in {o.cert, 0} /\ f.via \in {o.up.via, 0}
  BY <1>0, SelectIs DEF FillViaSelect
<1>2. Has(f, {"kind", "type", "oidcOn", "rules"})
  BY DEF FillHost, Has
<1> QED BY <1>0, <1>1, <1>2, <1>3, <1>4

(* The host dialog sends no name the host did not have, when the portal    *)
(* block it reads is the host's own.                                       *)
LEMMA HostNames ==
  ASSUME NEW o, o.kind = "host", StoredHost(o), NEW l, NEW f, f = FillHost(o, l),
         NEW b, NEW k, f.type = "vpn-portal" => b = FillPortalBlock(o, k),
         NEW r, r = ReadHost(f, b)
  PROVE  Named(r) \subseteq Named(o)
<1> DEFINE g == [n \in DOMAIN o.rules |-> AddAuthRuleRow(o.rules[n], l)]
           S == {w \in Elements(g) : w.path # "" /\ (w.mode = "accessList" => w.acl # 0)}
           v == Where(g, S)
<1>1. /\ f.type = o.type /\ f.acl \in {o.acl, 0} /\ f.cert \in {o.cert, 0} /\ f.via \in {o.up.via, 0}
      /\ f.oidcOn = (o.oidc.prov # 0) /\ f.oidc.prov = FillProviderSelect(l, o.oidc.prov)
      /\ f.rules = g
  BY HostShown
<1>2. ReadAuthRules(g) = [n \in DOMAIN v |-> ReadAuthRule(v[n])]
  BY DEF ReadAuthRules, Mapped, Filter
<1>3. /\ r.kind = "host" /\ r.type = f.type /\ r.acl = f.acl /\ r.cert \in {f.cert, 0}
      /\ r.up.via \in {f.via, 0}
      /\ r.oidc.prov # 0 => f.oidcOn /\ r.oidc.prov = f.oidc.prov
      /\ \A u \in Elements(r.pool) : u.via \in {f.via, 0}
      /\ \A u \in Elements(r.locations) : u.up.via \in {f.via, 0}
      /\ r.rules = IF f.type = "proxy" THEN ReadAuthRules(f.rules) ELSE << >>
      /\ r.portal = IF f.type = "vpn-portal" THEN ReadPortalOptions(b) ELSE NoPortal
  BY HostSent
<1>4. ASSUME NEW x \in Elements(r.rules)
      PROVE  \E q \in Elements(o.rules) : x.acl \in {q.acl, 0} /\ x.prov \in {q.prov, 0}
  <2>0. f.type = "proxy"
    <3> SUFFICES ASSUME r.rules = << >> PROVE FALSE
      BY <1>3
    <3> QED BY DEF Elements
  <2>1. g = [n \in DOMAIN o.rules |-> g[n]] /\ v = Where(g, S)
    OBVIOUS
  <2>2. \A n \in DOMAIN o.rules : g[n] = AddAuthRuleRow(o.rules[n], l)
    OBVIOUS
  <2>3. IsSeq(o.rules) /\ \A q \in Elements(o.rules) : q.mode = "accessList" => q.acl # 0
    BY DEF StoredHost
  <2> HIDE DEF g, S, v
  <2>4. PICK n \in DOMAIN v : x = ReadAuthRule(v[n]) /\ v[n] \in Elements(v)
    BY <1>1, <1>2, <1>3, <2>0 DEF Elements
  <2>5. PICK m \in DOMAIN o.rules : v[n] = g[m]
    BY <2>1, <2>3, <2>4, RowsFrom
  <2> DEFINE q == o.rules[m]
  <2>6. q \in Elements(o.rules) /\ (q.mode = "accessList" => q.acl # 0) /\ v[n] = AddAuthRuleRow(q, l)
    BY <2>2, <2>3, <2>5 DEF Elements
  <2> HIDE DEF q
  <2>7. x.acl \in {q.acl, 0} /\ x.prov \in {q.prov, 0}
    BY <2>4, <2>6, RuleRow
  <2> QED BY <2>6, <2>7
<1>5. /\ r.portal.prov \in {o.portal.prov, 0}
      /\ \A s \in Elements(r.portal.enrol) : \E q \in Elements(o.portal.enrol) :
            s.prov \in {o.portal.prov, 0} /\ s.peer \in {q.peer, 0}
  <2>1. CASE f.type = "vpn-portal"
    <3>1. IsSeq(o.portal.enrol) /\ o.portal.prov # 0
      BY <1>1, <2>1 DEF StoredHost
    <3>2. b = FillPortalBlock(o, k) /\ r.portal = ReadPortalOptions(b)
      BY <1>3, <2>1
    <3> QED BY <3>1, <3>2, EnrolRows
  <2>2. CASE f.type # "vpn-portal"
    <3>1. NoPortal.prov = 0 /\ NoPortal.enrol = << >>
      BY DEF NoPortal
    <3>2. Elements(<< >>) = {}
      BY DEF Elements
    <3> QED BY <1>3, <2>2, <3>1, <3>2
  <2> QED BY <2>1, <2>2
<1>6. r.oidc.prov \in {o.oidc.prov, 0}
  <2>1. o.oidc.prov # 0 => f.oidc.prov = Select(l.prov, o.oidc.prov)
    BY <1>1 DEF FillProviderSelect
  <2>2. r.oidc.prov # 0 => o.oidc.prov # 0 /\ r.oidc.prov = f.oidc.prov
    BY <1>1, <1>3, Zenon
  <2> QED BY <2>1, <2>2, SelectIs
<1>7. r.acl \in {o.acl, 0} /\ r.cert \in {o.cert, 0} /\ r.up.via \in {o.up.via, 0}
  BY <1>1, <1>3
<1>8. /\ \A u \in Elements(r.pool) : u.via \in {o.up.via, 0}
      /\ \A u \in Elements(r.locations) : u.up.via \in {o.up.via, 0}
  BY <1>1, <1>3
<1> DEFINE All(h) == {<<"acl", h.acl>>, <<"cert", h.cert>>, <<"prov", h.oidc.prov>>,
                      <<"site", h.up.via>>, <<"prov", h.portal.prov>>}
                        \cup {<<"acl", q.acl>> : q \in Elements(h.rules)}
                        \cup {<<"prov", q.prov>> : q \in Elements(h.rules)}
                        \cup {<<"site", u.via>> : u \in Elements(h.pool)}
                        \cup {<<"site", u.up.via>> : u \in Elements(h.locations)}
                        \cup UNION {{<<"prov", s.prov>>, <<"peer", s.peer>>} : s \in Elements(h.portal.enrol)}
<1>9. \A h : h.kind = "host" => Named(h) = {x \in All(h) : x[2] # 0}
  BY DEF Named, SubjectNames
<1>10. ASSUME NEW x \in All(r), x[2] # 0 PROVE x \in All(o)
  <2>1. CASE x \in {<<"acl", r.acl>>, <<"cert", r.cert>>, <<"prov", r.oidc.prov>>,
                    <<"site", r.up.via>>, <<"prov", r.portal.prov>>}
    BY <1>5, <1>6, <1>7, <1>10, <2>1
  <2>2. CASE x \in {<<"acl", q.acl>> : q \in Elements(r.rules)} \cup {<<"prov", q.prov>> : q \in Elements(r.rules)}
    BY <1>4, <1>10, <2>2
  <2>3. CASE x \in {<<"site", u.via>> : u \in Elements(r.pool)} \cup {<<"site", u.up.via>> : u \in Elements(r.locations)}
    BY <1>8, <1>10, <2>3
  <2>4. CASE x \in UNION {{<<"prov", s.prov>>, <<"peer", s.peer>>} : s \in Elements(r.portal.enrol)}
    BY <1>5, <1>10, <2>4
  <2> QED BY <2>1, <2>2, <2>3, <2>4
<1> HIDE DEF All
<1> QED BY <1>3, <1>9, <1>10

-----------------------------------------------------------------------------
(* A form that a submit handler can read.                                  *)
FormOK(f) ==
  \/ f.kind = "host" /\ Has(f, {"kind", "type", "oidcOn", "rules"}) /\ IsSeq(f.rules)
  \/ f.kind = "stream" /\ StoredStream(f)
  \/ f.kind = "acl" /\ Has(f, {"kind", "rules", "users"}) /\ IsSeq(f.rules)
  \/ f.kind = "policy" /\ Has(f, {"kind", "subject", "routes"}) /\ f.subject.kind # ""
  \/ f.kind = "idp" /\ StoredIdp(f)

(* Which of the dialogs shows an object.                                   *)
LEMMA FillIs ==
  ASSUME NEW o, Stored(o), NEW l
  PROVE  /\ o.kind = "host" => FillForm(o, l) = FillHost(o, l) /\ StoredHost(o)
         /\ o.kind = "stream" => FillForm(o, l) = FillStream(o, l) /\ StoredStream(o)
         /\ o.kind = "acl" => FillForm(o, l) = FillAcl(o, l) /\ StoredAcl(o)
         /\ o.kind = "policy" => FillForm(o, l) = FillPolicy(o, l) /\ StoredPolicy(o)
         /\ o.kind = "idp" => FillForm(o, l) = FillIdp(o) /\ StoredIdp(o)
         /\ o.kind \in {"host", "stream", "acl", "policy", "idp"}
<1>1. /\ o.kind = "host" => FillForm(o, l) = FillHost(o, l)
      /\ o.kind = "stream" => FillForm(o, l) = FillStream(o, l)
      /\ o.kind = "acl" => FillForm(o, l) = FillAcl(o, l)
      /\ o.kind = "policy" => FillForm(o, l) = FillPolicy(o, l)
      /\ o.kind = "idp" => FillForm(o, l) = FillIdp(o)
  BY DEF FillForm
<1>2. /\ o.kind = "host" => StoredHost(o)
      /\ o.kind = "stream" => StoredStream(o)
      /\ o.kind = "acl" => StoredAcl(o)
      /\ o.kind = "policy" => StoredPolicy(o)
      /\ o.kind = "idp" => StoredIdp(o)
      /\ o.kind \in {"host", "stream", "acl", "policy", "idp"}
  BY DEF Stored
<1> QED BY <1>1, <1>2

(* Which of the submit handlers reads a form.                              *)
LEMMA ReadIs ==
  ASSUME NEW f
  PROVE  /\ f.kind = "host" => ReadForm(f) = ReadHost(f, portal.block)
         /\ f.kind = "stream" => ReadForm(f) = ReadStream(f)
         /\ f.kind = "acl" => ReadForm(f) = ReadAcl(f)
         /\ f.kind = "policy" => ReadForm(f) = ReadPolicy(f)
         /\ f.kind = "idp" => ReadForm(f) = f
BY DEF ReadForm, ReadIdp

(* A form filled from a stored object is well-formed.                      *)
LEMMA FilledOK ==
  ASSUME NEW o, Stored(o), NEW l, NEW f, f = FillForm(o, l)
  PROVE  f.kind = o.kind /\ FormOK(f)
<1>1. CASE o.kind = "host"
  <2>1. f = FillHost(o, l) /\ StoredHost(o)
    BY <1>1, FillIs
  <2> DEFINE g == [n \in DOMAIN o.rules |-> AddAuthRuleRow(o.rules[n], l)]
  <2>2. f.kind = "host" /\ f.rules = g /\ Has(f, {"kind", "type", "oidcOn", "rules"})
    BY <2>1, HostShown
  <2>3. IsSeq(g)
    <3>1. g = [n \in DOMAIN o.rules |-> g[n]]
      OBVIOUS
    <3>2. IsSeq(o.rules)
      BY <2>1 DEF StoredHost
    <3> HIDE DEF g
    <3> QED BY <3>1, <3>2, FcnIsSeq
  <2> QED BY <1>1, <2>2, <2>3 DEF FormOK
<1>2. CASE o.kind = "stream"
  <2>1. f = FillStream(o, l) /\ StoredStream(o)
    BY <1>2, FillIs
  <2>2. f.kind = "stream" /\ StoredStream(f)
    BY <1>2, <2>1 DEF FillStream, StoredStream, Has
  <2> QED BY <1>2, <2>2 DEF FormOK
<1>3. CASE o.kind = "acl"
  <2>1. f = FillAcl(o, l) /\ StoredAcl(o)
    BY <1>3, FillIs
  <2> DEFINE g == [n \in DOMAIN o.rules |-> AddAclRuleRow(o.rules[n], l)]
  <2>2. f.kind = "acl" /\ f.rules = g /\ Has(f, {"kind", "rules", "users"})
    BY <1>3, <2>1 DEF FillAcl, StoredAcl, Has, Mapped
  <2>3. IsSeq(g)
    <3>1. g = [n \in DOMAIN o.rules |-> g[n]]
      OBVIOUS
    <3>2. IsSeq(o.rules)
      BY <2>1 DEF StoredAcl
    <3> HIDE DEF g
    <3> QED BY <3>1, <3>2, FcnIsSeq
  <2> QED BY <1>3, <2>2, <2>3 DEF FormOK
<1>4. CASE o.kind = "policy"
  <2>1. f = FillPolicy(o, l) /\ StoredPolicy(o)
    BY <1>4, FillIs
  <2>2. f.kind = "policy" /\ f.subject = MakeSubjectPicker(o.subject, l, TRUE)
        /\ Has(f, {"kind", "subject", "routes"})
    BY <1>4, <2>1 DEF FillPolicy, StoredPolicy, Has
  <2>3. f.subject.kind # ""
    <3>1. MakeSubjectPicker(o.subject, l, TRUE).kind =
            IF o.subject.kind # "" THEN o.subject.kind ELSE "group"
      BY DEF MakeSubjectPicker
    <3> QED BY <2>2, <3>1
  <2> QED BY <1>4, <2>2, <2>3 DEF FormOK
<1>5. CASE o.kind = "idp"
  <2>1. f = FillIdp(o) /\ StoredIdp(o)
    BY <1>5, FillIs
  <2>2. f.kind = "idp" /\ StoredIdp(f)
    BY <1>5, <2>1 DEF FillIdp, StoredIdp, Has
  <2> QED BY <1>5, <2>2 DEF FormOK
<1> QED BY <1>1, <1>2, <1>3, <1>4, <1>5, FillIs

(* An edit leaves a well-formed form.                                      *)
LEMMA EditOK ==
  ASSUME NEW f, FormOK(f), NEW g \in Edits(f)
  PROVE  FormOK(g)
<1>1. CASE f.kind = "host"
  <2>1. (\E t : g = [f EXCEPT !.type = t]) \/ g = [f EXCEPT !.oidcOn = ~@]
    BY <1>1 DEF Edits
  <2>2. Has(f, {"kind", "type", "oidcOn", "rules"}) /\ IsSeq(f.rules)
    BY <1>1 DEF FormOK
  <2>3. g.kind = "host" /\ g.rules = f.rules /\ Has(g, {"kind", "type", "oidcOn", "rules"})
    BY <1>1, <2>1, <2>2 DEF Has
  <2> QED BY <2>2, <2>3 DEF FormOK
<1>2. CASE f.kind = "stream"
  <2>1. (\E t : g = [f EXCEPT !.acl = t]) \/ g = [f EXCEPT !.accept = ~@] \/ g = [f EXCEPT !.tls = ~@]
    BY <1>2 DEF Edits
  <2>2. StoredStream(f)
    BY <1>2 DEF FormOK
  <2>3. g.kind = "stream" /\ StoredStream(g)
    BY <1>2, <2>1, <2>2 DEF Has, StoredStream
  <2> QED BY <2>3 DEF FormOK
<1>3. CASE f.kind = "acl"
  <2> DEFINE e == << >>
  <2>1. g = [f EXCEPT !.rules = IF @ = e THEN @ ELSE Tail(@)]
    BY <1>3 DEF Edits
  <2>2. Has(f, {"kind", "rules", "users"}) /\ IsSeq(f.rules)
    BY <1>3 DEF FormOK
  <2>3. f.rules = e \/ IsSeq(Tail(f.rules))
    <3> SUFFICES ASSUME f.rules # e PROVE IsSeq(Tail(f.rules))
      OBVIOUS
    <3>1. f.rules \in Seq(Elements(f.rules))
      BY <2>2 DEF IsSeq
    <3>2. Tail(f.rules) \in Seq(Elements(f.rules))
      BY <3>1, HeadTailProperties
    <3> QED BY <3>2, SeqIs
  <2> HIDE DEF e
  <2>4. g.kind = "acl" /\ IsSeq(g.rules) /\ Has(g, {"kind", "rules", "users"})
    BY <1>3, <2>1, <2>2, <2>3 DEF Has
  <2> QED BY <2>4 DEF FormOK
<1>4. CASE f.kind = "policy"
  <2>1. PICK k \in IdentityKinds : \E w \in KindChanged(f.subject, k, lists) : g = [f EXCEPT !.subject = w]
    BY <1>4 DEF Edits
  <2>0. PICK w \in KindChanged(f.subject, k, lists) : g = [f EXCEPT !.subject = w]
    BY <2>1
  <2>2. Has(f, {"kind", "subject", "routes"})
    BY <1>4 DEF FormOK
  <2>3. w.kind = k
    <3> DEFINE people == IF k = "user" THEN KnownPeople(lists, f.subject.prov) ELSE {}
               whos == IF people = {} THEN {""} ELSE people
    <3>1. KindChanged(f.subject, k, lists) =
            {[kind |-> k, prov |-> f.subject.prov, who |-> who,
              peer |-> IF k = "peer" THEN First(lists.peer) ELSE 0] : who \in whos}
      BY DEF KindChanged
    <3> HIDE DEF whos, people
    <3> QED BY <3>1
  <2>4. w.kind # ""
    BY <2>3 DEF IdentityKinds
  <2>5. g.kind = "policy" /\ g.subject = w /\ Has(g, {"kind", "subject", "routes"})
    BY <1>4, <2>0, <2>2 DEF Has
  <2> QED BY <2>4, <2>5 DEF FormOK
<1>5. CASE f.kind = "idp"
  BY <1>5 DEF Edits
<1> QED BY <1>1, <1>2, <1>3, <1>4, <1>5 DEF FormOK

(* A host the server accepts from the dialog is again one it would have    *)
(* stored.                                                                 *)
LEMMA WrittenStored ==
  ASSUME NEW f, f.kind = "host", FormOK(f), NEW b, IsSeq(b.enrol),
         NEW r, r = ReadHost(f, b), NEW i, Accepts(i, r)
  PROVE  StoredHost(r)
<1> DEFINE S == {w \in Elements(f.rules) : w.path # "" /\ (w.mode = "accessList" => w.acl # 0)}
           v == Where(f.rules, S)
           sent == [n \in DOMAIN v |-> ReadAuthRule(v[n])]
           g == [n \in DOMAIN b.enrol |-> ReadSubject(b.enrol[n], b.prov)]
           T == {s \in Elements(g) : s.kind # "group" \/ s.who # ""}
<1>1. /\ r.kind = "host" /\ r.type = f.type
      /\ r.rules = IF f.type = "proxy" THEN ReadAuthRules(f.rules) ELSE << >>
      /\ r.portal = IF f.type = "vpn-portal" THEN ReadPortalOptions(b) ELSE NoPortal
  BY HostSent
<1>2. Has(r, {"kind", "type", "rules", "portal"})
  BY DEF ReadHost, Has
<1>3. IsSeq(f.rules)
  BY DEF FormOK
<1>4. IsSeq(<< >>) /\ Elements(<< >>) = {}
  <2>1. Elements(<< >>) = {}
    BY DEF Elements
  <2>2. << >> \in Seq({})
    OBVIOUS
  <2> QED BY <2>1, <2>2 DEF IsSeq
<1>5. IsSeq(r.rules) /\ \A x \in Elements(r.rules) : x.mode = "accessList" => x.acl # 0
  <2>1. CASE f.type = "proxy"
    <3>1. r.rules = sent
      BY <1>1, <2>1 DEF ReadAuthRules, Mapped, Filter
    <3>2. sent = [n \in DOMAIN v |-> sent[n]] /\ \A n \in DOMAIN v : sent[n] = ReadAuthRule(v[n])
      OBVIOUS
    <3>3. \A w \in S : w.mode = "accessList" => w.acl # 0
      OBVIOUS
    <3> HIDE DEF S, sent
    <3>4. IsSeq(v) /\ Elements(v) \subseteq S
      BY <1>3, WhereIs
    <3> HIDE DEF v
    <3>5. IsSeq(sent)
      BY <3>2, <3>4, FcnIsSeq
    <3>6. ASSUME NEW x \in Elements(sent), x.mode = "accessList" PROVE x.acl # 0
      <4>1. PICK n \in DOMAIN sent : x = sent[n]
        BY DEF Elements
      <4>2. DOMAIN sent = DOMAIN v
        BY <3>2
      <4>3. n \in DOMAIN v /\ x = ReadAuthRule(v[n])
        BY <3>2, <4>1, <4>2
      <4>4. v[n] \in S
        BY <3>4, <4>3 DEF Elements
      <4>5. x.mode = v[n].mode /\ x.acl = IF v[n].mode = "accessList" THEN v[n].acl ELSE 0
        BY <4>3 DEF ReadAuthRule
      <4> QED BY <3>3, <3>6, <4>4, <4>5
    <3> QED BY <3>1, <3>5, <3>6
  <2>2. CASE f.type # "proxy"
    BY <1>1, <1>4, <2>2
  <2> QED BY <2>1, <2>2
<1>6. IsSeq(r.portal.enrol)
  <2>1. CASE f.type = "vpn-portal"
    <3>1. r.portal.enrol = Where(g, T)
      <4>1. ReadPortalOptions(b).enrol = Where(g, T)
        BY DEF ReadPortalOptions, Mapped, Filter
      <4>2. r.portal = ReadPortalOptions(b)
        BY <1>1, <2>1
      <4> HIDE DEF g, T
      <4> QED BY <4>1, <4>2
    <3>2. g = [n \in DOMAIN b.enrol |-> g[n]]
      OBVIOUS
    <3> HIDE DEF g, T
    <3>3. IsSeq(g)
      BY <3>2, FcnIsSeq
    <3> QED BY <3>1, <3>3, WhereIs
  <2>2. CASE f.type # "vpn-portal"
    <3>1. NoPortal.enrol = << >>
      BY DEF NoPortal
    <3> QED BY <1>1, <1>4, <2>2, <3>1
  <2> QED BY <2>1, <2>2
<1>7. r.type = "vpn-portal" => r.portal.prov # 0
  BY <1>1 DEF Accepts, AcceptsHost
<1> QED BY <1>2, <1>5, <1>6, <1>7 DEF StoredHost

(* What the server stores after a save, whatever was edited before, is     *)
(* again an object it would have stored.                                   *)
LEMMA SentStored ==
  ASSUME NEW f, FormOK(f), IsSeq(portal.block.enrol), NEW i, Accepts(i, ReadForm(f))
  PROVE  Stored(Merged(ReadForm(f)))
<1> DEFINE r == ReadForm(f)
<1>1. CASE f.kind = "host"
  <2>1. r = ReadHost(f, portal.block)
    BY <1>1, ReadIs
  <2>2. r.kind = "host"
    BY <2>1, HostSent
  <2>3. StoredHost(r)
    <3> DEFINE b == portal.block
    <3>1. IsSeq(b.enrol) /\ r = ReadHost(f, b) /\ Accepts(i, r)
      BY <2>1
    <3> HIDE DEF b, r
    <3> QED BY <1>1, <3>1, WrittenStored
  <2> HIDE DEF r
  <2>4. Merged(r) = r
    BY <2>2 DEF Merged
  <2> QED BY <2>2, <2>3, <2>4 DEF Stored, r
<1>2. CASE f.kind = "stream"
  <2>1. r = ReadStream(f)
    BY <1>2, ReadIs
  <2>2. StoredStream(f)
    BY <1>2 DEF FormOK
  <2> HIDE DEF r
  <2>3. r.kind = "stream" /\ StoredStream(r)
    BY <1>2, <2>1, <2>2 DEF ReadStream, StoredStream, Has
  <2>4. Merged(r) = r
    BY <2>3 DEF Merged
  <2> QED BY <2>3, <2>4 DEF Stored, r
<1>3. CASE f.kind = "acl"
  <2> DEFINE S == {w \in Elements(f.rules) : w.kind = "vpn" \/ w.val # ""}
             v == Where(f.rules, S)
             sent == [n \in DOMAIN v |-> ReadAclRule(v[n])]
             t == Merged(r)
  <2>1. r = ReadAcl(f)
    BY <1>3, ReadIs
  <2>2. Has(f, {"kind", "rules", "users"}) /\ IsSeq(f.rules)
    BY <1>3 DEF FormOK
  <2>3. sent = [n \in DOMAIN v |-> sent[n]]
    OBVIOUS
  <2>4. Accepts(i, r)
    OBVIOUS
  <2> HIDE DEF r
  <2>5. r.kind = "acl" /\ r.rules = sent /\ Has(r, {"kind", "rules", "users"})
    BY <1>3, <2>1, <2>2 DEF ReadAcl, Has, Mapped, Filter
  <2> HIDE DEF S, sent
  <2>6. IsSeq(v)
    BY <2>2, WhereIs
  <2> HIDE DEF v
  <2>7. IsSeq(sent)
    BY <2>3, <2>6, FcnIsSeq
  <2>8. \A x \in Elements(r.rules) : ValidSubject(x.vpn)
    BY <2>4, <2>5 DEF Accepts, AcceptsAcl
  <2>9. t.kind = "acl" /\ t.rules = r.rules /\ Has(t, {"kind", "rules", "users"})
    BY <2>5 DEF Merged, Has
  <2> HIDE DEF t
  <2>10. StoredAcl(t)
    BY <2>5, <2>7, <2>8, <2>9 DEF StoredAcl
  <2> QED BY <2>9, <2>10 DEF Stored, t, r
<1>4. CASE f.kind = "policy"
  <2>1. r = ReadPolicy(f)
    BY <1>4, ReadIs
  <2>2. Has(f, {"kind", "subject", "routes"}) /\ f.subject.kind # ""
    BY <1>4 DEF FormOK
  <2>3. Accepts(i, r)
    OBVIOUS
  <2> HIDE DEF r
  <2>4. r.kind = "policy" /\ r.subject = ReadSubject(f.subject, f.subject.prov) /\ Has(r, {"kind", "subject", "routes"})
    BY <1>4, <2>1, <2>2 DEF ReadPolicy, Has
  <2>5. r.subject.kind # ""
    <3>1. ReadSubject(f.subject, f.subject.prov).kind = f.subject.kind
      BY DEF ReadSubject
    <3> QED BY <2>2, <2>4, <3>1
  <2>6. ValidSubject(r.subject)
    BY <2>3, <2>4 DEF Accepts, AcceptsPolicy
  <2>7. Merged(r) = r
    BY <2>4 DEF Merged
  <2> QED BY <2>4, <2>5, <2>6, <2>7 DEF Stored, StoredPolicy, r
<1>5. CASE f.kind = "idp"
  <2>1. r = f
    BY <1>5, ReadIs
  <2>2. StoredIdp(f)
    BY <1>5 DEF FormOK
  <2>3. Merged(f) = [f EXCEPT !.secret = "kept"]
    BY <1>5 DEF Merged
  <2> DEFINE t == Merged(f)
  <2>4. t.kind = "idp" /\ StoredIdp(t)
    BY <1>5, <2>2, <2>3 DEF StoredIdp, Has
  <2> HIDE DEF t
  <2> QED BY <2>1, <2>4 DEF Stored, t
<1> QED BY <1>1, <1>2, <1>3, <1>4, <1>5 DEF FormOK

-----------------------------------------------------------------------------
(* The invariant: the store, the rows of the page and the rows of a load   *)
(* that is under way are objects the server stores; an open dialog was     *)
(* filled from such an object, by whatever lists the page had then, which  *)
(* held what the object refers to if the dialog is marked whole; and the   *)
(* portal block was filled in the same way from the host it is marked      *)
(* with.                                                                   *)
Rows(s) == s = [i \in Ids |-> s[i]] /\ \A i \in Ids : Stored(s[i])

Showing ==
  /\ Rows(store) /\ Rows(rows)
  /\ Has(refresh, {"at", "store", "refs"}) /\ (refresh.at # "no" => Rows(refresh.store))
  /\ \A x \in fills : Stored(x[2]) /\ x[2].kind = "host"

Filled ==
  dialog.id # 0 =>
     /\ Has(dialog, {"id", "from", "whole", "form", "filled"})
     /\ Stored(dialog.from) /\ FormOK(dialog.form)
     /\ \E l : /\ dialog.filled = FillForm(dialog.from, l)
               /\ dialog.whole => Known(Named(dialog.from), l)

PortalBlock ==
  /\ IsSeq(portal.block.enrol)
  /\ portal.of[1] # 0 => \E l : /\ portal.block = FillPortalBlock(portal.of[2], l)
                                /\ portal.whole => Known(Named(portal.of[2]), l)

FormsInv == Showing /\ Filled /\ PortalBlock

(* One object replaced by another that the server stores.                  *)
LEMMA RowsPut ==
  ASSUME NEW s, Rows(s), NEW i, NEW o, Stored(o), NEW t, t = [s EXCEPT ![i] = o]
  PROVE  Rows(t)
<1>1. s = [j \in Ids |-> s[j]] /\ \A j \in Ids : Stored(s[j])
  BY DEF Rows
<1>2. t = [j \in Ids |-> IF j = i THEN o ELSE s[j]]
  BY <1>1
<1>3. t = [j \in Ids |-> t[j]] /\ \A j \in Ids : t[j] = IF j = i THEN o ELSE s[j]
  BY <1>2
<1> QED BY <1>1, <1>3 DEF Rows

(* The enrolment rows of a filled portal block are a list.                 *)
LEMMA BlockSeq ==
  ASSUME NEW o, IsSeq(o.portal.enrol), NEW l, NEW b, b = FillPortalBlock(o, l)
  PROVE  IsSeq(b.enrol)
<1> DEFINE e == <<NoSubject>>
           s == IF o.portal = NoPortal THEN e ELSE o.portal.enrol
           g == [n \in DOMAIN s |-> MakeSubjectPicker(s[n], l, TRUE)]
<1>1. b.enrol = g
  BY DEF FillPortalBlock, Mapped
<1>2. IsSeq(e)
  <2> DEFINE x == NoSubject
  <2>1. e \in Seq({x})
    <3> HIDE DEF x
    <3>1. <<x>> \in Seq({x})
      OBVIOUS
    <3> QED BY <3>1 DEF x
  <2> HIDE DEF e, x
  <2> QED BY <2>1, SeqIs
<1> HIDE DEF e
<1>3. IsSeq(s)
  BY <1>2
<1>4. g = [n \in DOMAIN s |-> g[n]]
  OBVIOUS
<1> HIDE DEF s, g
<1> QED BY <1>1, <1>3, <1>4, FcnIsSeq

(* The invariant holds when the page has loaded.                           *)
LEMMA FormsInitInv == ASSUME \A o \in Objects : Stored(o), FormsInit PROVE FormsInv
<1>1. Rows(store) /\ Rows(rows)
  BY DEF FormsInit, Rows
<1>2. refresh = NoRefresh /\ dialog = NoDialog /\ fills = {}
  BY DEF FormsInit
<1>3. refresh.at = "no" /\ Has(refresh, {"at", "store", "refs"})
  BY <1>2 DEF NoRefresh, Has
<1>4. dialog.id = 0
  BY <1>2 DEF NoDialog
<1>5. PortalBlock
  <2>1. portal = [of |-> <<0, Empty>>, whole |-> TRUE, block |-> FillPortalBlock(NewHost, Lists)]
    BY DEF FormsInit
  <2>2. portal.of[1] = 0 /\ portal.block = FillPortalBlock(NewHost, Lists)
    BY <2>1
  <2>3. NewHost.portal = NoPortal /\ NoPortal.enrol = << >>
    BY DEF NewHost, NoPortal
  <2>4. IsSeq(<< >>)
    <3>1. << >> \in Seq({})
      OBVIOUS
    <3> QED BY <3>1, SeqIs
  <2>5. IsSeq(NewHost.portal.enrol)
    BY <2>3, <2>4
  <2>6. IsSeq(portal.block.enrol)
    BY <2>2, <2>5, BlockSeq
  <2> QED BY <2>2, <2>6 DEF PortalBlock
<1> QED BY <1>1, <1>2, <1>3, <1>4, <1>5 DEF FormsInv, Showing, Filled

(* Every step keeps it: a load of the lists takes the rows from the store, *)
(* an open fills the form from a row, an edit keeps its shape, and what is *)
(* saved has been accepted.                                                *)
LEMMA FormsStep ==
  ASSUME \A o \in Objects : Stored(o), FormsInv, [FormsNext]_formVars
  PROVE  FormsInv'
<1> USE DEF FormsInv
<1>1. ASSUME NEW i \in Ids, NEW o \in Objects, OtherSaves(i, o) PROVE FormsInv'
  <2>1. store' = [store EXCEPT ![i] = o] /\ Rows(store)
    BY <1>1 DEF OtherSaves, Showing
  <2>2. Rows(store')
    BY <2>1, RowsPut
  <2>3. UNCHANGED <<rows, refresh, dialog, portal, fills>>
    BY <1>1 DEF OtherSaves
  <2> QED BY <2>2, <2>3 DEF Showing, Filled, PortalBlock, Rows
<1>2. ASSUME NEW k, NEW v, OtherDeletes(k, v) \/ OtherCreates(k, v) PROVE FormsInv'
  <2>1. UNCHANGED <<store, rows, refresh, dialog, portal, fills>>
    BY <1>2 DEF OtherDeletes, OtherCreates
  <2> QED BY <2>1 DEF Showing, Filled, PortalBlock, Rows
<1>3. CASE RefreshBegins
  <2>1. refresh' = [at |-> "lists", store |-> store, refs |-> refs]
    BY <1>3 DEF RefreshBegins
  <2>2. UNCHANGED <<store, rows, dialog, portal, fills>>
    BY <1>3 DEF RefreshBegins
  <2>3. refresh'.store = store /\ Has(refresh', {"at", "store", "refs"})
    BY <2>1 DEF Has
  <2> QED BY <2>2, <2>3 DEF Showing, Filled, PortalBlock, Rows, Has
<1>4. CASE RefreshFails
  <2>1. refresh'.at = "no" /\ Has(refresh', {"at", "store", "refs"})
    BY <1>4 DEF RefreshFails, NoRefresh, Has
  <2>2. UNCHANGED <<store, rows, dialog, portal, fills>>
    BY <1>4 DEF RefreshFails
  <2> QED BY <2>1, <2>2 DEF Showing, Filled, PortalBlock, Rows, Has
<1>5. ASSUME NEW later, NEW none \in BOOLEAN, RefreshLists(later, none) PROVE FormsInv'
  <2>1. refresh' = [refresh EXCEPT !.at = "sites", !.refs = << >>,
                                   !.store = IF "store" \in later THEN store ELSE @]
    BY <1>5 DEF RefreshLists
  <2>2. UNCHANGED <<store, rows, dialog, portal, fills>>
    BY <1>5 DEF RefreshLists
  <2>3. refresh.at = "lists"
    BY <1>5 DEF RefreshLists
  <2>4. Has(refresh, {"at", "store", "refs"}) /\ Rows(refresh.store) /\ Rows(store)
    BY <2>3 DEF Showing
  <2>5. refresh'.store \in {store, refresh.store} /\ Has(refresh', {"at", "store", "refs"})
    BY <2>1, <2>4 DEF Has
  <2>6. Rows(refresh'.store)
    BY <2>4, <2>5
  <2> QED BY <2>2, <2>5, <2>6 DEF Showing, Filled, PortalBlock, Rows, Has
<1>6. ASSUME NEW none \in BOOLEAN, RefreshRows(none) PROVE FormsInv'
  <2>1. refresh.at = "sites" /\ rows' = refresh.store /\ refresh' = NoRefresh
    BY <1>6 DEF RefreshRows
  <2>2. UNCHANGED <<store, dialog, portal, fills>>
    BY <1>6 DEF RefreshRows
  <2>3. Rows(rows')
    BY <2>1 DEF Showing
  <2>4. refresh'.at = "no" /\ Has(refresh', {"at", "store", "refs"})
    BY <2>1 DEF NoRefresh, Has
  <2> QED BY <2>2, <2>3, <2>4 DEF Showing, Filled, PortalBlock, Rows, Has
<1>7. ASSUME NEW i \in Ids, NEW ok, Open(i, ok) PROVE FormsInv'
  <2> DEFINE o == rows[i]
             l == IF o.kind = "acl" THEN [People(ok) EXCEPT !.site = Got("site", ok)] ELSE lists
             f == FillForm(o, l)
             whole == Known(Named(o), l)
  <2>1. /\ dialog' = [id |-> i, from |-> o, whole |-> whole, form |-> f, filled |-> f]
        /\ fills' = IF o.kind = "host" THEN fills \cup {<<i, o>>} ELSE fills
    BY <1>7 DEF Open
  <2>2. UNCHANGED <<store, rows, refresh, portal>>
    BY <1>7 DEF Open
  <2>3. Stored(o)
    BY DEF Showing, Rows
  <2> HIDE DEF l
  <2>4. FormOK(f)
    BY <2>3, FilledOK
  <2> HIDE DEF o, whole
  <2>5. /\ dialog'.from = o /\ dialog'.form = f /\ dialog'.filled = f /\ dialog'.whole = whole
        /\ Has(dialog', {"id", "from", "whole", "form", "filled"})
    BY <2>1 DEF Has
  <2>6. \A x \in fills' : Stored(x[2]) /\ x[2].kind = "host"
    BY <2>1, <2>3 DEF Showing
  <2>7. /\ dialog'.filled = FillForm(dialog'.from, l)
        /\ dialog'.whole => Known(Named(dialog'.from), l)
    BY <2>5 DEF whole
  <2>8. Filled'
    BY <2>3, <2>4, <2>5, <2>7 DEF Filled
  <2>9. Showing'
    BY <2>2, <2>6 DEF Showing, Rows, Has
  <2> QED BY <2>2, <2>8, <2>9 DEF PortalBlock
<1>8. ASSUME NEW x \in fills, NEW ok, PortalFilled(x, ok) PROVE FormsInv'
  <2> DEFINE whole == Known(Named(x[2]), lists')
             b == FillPortalBlock(x[2], lists')
  <2>1. fills' = fills \ {x} /\ portal' = [of |-> x, whole |-> whole, block |-> b]
    BY <1>8 DEF PortalFilled
  <2>2. UNCHANGED <<store, rows, refresh, dialog>>
    BY <1>8 DEF PortalFilled
  <2>3. IsSeq(x[2].portal.enrol)
    BY DEF Showing, Stored, StoredHost
  <2>4. IsSeq(b.enrol)
    BY <2>3, BlockSeq
  <2> HIDE DEF whole
  <2>5. portal'.of = x /\ portal'.block = b /\ portal'.whole = whole
    BY <2>1
  <2>6. PortalBlock'
    BY <2>4, <2>5 DEF PortalBlock, whole
  <2>7. Showing' /\ Filled'
    BY <2>1, <2>2 DEF Showing, Filled, Rows, Has
  <2> QED BY <2>6, <2>7
<1>9. ASSUME NEW f \in Edits(dialog.form), Edit(f) PROVE FormsInv'
  <2>1. dialog.id # 0 /\ dialog' = [dialog EXCEPT !.form = f]
    BY <1>9 DEF Edit
  <2>2. UNCHANGED <<store, rows, refresh, portal, fills>>
    BY <1>9 DEF Edit
  <2>3. Has(dialog, {"id", "from", "whole", "form", "filled"}) /\ FormOK(dialog.form)
    BY <2>1 DEF Filled
  <2>4. /\ dialog'.from = dialog.from /\ dialog'.form = f /\ dialog'.filled = dialog.filled
        /\ dialog'.whole = dialog.whole
        /\ Has(dialog', {"id", "from", "whole", "form", "filled"})
    BY <2>1, <2>3 DEF Has
  <2>5. FormOK(f)
    BY <2>3, EditOK
  <2>6. Filled'
    BY <2>1, <2>4, <2>5 DEF Filled
  <2> QED BY <2>2, <2>6 DEF Showing, PortalBlock, Rows, Has
<1>10. CASE Close
  <2>1. dialog'.id = 0
    BY <1>10 DEF Close, NoDialog
  <2>2. UNCHANGED <<store, rows, refresh, portal, fills>>
    BY <1>10 DEF Close
  <2> QED BY <2>1, <2>2 DEF Showing, Filled, PortalBlock, Rows, Has
<1>11. CASE Save
  <2> DEFINE f == dialog.form
             r == ReadForm(f)
             o == Merged(r)
  <2>1. dialog.id # 0 /\ Accepts(dialog.id, r) /\ store' = [store EXCEPT ![dialog.id] = o] /\ dialog' = NoDialog
    BY <1>11 DEF Save
  <2>2. UNCHANGED <<rows, refresh, portal, fills>>
    BY <1>11 DEF Save
  <2>3. FormOK(f) /\ IsSeq(portal.block.enrol)
    BY <2>1 DEF Filled, PortalBlock
  <2>4. Stored(o)
    <3> HIDE DEF f
    <3> QED BY <2>1, <2>3, SentStored
  <2> HIDE DEF o
  <2>5. Rows(store)
    BY DEF Showing
  <2>6. Rows(store')
    BY <2>1, <2>4, <2>5, RowsPut
  <2>7. dialog'.id = 0
    BY <2>1 DEF NoDialog
  <2> QED BY <2>2, <2>6, <2>7 DEF Showing, Filled, PortalBlock, Rows, Has
<1>12. ASSUME NEW i \in Ids, Toggle(i) PROVE FormsInv'
  <2> DEFINE o == rows[i]
             t == [o EXCEPT !.enabled = ~@]
  <2>1. o.kind \in {"host", "stream"} /\ store' = [store EXCEPT ![i] = t]
    BY <1>12 DEF Toggle
  <2>2. UNCHANGED <<rows, refresh, dialog, portal, fills>>
    BY <1>12 DEF Toggle
  <2>3. Stored(o) /\ Rows(store)
    BY DEF Showing, Rows
  <2> HIDE DEF o
  <2>4. Stored(t)
    <3>1. CASE o.kind = "host"
      <4>1. StoredHost(o)
        BY <2>3, <3>1 DEF Stored
      <4>2. /\ t.kind = "host" /\ t.rules = o.rules /\ t.portal = o.portal /\ t.type = o.type
            /\ Has(t, {"kind", "type", "rules", "portal"})
        BY <3>1, <4>1 DEF StoredHost, Has
      <4> HIDE DEF t
      <4>3. StoredHost(t)
        BY <4>1, <4>2 DEF StoredHost
      <4> QED BY <4>2, <4>3 DEF Stored
    <3>2. CASE o.kind = "stream"
      <4>1. StoredStream(o)
        BY <2>3, <3>2 DEF Stored
      <4>2. t.kind = "stream" /\ StoredStream(t)
        BY <3>2, <4>1 DEF StoredStream, Has
      <4> HIDE DEF t
      <4> QED BY <4>2 DEF Stored
    <3> QED BY <2>1, <3>1, <3>2
  <2> HIDE DEF t
  <2>5. Rows(store')
    BY <2>1, <2>3, <2>4, RowsPut
  <2> QED BY <2>2, <2>5 DEF Showing, Filled, PortalBlock, Rows, Has
<1>13. CASE UNCHANGED formVars
  BY <1>13 DEF formVars, Showing, Filled, PortalBlock, Rows, Has
<1> QED BY <1>1, <1>2, <1>3, <1>4, <1>5, <1>6, <1>7, <1>8, <1>9, <1>10, <1>11, <1>12,
           <1>13 DEF FormsNext

(* The invariant of the forms holds in every state.                        *)
LEMMA FormsInvHolds == ASSUME \A o \in Objects : Stored(o) PROVE FormsSpec => []FormsInv
<1>1. FormsInit => FormsInv
  BY FormsInitInv
<1>2. FormsInv /\ [FormsNext]_formVars => FormsInv'
  BY FormsStep
<1> QED BY <1>1, <1>2, PTL DEF FormsSpec

(* In such a state the form, as it was filled, sends no name its object    *)
(* did not have.                                                           *)
LEMMA NoStranger == ASSUME FormsInv PROVE NoStrangers
<1> SUFFICES ASSUME Unedited PROVE Named(Sent) \subseteq Named(dialog.from)
  BY DEF NoStrangers
<1> DEFINE o == dialog.from
           f == dialog.form
           r == ReadForm(f)
<1>0. dialog.id # 0
  BY DEF Unedited
<1>1. f = dialog.filled
  BY DEF Unedited
<1>2. Stored(o)
  BY <1>0 DEF FormsInv, Filled
<1>3. PICK l : f = FillForm(o, l)
  BY <1>0, <1>1 DEF FormsInv, Filled
<1>4. o.kind = "host" /\ f.type = "vpn-portal" => \E k : portal.block = FillPortalBlock(o, k)
  <2> SUFFICES ASSUME o.kind = "host", f.type = "vpn-portal"
               PROVE  \E k : portal.block = FillPortalBlock(o, k)
    OBVIOUS
  <2>1. portal.of = <<dialog.id, o>>
    BY DEF Unedited
  <2>2. portal.of[1] = dialog.id /\ portal.of[2] = o
    BY <2>1
  <2>3. portal.of[1] # 0
    BY <1>0, <2>2
  <2> HIDE DEF o
  <2> QED BY <2>2, <2>3 DEF FormsInv, PortalBlock
<1>5. Sent = Merged(r)
  BY DEF Sent
<1> HIDE DEF o, f
<1>6. f.kind = o.kind
  BY <1>2, <1>3, FilledOK
<1>7. CASE o.kind = "host"
  <2>1. f = FillHost(o, l) /\ StoredHost(o) /\ r = ReadHost(f, portal.block)
    BY <1>2, <1>3, <1>6, <1>7, FillIs, ReadIs
  <2> DEFINE b == portal.block
  <2>2. \E k : f.type = "vpn-portal" => b = FillPortalBlock(o, k)
    BY <1>4, <1>7
  <2>3. PICK k : f.type = "vpn-portal" => b = FillPortalBlock(o, k)
    BY <2>2
  <2>4. r = ReadHost(f, b)
    BY <2>1
  <2> HIDE DEF b, r
  <2>5. Named(r) \subseteq Named(o)
    BY <1>7, <2>1, <2>3, <2>4, HostNames
  <2>6. r.kind = "host"
    BY <2>4, HostSent
  <2>7. Merged(r) = r
    BY <2>6 DEF Merged
  <2> QED BY <1>5, <2>5, <2>7 DEF o, r
<1>8. CASE o.kind = "stream"
  <2>1. f = FillStream(o, l) /\ StoredStream(o) /\ r = ReadStream(f)
    BY <1>2, <1>3, <1>6, <1>8, FillIs, ReadIs
  <2> HIDE DEF r
  <2>2. Named(r) \subseteq Named(o)
    BY <1>8, <2>1, StreamNames
  <2>3. FormOK(f)
    BY <1>2, <1>3, FilledOK
  <2>4. StoredStream(f)
    BY <1>6, <1>8, <2>3 DEF FormOK
  <2>5. r.kind = "stream"
    BY <1>6, <1>8, <2>1, <2>4 DEF ReadStream, StoredStream, Has
  <2>6. Merged(r) = r
    BY <2>5 DEF Merged
  <2> QED BY <1>5, <2>2, <2>6 DEF o, r
<1>9. CASE o.kind = "acl"
  <2>1. f = FillAcl(o, l) /\ StoredAcl(o) /\ r = ReadAcl(f)
    BY <1>2, <1>3, <1>6, <1>9, FillIs, ReadIs
  <2> DEFINE t == Merged(r)
  <2>2. t = Merged(ReadAcl(f))
    BY <2>1
  <2> HIDE DEF t, r
  <2>3. Named(t) \subseteq Named(o)
    BY <1>9, <2>1, <2>2, AclNames
  <2> QED BY <1>5, <2>3 DEF o, t, r
<1>10. CASE o.kind = "policy"
  <2>1. f = FillPolicy(o, l) /\ StoredPolicy(o) /\ r = ReadPolicy(f)
    BY <1>2, <1>3, <1>6, <1>10, FillIs, ReadIs
  <2> HIDE DEF r
  <2>2. Named(r) \subseteq Named(o)
    BY <1>10, <2>1, PolicyNames
  <2>3. FormOK(f)
    BY <1>2, <1>3, FilledOK
  <2>4. Has(f, {"kind", "subject", "routes"})
    BY <1>6, <1>10, <2>3 DEF FormOK
  <2>5. r.kind = "policy"
    BY <1>6, <1>10, <2>1, <2>4 DEF ReadPolicy, Has
  <2>6. Merged(r) = r
    BY <2>5 DEF Merged
  <2> QED BY <1>5, <2>2, <2>6 DEF o, r
<1>11. CASE o.kind = "idp"
  <2>1. r = f
    BY <1>6, <1>11, ReadIs
  <2> DEFINE t == Merged(f)
  <2>2. t = [f EXCEPT !.secret = "kept"]
    BY <1>6, <1>11 DEF Merged
  <2>3. FormOK(f)
    BY <1>2, <1>3, FilledOK
  <2>4. Has(f, {"kind", "secret"})
    BY <1>6, <1>11, <2>3 DEF FormOK, StoredIdp
  <2>5. t.kind = "idp"
    BY <1>6, <1>11, <2>2, <2>4 DEF Has
  <2> HIDE DEF t
  <2>6. Named(t) = {}
    BY <2>5 DEF Named
  <2> QED BY <1>5, <2>1, <2>6 DEF t, r, o
<1> QED BY <1>2, <1>7, <1>8, <1>9, <1>10, <1>11, FillIs DEF o

(* Opening a dialog and saving it untouched never makes the object name an *)
(* access list, a certificate, a site, a provider or a peer that it did    *)
(* not name before (the open and submit handlers of app.js), whatever      *)
(* lists the page had when it filled the form, whatever was deleted or     *)
(* created meanwhile and whichever dialog filled the portal block last:    *)
(* for any objects the server stores.                                      *)
THEOREM NoStrangersHolds ==
    ASSUME \A o \in Objects : Stored(o)
    PROVE  FormsSpec => []NoStrangers
BY FormsInvHolds, NoStranger, PTL

-----------------------------------------------------------------------------
(* What the server stores is what its Validate functions let through, and  *)
(* what they fill in or clear.  Valid says so of an object of any kind     *)
(* (below); of what is valid, Expressible leaves what the dialogs have     *)
(* fields for, which are the objects called plain here.                    *)
(*                                                                         *)
(* A subject has what its kind needs and nothing else (VPNSubject.Validate *)
(* in vpn.go).                                                             *)
CleanSubject(s) ==
  /\ s = [kind |-> s.kind, prov |-> s.prov, peer |-> s.peer, who |-> s.who]
  /\ s.kind # ""
  /\ s.kind \notin IdentityKinds => s.prov = 0
  /\ s.kind # "peer" => s.peer = 0
  /\ s.kind \notin {"user", "group"} => s.who = ""

(* A rule of an access list is about one thing (AccessList.Validate in     *)
(* access.go).                                                             *)
ValidAclRule(r) ==
  /\ r = [action |-> r.action, methods |-> r.methods, vpn |-> r.vpn, host |-> r.host,
          country |-> r.country, cidr |-> r.cidr]
  /\ \/ CleanSubject(r.vpn) /\ r.host = "" /\ r.country = "" /\ r.cidr = ""
     \/ r.vpn = NoSubject /\ r.host # "" /\ r.country = "" /\ r.cidr = ""
     \/ r.vpn = NoSubject /\ r.host = "" /\ r.country # "" /\ r.cidr = ""
     \/ r.vpn = NoSubject /\ r.host = "" /\ r.country = "" /\ r.cidr # ""

(* An auth rule has a list if it gates by one, and a provider only if it   *)
(* is about single sign-on (validateAuthRules in store.go); what else it   *)
(* has comes with a provider of its own.                                   *)
ValidAuthRule(r) ==
  /\ r = [path |-> r.path, mode |-> r.mode, methods |-> r.methods, acl |-> r.acl, prov |-> r.prov,
          groups |-> r.groups, emails |-> r.emails, pass |-> r.pass]
  /\ r.path # "" /\ (r.mode = "accessList" <=> r.acl # 0)
  /\ r.mode # "oidc" => r.prov = 0
  /\ r.prov = 0 => r.groups = {} /\ r.emails = {} /\ r.pass = FALSE

(* The dialog has fields for the rule: chips for its methods, a text for   *)
(* its groups, none for other allow-lists.                                 *)
PlainAuthRule(r) ==
  /\ r = [path |-> r.path, mode |-> r.mode, methods |-> r.methods, acl |-> r.acl, prov |-> r.prov,
          groups |-> r.groups, emails |-> r.emails, pass |-> r.pass]
  /\ r.path # "" /\ (r.mode = "accessList" <=> r.acl # 0)
  /\ r.methods \subseteq Verbs /\ Plainly(r.groups)
  /\ r.emails = {} /\ r.pass = (r.mode = "oidc" /\ r.prov # 0)
  /\ ~(r.mode = "oidc" /\ r.prov # 0) => r.prov = 0 /\ r.groups = {}

-----------------------------------------------------------------------------
(* The methods a rule has chips for are all shown.                         *)
LEMMA ChipsKept == ASSUME NEW methods, methods \subseteq Verbs PROVE Chips(methods) = methods
BY DEF Chips

(* Names without a comma are read back from one text as they were.         *)
LEMMA SplitKept == ASSUME NEW names, Plainly(names) PROVE SplitNames(names) = names
<1>1. \A x \in names : x \notin DOMAIN WithComma
  BY DEF Plainly
<1>2. SplitNames(names) = UNION {{x} : x \in names}
  BY <1>1 DEF SplitNames
<1> QED BY <1>2

(* A select shows the value it was given when that is on its list, or      *)
(* none.                                                                   *)
LEMMA SelectKnown == ASSUME NEW options, NEW v, v # 0 => v \in options PROVE Select(options, v) = v
BY DEF Select

(* The picker of people and groups shows the subject it was made from.     *)
LEMMA IdentityShown ==
  ASSUME NEW s, CleanSubject(s), NEW l, s.peer # 0 => s.peer \in l.peer,
         NEW w, w = MakeSubjectPicker(s, l, TRUE)
  PROVE  w.kind = s.kind /\ w.peer = s.peer /\ w.who = s.who
<1>1. w.kind = s.kind /\ w.peer = Select(l.peer, s.peer) /\ w.who = s.who
  BY DEF MakeSubjectPicker, CleanSubject
<1> QED BY <1>1, SelectKnown

(* The picker of an access rule shows the subject it was made from.        *)
LEMMA SubjectShown ==
  ASSUME NEW s, CleanSubject(s), NEW l, s.peer # 0 => s.peer \in l.peer,
         NEW w, w = MakeSubjectPicker(s, l, FALSE)
  PROVE  w.kind = s.kind /\ w.peer = s.peer /\ w.who = s.who
<1>1. w.kind = s.kind /\ w.peer = Select(l.peer, s.peer) /\ w.who = s.who
  BY DEF MakeSubjectPicker, CleanSubject
<1> QED BY <1>1, SelectKnown

(* A picker that shows a subject gives it back, if the provider that is    *)
(* read with it is its own.                                                *)
LEMMA SubjectBack ==
  ASSUME NEW s, CleanSubject(s), NEW w, w.kind = s.kind, w.peer = s.peer, w.who = s.who,
         NEW prov, s.kind \in IdentityKinds => prov = s.prov
  PROVE  ReadSubject(w, prov) = s
<1> DEFINE r == ReadSubject(w, prov)
<1>3. r = [kind |-> w.kind, prov |-> IF w.kind \in IdentityKinds THEN prov ELSE 0,
           peer |-> IF w.kind = "peer" THEN w.peer ELSE 0,
           who |-> IF w.kind \in {"user", "group"} THEN w.who ELSE ""]
  BY Zenon DEF ReadSubject
<1> HIDE DEF r
<1>4. /\ s.prov = IF w.kind \in IdentityKinds THEN prov ELSE 0
      /\ s.peer = IF w.kind = "peer" THEN w.peer ELSE 0
      /\ s.who = IF w.kind \in {"user", "group"} THEN w.who ELSE ""
  BY DEF CleanSubject
<1>5. s = [kind |-> s.kind, prov |-> s.prov, peer |-> s.peer, who |-> s.who]
  BY DEF CleanSubject
<1>6. r = [kind |-> s.kind, prov |-> s.prov, peer |-> s.peer, who |-> s.who]
  BY <1>3, <1>4
<1> QED BY <1>5, <1>6 DEF r

(* A stored subject is not the empty one.                                  *)
LEMMA SubjectIs ==
  ASSUME NEW s, CleanSubject(s)
  PROVE  s # NoSubject
<1>1. NoSubject.kind = ""
  BY DEF NoSubject
<1> QED BY <1>1 DEF CleanSubject

(* One row of an access list, shown and read back (addAclRuleRow and the   *)
(* submit handler), is the rule it was made from: of the four fields a     *)
(* rule may have, the row keeps the one that is set.                       *)
LEMMA AclRuleBack ==
  ASSUME NEW q, ValidAclRule(q), q.country \in Countries \cup {""}, q.methods \subseteq Verbs, NEW l,
         q.vpn.peer # 0 => q.vpn.peer \in l.peer, q.vpn.prov # 0 => q.vpn.prov \in l.prov,
         ValidSubject(q.vpn),
         NEW x, x = AddAclRuleRow(q, l)
  PROVE  /\ x.kind = "vpn" \/ x.val # ""
         /\ ReadAclRule(x) = q
<1> DEFINE kind == CASE q.vpn # NoSubject -> "vpn"
                     [] q.host # "" -> "host"
                     [] q.country # "" -> "country"
                     [] OTHER -> "cidr"
           val == CASE kind = "vpn" -> ""
                    [] kind = "host" -> q.host
                    [] kind = "country" -> IF q.country \in Countries THEN q.country ELSE ""
                    [] kind = "cidr" -> q.cidr
           w == MakeSubjectPicker(q.vpn, l, FALSE)
           u == IF kind = "vpn" THEN w ELSE NoSubject
           r == ReadAclRule(x)
<1>1. x = [action |-> q.action, kind |-> kind, methods |-> q.methods, vpn |-> u, val |-> val]
  BY ChipsKept, Zenon DEF AddAclRuleRow
<1>2. \/ kind = "vpn" /\ CleanSubject(q.vpn) /\ val = "" /\ q.host = "" /\ q.country = "" /\ q.cidr = ""
      \/ kind = "host" /\ q.vpn = NoSubject /\ val = q.host /\ q.host # "" /\ q.country = "" /\ q.cidr = ""
      \/ kind = "country" /\ q.vpn = NoSubject /\ val = q.country /\ q.country # "" /\ q.host = "" /\ q.cidr = ""
      \/ kind = "cidr" /\ q.vpn = NoSubject /\ val = q.cidr /\ q.cidr # "" /\ q.host = "" /\ q.country = ""
  <2>1. CASE CleanSubject(q.vpn) /\ q.host = "" /\ q.country = "" /\ q.cidr = ""
    BY <2>1, SubjectIs
  <2>2. CASE q.vpn = NoSubject /\ q.host # "" /\ q.country = "" /\ q.cidr = ""
    BY <2>2
  <2>3. CASE q.vpn = NoSubject /\ q.host = "" /\ q.country # "" /\ q.cidr = ""
    BY <2>3
  <2>4. CASE q.vpn = NoSubject /\ q.host = "" /\ q.country = "" /\ q.cidr # ""
    BY <2>4
  <2> QED BY <2>1, <2>2, <2>3, <2>4 DEF ValidAclRule
<1>3. kind = "vpn" => ReadSubject(w, w.prov) = q.vpn
  <2> SUFFICES ASSUME kind = "vpn" PROVE ReadSubject(w, w.prov) = q.vpn
    OBVIOUS
  <2>1. CleanSubject(q.vpn)
    BY <1>2
  <2>2. w = MakeSubjectPicker(q.vpn, l, FALSE)
    OBVIOUS
  <2>3. w.prov = IF q.vpn.prov # 0 THEN Select(l.prov, q.vpn.prov) ELSE First(l.prov)
    BY DEF MakeSubjectPicker
  <2>4. q.vpn.kind \in IdentityKinds => q.vpn.prov # 0
    BY DEF ValidSubject
  <2> HIDE DEF w, kind
  <2>5. q.vpn.kind \in IdentityKinds => w.prov = q.vpn.prov
    BY <2>3, <2>4, SelectKnown
  <2>6. w.kind = q.vpn.kind /\ w.peer = q.vpn.peer /\ w.who = q.vpn.who
    BY <2>1, <2>2, SubjectShown
  <2> QED BY <2>1, <2>5, <2>6, SubjectBack
<1> HIDE DEF kind, val, w
<1>4. x.action = q.action /\ x.kind = kind /\ x.methods = q.methods /\ x.vpn = u /\ x.val = val
  <2> HIDE DEF u
  <2> DEFINE y == [action |-> q.action, kind |-> kind, methods |-> q.methods, vpn |-> u, val |-> val]
  <2>1. y.action = q.action /\ y.kind = kind /\ y.methods = q.methods /\ y.vpn = u /\ y.val = val
    OBVIOUS
  <2>2. x = y
    BY <1>1
  <2> HIDE DEF y
  <2> QED BY <2>1, <2>2
<1>5. r = [action |-> x.action, methods |-> x.methods,
           vpn |-> IF x.kind = "vpn" THEN ReadSubject(x.vpn, x.vpn.prov) ELSE NoSubject,
           host |-> IF x.kind = "host" THEN x.val ELSE "",
           country |-> IF x.kind = "country" THEN x.val ELSE "",
           cidr |-> IF x.kind = "cidr" THEN x.val ELSE ""]
  BY Zenon DEF ReadAclRule
<1>6. q = [action |-> q.action, methods |-> q.methods, vpn |-> q.vpn, host |-> q.host,
           country |-> q.country, cidr |-> q.cidr]
  BY DEF ValidAclRule
<1>7. /\ q.vpn = IF x.kind = "vpn" THEN ReadSubject(x.vpn, x.vpn.prov) ELSE NoSubject
      /\ q.host = IF x.kind = "host" THEN x.val ELSE ""
      /\ q.country = IF x.kind = "country" THEN x.val ELSE ""
      /\ q.cidr = IF x.kind = "cidr" THEN x.val ELSE ""
  BY <1>2, <1>3, <1>4
<1> HIDE DEF r, u
<1>8. r = [action |-> q.action, methods |-> q.methods, vpn |-> q.vpn, host |-> q.host,
           country |-> q.country, cidr |-> q.cidr]
  BY <1>4, <1>5, <1>7
<1>9. x.kind = "vpn" \/ x.val # ""
  BY <1>2, <1>4
<1> QED BY <1>6, <1>8, <1>9 DEF r

(* One auth rule of a host, shown and read back (addAuthRuleRow and        *)
(* readAuthRules), is the rule it was made from.                           *)
LEMMA AuthRuleBack ==
  ASSUME NEW q, PlainAuthRule(q), NEW l, q.acl # 0 => q.acl \in l.acl, q.prov # 0 => q.prov \in l.prov,
         NEW x, x = AddAuthRuleRow(q, l)
  PROVE  /\ x.path # "" /\ (x.mode = "accessList" => x.acl # 0)
         /\ ReadAuthRule(x) = q
<1>1. /\ x.path = q.path /\ x.mode = q.mode /\ x.groups = q.groups /\ x.methods = Chips(q.methods)
      /\ x.acl = IF q.acl # 0 THEN Select(l.acl, q.acl) ELSE First(l.acl)
      /\ x.prov = Select(l.prov, q.prov)
  BY DEF AddAuthRuleRow
<1>a. x.methods = q.methods /\ SplitNames(x.groups) = x.groups
  BY <1>1, ChipsKept, SplitKept DEF PlainAuthRule
<1>2. x.prov = q.prov /\ (q.acl # 0 => x.acl = q.acl)
  BY <1>1, SelectKnown
<1> DEFINE own == x.mode = "oidc" /\ x.prov # 0
           r == ReadAuthRule(x)
<1>3. r = [path |-> x.path, mode |-> x.mode, methods |-> x.methods,
           acl |-> IF x.mode = "accessList" THEN x.acl ELSE 0,
           prov |-> IF own THEN x.prov ELSE 0,
           groups |-> IF own THEN x.groups ELSE {}, emails |-> {}, pass |-> own]
  BY <1>a, Zenon DEF ReadAuthRule
<1>4. /\ q.acl = IF x.mode = "accessList" THEN x.acl ELSE 0
      /\ q.prov = IF own THEN x.prov ELSE 0
      /\ q.groups = IF own THEN x.groups ELSE {}
      /\ q.emails = {} /\ q.pass = own /\ q.path # ""
      /\ q.mode = "accessList" => q.acl # 0
  BY <1>1, <1>2 DEF PlainAuthRule
<1>5. q = [path |-> q.path, mode |-> q.mode, methods |-> q.methods, acl |-> q.acl, prov |-> q.prov,
           groups |-> q.groups, emails |-> q.emails, pass |-> q.pass]
  BY DEF PlainAuthRule
<1> HIDE DEF own, r
<1>6. r = [path |-> q.path, mode |-> q.mode, methods |-> q.methods, acl |-> q.acl, prov |-> q.prov,
           groups |-> q.groups, emails |-> q.emails, pass |-> q.pass]
  BY <1>1, <1>a, <1>3, <1>4
<1>7. x.path # "" /\ (x.mode = "accessList" => x.acl # 0)
  BY <1>1, <1>2, <1>4
<1> QED BY <1>5, <1>6, <1>7 DEF r

(* A list is the function of its rows.                                     *)
LEMMA SeqFcn == ASSUME NEW s, IsSeq(s) PROVE s = [n \in DOMAIN s |-> s[n]]
<1>1. Len(s) \in Nat /\ s \in Seq(Elements(s)) /\ DOMAIN s = 1..Len(s)
  BY SeqIs DEF IsSeq
<1>2. s \in [1..Len(s) -> Elements(s)]
  BY <1>1, LenProperties
<1> QED BY <1>1, <1>2

(* A filter that keeps every row leaves the table as it is.                *)
LEMMA RowsBack ==
  ASSUME NEW s, IsSeq(s), NEW g, g = [n \in DOMAIN s |-> g[n]], NEW S, \A n \in DOMAIN s : g[n] \in S
  PROVE  Where(g, S) = g /\ DOMAIN g = DOMAIN s
<1>1. IsSeq(g)
  BY FcnIsSeq
<1>2. DOMAIN g = DOMAIN s
  OBVIOUS
<1>3. Elements(g) \subseteq S
  BY <1>2 DEF Elements
<1> QED BY <1>1, <1>2, <1>3, WhereAll

(* Two lists with the same rows are one.                                   *)
LEMMA SameRows ==
  ASSUME NEW s, IsSeq(s), NEW t, t = [n \in DOMAIN s |-> t[n]], \A n \in DOMAIN s : t[n] = s[n]
  PROVE  t = s
<1>1. s = [n \in DOMAIN s |-> s[n]]
  BY SeqFcn
<1> QED BY <1>1

(* What has the fields it has and nothing more to it.                      *)
Fcn(o) == o = [x \in DOMAIN o |-> o[x]]

StreamFields == {"kind", "via", "acl", "cert", "cidrs", "trusted", "accept", "tls", "enabled"}

(* Streams, access lists, policies and providers.                          *)
PlainStream(o) ==
  /\ Fcn(o) /\ Has(o, StreamFields)
  /\ o.acl # 0 => o.cidrs = {}
  /\ ~o.accept => o.trusted = {}
  /\ ~o.tls => o.cert = 0
ValidAcl(o) ==
  /\ Fcn(o)
  /\ \A r \in Elements(o.rules) : ValidAclRule(r)
  /\ IsSeq(o.users)
  /\ \A u \in Elements(o.users) : u = [name |-> u.name, password |-> "kept"] /\ u.name # ""
ValidPolicy(o) ==
  /\ Fcn(o) /\ CleanSubject(o.subject)
  /\ IsSeq(o.routes)
  /\ \A w \in Elements(o.routes) : Fcn(w) /\ w.cidr # "" /\ w.bits # 0
ValidIdp(o) == Fcn(o) /\ o.secret = "kept"

(* What an object names is on the lists.                                   *)
LEMMA KnownIs == ASSUME NEW N, NEW l, Known(N, l), NEW k, NEW v, <<k, v>> \in N PROVE v \in l[k]
<1> DEFINE x == <<k, v>>
<1>1. x[1] = k /\ x[2] = v /\ x \in N
  OBVIOUS
<1> HIDE DEF x
<1> QED BY <1>1 DEF Known

(* The stream dialog gives back the stream it was filled from.             *)
LEMMA StreamBack ==
  ASSUME NEW o, o.kind = "stream", Fcn(o), Has(o, StreamFields), PlainStream(o),
         NEW l, Known(Named(o), l)
  PROVE  ReadStream(FillStream(o, l)) = o
<1>1. Named(o) = {x \in {<<"acl", o.acl>>, <<"cert", o.cert>>, <<"site", o.via>>} : x[2] # 0}
  BY DEF Named
<1>2. /\ o.acl # 0 => <<"acl", o.acl>> \in Named(o)
      /\ o.cert # 0 => <<"cert", o.cert>> \in Named(o)
      /\ o.via # 0 => <<"site", o.via>> \in Named(o)
  BY <1>1
<1>3. (o.acl # 0 => o.acl \in l.acl) /\ (o.cert # 0 => o.cert \in l.cert) /\ (o.via # 0 => o.via \in l.site)
  BY <1>2, KnownIs
<1>4. Select(l.acl, o.acl) = o.acl /\ Select(l.cert, o.cert) = o.cert /\ FillViaSelect(l, o.via) = o.via
  BY <1>3, SelectKnown DEF FillViaSelect
<1>5. FillStream(o, l) = o
  BY <1>4 DEF FillStream, Fcn
<1>6. ReadStream(o) = o
  BY DEF ReadStream, Fcn, PlainStream
<1> QED BY <1>5, <1>6

(* The dialog of an identity provider gives it back: the secret is not     *)
(* sent and the server keeps the one it has.                               *)
LEMMA IdpBack ==
  ASSUME NEW o, o.kind = "idp", Fcn(o), Has(o, {"kind", "secret"}), ValidIdp(o)
  PROVE  Merged(ReadIdp(FillIdp(o))) = o
<1> DEFINE f == FillIdp(o)
<1>1. f.kind = "idp" /\ ReadIdp(f) = f
  BY DEF FillIdp, ReadIdp, Has
<1>2. Merged(f) = [f EXCEPT !.secret = "kept"]
  BY <1>1 DEF Merged
<1>3. [f EXCEPT !.secret = "kept"] = o
  BY DEF FillIdp, Fcn, ValidIdp, Has
<1> QED BY <1>1, <1>2, <1>3

(* The routes of a policy (readRoutes) are read as they were stored.       *)
LEMMA RoutesBack ==
  ASSUME NEW s, IsSeq(s), \A w \in Elements(s) : Fcn(w) /\ w.cidr # "" /\ w.bits # 0
  PROVE  ReadRoutes(s) = s
<1> DEFINE S == {w \in Elements(s) : w.cidr # ""}
           v == Where(s, S)
           t == [n \in DOMAIN s |-> [s[n] EXCEPT !.bits = IF @ = 0 THEN 32 ELSE @]]
<1>1. ReadRoutes(s) = [n \in DOMAIN v |-> [v[n] EXCEPT !.bits = IF @ = 0 THEN 32 ELSE @]]
  BY DEF ReadRoutes, Mapped, Filter
<1>2. Elements(s) \subseteq S
  OBVIOUS
<1>3. v = s
  <2> HIDE DEF S
  <2> QED BY <1>2, WhereAll
<1> HIDE DEF v
<1>4. ReadRoutes(s) = t
  BY <1>1, <1>3
<1>5. \A n \in DOMAIN s : s[n] \in Elements(s)
  BY DEF Elements
<1>6. ASSUME NEW n \in DOMAIN s PROVE t[n] = s[n]
  <2> DEFINE w == s[n]
  <2>1. w.bits # 0 /\ Fcn(w)
    BY <1>5
  <2>2. t[n] = [w EXCEPT !.bits = w.bits]
    BY <2>1
  <2> HIDE DEF w, t
  <2>3. t[n] = w
    BY <2>1, <2>2 DEF Fcn
  <2> QED BY <2>3 DEF w
<1>7. t = [n \in DOMAIN s |-> t[n]]
  OBVIOUS
<1> HIDE DEF t
<1>8. t = s
  BY <1>6, <1>7, SameRows
<1> QED BY <1>4, <1>8

(* The policy dialog gives back the policy it was filled from.             *)
LEMMA PolicyBack ==
  ASSUME NEW o, o.kind = "policy", Fcn(o), Has(o, {"kind", "subject", "routes"}), IsSeq(o.routes),
         \A w \in Elements(o.routes) : Fcn(w), ValidSubject(o.subject), ValidPolicy(o),
         NEW l, Known(Named(o), l)
  PROVE  ReadPolicy(FillPolicy(o, l)) = o
<1> DEFINE s == o.subject
           w == MakeSubjectPicker(s, l, TRUE)
           f == FillPolicy(o, l)
<1>1. Named(o) = {x \in {<<"prov", s.prov>>, <<"peer", s.peer>>} : x[2] # 0}
  BY DEF Named, SubjectNames
<1>2. (s.prov # 0 => <<"prov", s.prov>> \in Named(o)) /\ (s.peer # 0 => <<"peer", s.peer>> \in Named(o))
  BY <1>1
<1> HIDE DEF s
<1>3. (s.prov # 0 => s.prov \in l.prov) /\ (s.peer # 0 => s.peer \in l.peer)
  BY <1>2, KnownIs
<1>4. w.prov = IF s.prov # 0 THEN Select(l.prov, s.prov) ELSE First(l.prov)
  BY DEF MakeSubjectPicker
<1>5. CleanSubject(s) /\ (s.kind \in IdentityKinds => s.prov # 0)
  BY DEF s, ValidPolicy, ValidSubject
<1>6. w = MakeSubjectPicker(s, l, TRUE)
  OBVIOUS
<1>7. f = [o EXCEPT !.subject = w]
  BY DEF FillPolicy, s
<1> HIDE DEF w, f
<1>8. s.kind \in IdentityKinds => w.prov = s.prov
  BY <1>3, <1>4, <1>5, SelectKnown
<1>9. w.kind = s.kind /\ w.peer = s.peer /\ w.who = s.who
  BY <1>3, <1>5, <1>6, IdentityShown
<1>10. ReadSubject(w, w.prov) = s
  BY <1>5, <1>8, <1>9, SubjectBack
<1>11. ReadRoutes(o.routes) = o.routes
  BY RoutesBack DEF ValidPolicy
<1>12. f.subject = w /\ f.routes = o.routes
  BY <1>7 DEF Has
<1>13. ReadPolicy(f) = [f EXCEPT !.subject = s, !.routes = o.routes]
  BY <1>10, <1>11, <1>12 DEF ReadPolicy
<1>14. [f EXCEPT !.subject = s, !.routes = o.routes] = o
  BY <1>7 DEF Fcn, s
<1> QED BY <1>13, <1>14 DEF f

(* The access list dialog gives back the list it was filled from, the      *)
(* passwords by what the server keeps when none is sent.                   *)
LEMMA AclBack ==
  ASSUME NEW o, o.kind = "acl", Fcn(o), StoredAcl(o), ValidAcl(o), Expressible(o),
         NEW l, Known(Named(o), l)
  PROVE  Merged(ReadAcl(FillAcl(o, l))) = o
<1> DEFINE g == [n \in DOMAIN o.rules |-> AddAclRuleRow(o.rules[n], l)]
           S == {x \in Elements(g) : x.kind = "vpn" \/ x.val # ""}
           sent == [n \in DOMAIN Where(g, S) |-> ReadAclRule(Where(g, S)[n])]
           h == [n \in DOMAIN o.users |-> [name |-> o.users[n].name, password |-> ""]]
           T == {u \in Elements(h) : u.name # ""}
           v == Where(h, T)
           kept == [n \in DOMAIN v |-> [v[n] EXCEPT !.password = "kept"]]
           f == FillAcl(o, l)
           t == ReadAcl(f)
<1>1. Named(o) = {x \in UNION {{<<"prov", q.vpn.prov>>, <<"peer", q.vpn.peer>>} : q \in Elements(o.rules)} : x[2] # 0}
  BY DEF Named, SubjectNames
<1>2. ASSUME NEW q \in Elements(o.rules)
      PROVE  (q.vpn.prov # 0 => q.vpn.prov \in l.prov) /\ (q.vpn.peer # 0 => q.vpn.peer \in l.peer)
  <2>1. /\ q.vpn.prov # 0 => <<"prov", q.vpn.prov>> \in Named(o)
        /\ q.vpn.peer # 0 => <<"peer", q.vpn.peer>> \in Named(o)
    BY <1>1
  <2> QED BY <2>1, KnownIs
<1>3. \A q \in Elements(o.rules) : q.country \in Countries \cup {""} /\ q.methods \subseteq Verbs
  BY DEF Expressible
<1>4. \A q \in Elements(o.rules) : ValidAclRule(q) /\ ValidSubject(q.vpn)
  BY DEF ValidAcl, StoredAcl
<1>5. ASSUME NEW n \in DOMAIN o.rules
      PROVE  (g[n].kind = "vpn" \/ g[n].val # "") /\ ReadAclRule(g[n]) = o.rules[n]
  <2> DEFINE q == o.rules[n]
             x == g[n]
  <2>1. q \in Elements(o.rules) /\ x = AddAclRuleRow(q, l)
    BY DEF Elements
  <2> HIDE DEF q, x
  <2>2. (x.kind = "vpn" \/ x.val # "") /\ ReadAclRule(x) = q
    BY <1>2, <1>3, <1>4, <2>1, AclRuleBack
  <2> QED BY <2>2 DEF q, x
<1>6. sent = o.rules
  <2>1. \A n \in DOMAIN o.rules : g[n] \in S
    BY <1>5 DEF Elements
  <2>2. g = [n \in DOMAIN o.rules |-> g[n]] /\ IsSeq(o.rules)
    BY DEF StoredAcl
  <2> HIDE DEF g, S
  <2>3. Where(g, S) = g /\ DOMAIN g = DOMAIN o.rules
    BY <2>1, <2>2, RowsBack
  <2>4. sent = [n \in DOMAIN o.rules |-> ReadAclRule(g[n])]
    BY <2>3
  <2> HIDE DEF sent
  <2>5. sent = [n \in DOMAIN o.rules |-> sent[n]] /\ \A n \in DOMAIN o.rules : sent[n] = o.rules[n]
    BY <1>5, <2>4
  <2> QED BY <2>2, <2>5, SameRows
<1>7. kept = o.users
  <2>0. IsSeq(o.users)
    BY DEF ValidAcl
  <2>1. ASSUME NEW n \in DOMAIN o.users
        PROVE  h[n] \in T /\ [h[n] EXCEPT !.password = "kept"] = o.users[n]
    <3> DEFINE u == o.users[n]
    <3>1. u = [name |-> u.name, password |-> "kept"] /\ u.name # "" /\ h[n] = [name |-> u.name, password |-> ""]
      BY DEF Elements, ValidAcl
    <3>2. h[n] \in Elements(h)
      BY DEF Elements
    <3> HIDE DEF u, h
    <3>3. h[n].name # "" /\ [h[n] EXCEPT !.password = "kept"] = u
      <4> DEFINE a == u.name
                 y == [name |-> a, password |-> ""]
      <4> HIDE DEF a
      <4>1. y.name = a /\ [y EXCEPT !.password = "kept"] = [name |-> a, password |-> "kept"]
        <5> DEFINE z == [y EXCEPT !.password = "kept"]
                   r == [name |-> a, password |-> "kept"]
        <5>1. DOMAIN y = {"name", "password"} /\ y.name = a
          OBVIOUS
        <5>2. DOMAIN r = {"name", "password"} /\ r.name = a /\ r.password = "kept" /\ r = [x \in DOMAIN r |-> r[x]]
          OBVIOUS
        <5> HIDE DEF y, r
        <5>3. z = [x \in {"name", "password"} |-> IF x = "password" THEN "kept" ELSE y[x]]
          BY <5>1
        <5> HIDE DEF z
        <5>4. z = r
          BY <5>1, <5>2, <5>3
        <5> QED BY <5>1, <5>4 DEF z, r
      <4>2. h[n] = y /\ u = [name |-> a, password |-> "kept"] /\ a # ""
        BY <3>1 DEF a
      <4> HIDE DEF y
      <4> QED BY <4>1, <4>2
    <3> QED BY <3>2, <3>3 DEF u
  <2>2. h = [n \in DOMAIN o.users |-> h[n]]
    OBVIOUS
  <2>3. v = Where(h, T)
    OBVIOUS
  <2> HIDE DEF h, T, v
  <2>4. v = h /\ DOMAIN h = DOMAIN o.users
    BY <2>0, <2>1, <2>2, <2>3, RowsBack
  <2>5. kept = [n \in DOMAIN o.users |-> [h[n] EXCEPT !.password = "kept"]]
    BY <2>4
  <2> HIDE DEF kept
  <2>6. kept = [n \in DOMAIN o.users |-> kept[n]] /\ \A n \in DOMAIN o.users : kept[n] = o.users[n]
    BY <2>1, <2>5
  <2> QED BY <2>0, <2>6, SameRows
<1>8. Has(o, {"kind", "rules", "users"})
  BY DEF StoredAcl
<1>9. f = [o EXCEPT !.rules = g, !.users = h]
  BY DEF FillAcl, Mapped
<1>10. f.rules = g /\ f.users = h /\ f.kind = "acl"
  <2> HIDE DEF g, h, f
  <2> QED BY <1>8, <1>9 DEF Has
<1>11. t = [f EXCEPT !.rules = sent, !.users = v]
  BY <1>10 DEF ReadAcl, Mapped, Filter
<1>12. t.users = v /\ t.kind = "acl"
  <2> HIDE DEF g, h, f, sent, v, t
  <2> QED BY <1>8, <1>9, <1>11 DEF Has
<1>13. Merged(t) = [t EXCEPT !.users = kept]
  BY <1>12 DEF Merged, Mapped
<1> HIDE DEF g, h, f, sent, v, t, kept
<1>14. [t EXCEPT !.users = kept] = [o EXCEPT !.rules = sent, !.users = kept]
  BY <1>9, <1>11
<1>15. [o EXCEPT !.rules = sent, !.users = kept] = o
  BY <1>6, <1>7 DEF Fcn
<1> QED BY <1>13, <1>14, <1>15 DEF t, f

(* The fields of a host, and what the dialog writes into them.             *)
HostFields ==
  {"kind", "type", "up", "pool", "locations", "root", "redirect", "acl", "certMode", "cert",
   "forceSsl", "enabled", "vpnOnly", "portal", "flag", "text", "seconds", "http3", "hsts", "rate",
   "rewrite", "fauth", "oidc", "rules", "mtls", "headers"}

ValidPortal(p) ==
  /\ p = [prov |-> p.prov, claims |-> p.claims, enrol |-> p.enrol]
  /\ p.claims # ""
  /\ \A s \in Elements(p.enrol) : /\ CleanSubject(s)
                                  /\ s.kind \in IdentityKinds => s.prov = p.prov
                                  /\ s.kind # "group" \/ s.who # ""

PlainPool(pool, via) ==
  \A u \in Elements(pool) : u = [host |-> u.host, via |-> via] /\ u.host # "" /\ u.host \notin Unwritable
PlainLocations(locations, via) ==
  \A x \in Elements(locations) :
     /\ x = [path |-> x.path, up |-> [host |-> x.up.host, via |-> via], strip |-> x.strip, rest |-> ""]
     /\ x.path # "" /\ x.up.host \notin Unwritable
PlainHeaders(headers) ==
  \A w \in Elements(headers) : w.name # "" /\ (w.op = "remove" => w.value = "")

(* viaOn puts the site of the host on an upstream that was read without    *)
(* one.                                                                    *)
LEMMA ViaBack == ASSUME NEW h, NEW via PROVE ViaOn([host |-> h, via |-> 0], via) = [host |-> h, via |-> via]
<1> DEFINE y == [host |-> h, via |-> 0]
           r == [host |-> h, via |-> via]
           z == [y EXCEPT !.via = via]
<1>1. DOMAIN y = {"host", "via"} /\ y.host = h /\ y.via = 0 /\ y = [x \in DOMAIN y |-> y[x]]
  OBVIOUS
<1>2. DOMAIN r = {"host", "via"} /\ r.host = h /\ r.via = via /\ r = [x \in DOMAIN r |-> r[x]]
  OBVIOUS
<1>3. ViaOn(y, via) = IF via = 0 THEN y ELSE z
  BY DEF ViaOn
<1> HIDE DEF y, r
<1>4. z = [x \in {"host", "via"} |-> IF x = "via" THEN via ELSE y[x]]
  BY <1>1
<1> HIDE DEF z
<1>5. z = r
  BY <1>1, <1>2, <1>4
<1>6. via = 0 => y = r
  BY <1>1, <1>2
<1>7. ViaOn(y, via) = r
  BY <1>3, <1>5, <1>6
<1> QED BY <1>7 DEF y, r

(* The pool, written into a text area one line for each member and parsed  *)
(* again (parsePool), with the site of the host put on each.               *)
LEMMA PoolBack ==
  ASSUME NEW pool, IsSeq(pool), NEW via, PlainPool(pool, via),
         NEW g, g = [n \in DOMAIN pool |-> pool[n].host]
  PROVE  [n \in DOMAIN ParsePool(g) |-> ViaOn(ParsePool(g)[n], via)] = pool
<1> DEFINE S == {u \in Elements(g) : u # "" /\ u \notin Unwritable}
           v == Where(g, S)
           p == ParsePool(g)
           t == [n \in DOMAIN p |-> ViaOn(p[n], via)]
<1>1. p = [n \in DOMAIN v |-> [host |-> v[n], via |-> 0]]
  BY DEF ParsePool, Mapped, Filter
<1>2. ASSUME NEW n \in DOMAIN pool
      PROVE  pool[n] = [host |-> g[n], via |-> via] /\ g[n] \in S
  <2>1. pool[n] \in Elements(pool) /\ g[n] \in Elements(g) /\ g[n] = pool[n].host
    BY DEF Elements
  <2> QED BY <2>1 DEF PlainPool
<1>3. g = [n \in DOMAIN pool |-> g[n]] /\ v = Where(g, S)
  OBVIOUS
<1> HIDE DEF S, v, p
<1>4. v = g /\ DOMAIN g = DOMAIN pool
  BY <1>2, <1>3, RowsBack
<1>5. t = [n \in DOMAIN p |-> ViaOn(p[n], via)]
  OBVIOUS
<1> HIDE DEF t
<1>6. DOMAIN p = DOMAIN pool /\ \A n \in DOMAIN pool : p[n] = [host |-> g[n], via |-> 0]
  BY <1>1, <1>4
<1>7. ASSUME NEW n \in DOMAIN pool PROVE t[n] = pool[n]
  <2> DEFINE h == g[n]
             x == [host |-> h, via |-> 0]
             y == [host |-> h, via |-> via]
  <2>1. p[n] = x /\ pool[n] = y
    BY <1>2, <1>6
  <2>2. t[n] = ViaOn(p[n], via)
    BY <1>5, <1>6
  <2>3. ViaOn(x, via) = y
    BY ViaBack
  <2> HIDE DEF h, x, y
  <2> QED BY <2>1, <2>2, <2>3
<1>8. t = [n \in DOMAIN pool |-> ViaOn(p[n], via)]
  BY <1>5, <1>6
<1>9. t = [n \in DOMAIN pool |-> t[n]]
  BY <1>8
<1>10. t = pool
  BY <1>7, <1>9, SameRows
<1> QED BY <1>10 DEF t, p

(* A location with another upstream, field by field.                       *)
LEMMA FieldsOf ==
  ASSUME NEW y, NEW V, NEW z, z = [x \in {"path", "up", "strip", "rest"} |-> IF x = "up" THEN V ELSE y[x]],
         NEW r, DOMAIN r = {"path", "up", "strip", "rest"}, r = [x \in DOMAIN r |-> r[x]],
         r.path = y.path, r.up = V, r.strip = y.strip, r.rest = y.rest
  PROVE  z = r
<1>1. \A x \in {"path", "up", "strip", "rest"} : z[x] = r[x]
  OBVIOUS
<1> QED BY <1>1

(* The locations, shown as rows and read back (addLocationRow and          *)
(* readLocations), with the site of the host put on each.                  *)
LEMMA LocationsBack ==
  ASSUME NEW locations, IsSeq(locations), NEW via, PlainLocations(locations, via),
         NEW g, g = [n \in DOMAIN locations |-> AddLocationRow(locations[n])],
         NEW p, p = ReadLocations(g)
  PROVE  [n \in DOMAIN p |-> [p[n] EXCEPT !.up = ViaOn(@, via)]] = locations
<1> DEFINE S == {w \in Elements(g) : w.path # "" /\ w.up \notin Unwritable}
           v == Where(g, S)
           t == [n \in DOMAIN p |-> [p[n] EXCEPT !.up = ViaOn(@, via)]]
<1>1. p = [n \in DOMAIN v |-> [path |-> v[n].path, up |-> [host |-> v[n].up, via |-> 0],
                               strip |-> v[n].strip, rest |-> ""]]
  BY DEF ReadLocations, Mapped, Filter
<1>2. ASSUME NEW n \in DOMAIN locations
      PROVE  /\ locations[n] = [path |-> g[n].path, up |-> [host |-> g[n].up, via |-> via],
                                strip |-> g[n].strip, rest |-> ""]
             /\ g[n] \in S
  <2> DEFINE x == locations[n]
             w == g[n]
  <2>1. x \in Elements(locations) /\ w \in Elements(g) /\ w = AddLocationRow(x)
    BY DEF Elements
  <2>2. w.path = x.path /\ w.up = x.up.host /\ w.strip = x.strip
    BY <2>1 DEF AddLocationRow
  <2>3. /\ x = [path |-> x.path, up |-> [host |-> x.up.host, via |-> via], strip |-> x.strip, rest |-> ""]
        /\ x.path # "" /\ x.up.host \notin Unwritable
    BY <2>1 DEF PlainLocations
  <2> HIDE DEF x, w
  <2>4. x = [path |-> w.path, up |-> [host |-> w.up, via |-> via], strip |-> w.strip, rest |-> ""]
    BY <2>2, <2>3, Zenon
  <2> QED BY <2>1, <2>2, <2>3, <2>4 DEF x, w
<1>3. g = [n \in DOMAIN locations |-> g[n]] /\ v = Where(g, S)
  OBVIOUS
<1>s. \A n \in DOMAIN locations : g[n] \in S
  BY <1>2
<1> HIDE DEF S, v
<1>4. v = g /\ DOMAIN g = DOMAIN locations
  BY <1>3, <1>s, RowsBack, ZenonT(60)
<1>p. p = [n \in DOMAIN locations |-> [path |-> g[n].path, up |-> [host |-> g[n].up, via |-> 0],
                                       strip |-> g[n].strip, rest |-> ""]]
  BY <1>1, <1>4, Zenon
<1>5. /\ DOMAIN p = DOMAIN locations
      /\ \A n \in DOMAIN locations : p[n] = [path |-> g[n].path, up |-> [host |-> g[n].up, via |-> 0],
                                             strip |-> g[n].strip, rest |-> ""]
  BY <1>p, Zenon
<1>t. t = [n \in DOMAIN locations |-> [p[n] EXCEPT !.up = ViaOn(@, via)]]
  BY <1>5
<1> HIDE DEF t
<1>6. ASSUME NEW n \in DOMAIN locations PROVE t[n] = locations[n]
  <2> DEFINE a == g[n].path
             b == g[n].strip
             h == g[n].up
             U == [host |-> h, via |-> 0]
             V == [host |-> h, via |-> via]
             y == [path |-> a, up |-> U, strip |-> b, rest |-> ""]
             r == [path |-> a, up |-> V, strip |-> b, rest |-> ""]
             D == {"path", "up", "strip", "rest"}
  <2>1. p[n] = y /\ locations[n] = r
    BY <1>2, <1>5
  <2>2. ViaOn(U, via) = V
    BY ViaBack
  <2> HIDE DEF a, b, h, U, V
  <2>3. DOMAIN y = D /\ y.path = a /\ y.up = U /\ y.strip = b /\ y.rest = ""
    OBVIOUS
  <2>4. DOMAIN r = D /\ r.path = a /\ r.up = V /\ r.strip = b /\ r.rest = "" /\ r = [x \in DOMAIN r |-> r[x]]
    OBVIOUS
  <2> HIDE DEF y, r
  <2>5. t[n] = [y EXCEPT !.up = ViaOn(y.up, via)]
    BY <1>t, <2>1
  <2> DEFINE z == [y EXCEPT !.up = V]
  <2>6. z = [x \in D |-> IF x = "up" THEN V ELSE y[x]]
    BY <2>3
  <2>8. t[n] = z
    BY <2>2, <2>3, <2>5
  <2> HIDE DEF z
  <2>10. r.path = y.path /\ r.up = V /\ r.strip = y.strip /\ r.rest = y.rest
    BY <2>3, <2>4
  <2>11. r = [x \in DOMAIN r |-> r[x]]
    BY <2>4
  <2>9. z = r
    BY <2>4, <2>6, <2>10, <2>11, FieldsOf, ZenonT(60)
  <2>7. t[n] = r
    BY <2>8, <2>9
  <2> QED BY <2>1, <2>7
<1>7. t = [n \in DOMAIN locations |-> t[n]]
  BY <1>t
<1>8. t = locations
  BY <1>6, <1>7, SameRows
<1> QED BY <1>8 DEF t

(* The header rules (readHdrRows) are read as they were stored.            *)
LEMMA HeadersBack ==
  ASSUME NEW s, IsSeq(s), \A w \in Elements(s) : Fcn(w), PlainHeaders(s)
  PROVE  ReadHdrRows(s) = s
<1> DEFINE S == {w \in Elements(s) : w.name # ""}
           v == Where(s, S)
           t == [n \in DOMAIN s |-> IF s[n].op = "remove" THEN [s[n] EXCEPT !.value = ""] ELSE s[n]]
<1>1. ReadHdrRows(s) = [n \in DOMAIN v |-> IF v[n].op = "remove" THEN [v[n] EXCEPT !.value = ""] ELSE v[n]]
  BY DEF ReadHdrRows, Mapped, Filter
<1>2. Elements(s) \subseteq S
  BY DEF PlainHeaders
<1>3. v = s
  <2> HIDE DEF S
  <2> QED BY <1>2, WhereAll
<1> HIDE DEF v
<1>4. ReadHdrRows(s) = t
  BY <1>1, <1>3
<1>5. \A n \in DOMAIN s : s[n] \in Elements(s)
  BY DEF Elements
<1>6. ASSUME NEW n \in DOMAIN s PROVE t[n] = s[n]
  <2> DEFINE w == s[n]
  <2>1. Fcn(w) /\ (w.op = "remove" => w.value = "")
    BY <1>5 DEF PlainHeaders
  <2>2. t[n] = IF w.op = "remove" THEN [w EXCEPT !.value = ""] ELSE w
    OBVIOUS
  <2> HIDE DEF w, t
  <2>3. w.value = "" => [w EXCEPT !.value = ""] = w
    BY <2>1 DEF Fcn
  <2>4. t[n] = w
    BY <2>1, <2>2, <2>3
  <2> QED BY <2>4 DEF w
<1>7. t = [n \in DOMAIN s |-> t[n]]
  OBVIOUS
<1> HIDE DEF t
<1>8. t = s
  BY <1>6, <1>7, SameRows
<1> QED BY <1>4, <1>8

(* The auth rules of a host are read as they were stored: none is left     *)
(* out, because each has its path and, by access list, its list.           *)
LEMMA RulesBack ==
  ASSUME NEW rules, IsSeq(rules), NEW l,
         \A q \in Elements(rules) : /\ PlainAuthRule(q)
                                    /\ q.acl # 0 => q.acl \in l.acl
                                    /\ q.prov # 0 => q.prov \in l.prov,
         NEW g, g = [n \in DOMAIN rules |-> AddAuthRuleRow(rules[n], l)]
  PROVE  ReadAuthRules(g) = rules
<1> DEFINE S == {w \in Elements(g) : w.path # "" /\ (w.mode = "accessList" => w.acl # 0)}
           v == Where(g, S)
           t == ReadAuthRules(g)
<1>1. t = [n \in DOMAIN v |-> ReadAuthRule(v[n])]
  BY DEF ReadAuthRules, Mapped, Filter
<1>2. ASSUME NEW n \in DOMAIN rules PROVE g[n] \in S /\ ReadAuthRule(g[n]) = rules[n]
  <2> DEFINE q == rules[n]
             x == g[n]
  <2>1. q \in Elements(rules) /\ x = AddAuthRuleRow(q, l) /\ x \in Elements(g)
    BY DEF Elements
  <2> HIDE DEF q, x
  <2>2. x.path # "" /\ (x.mode = "accessList" => x.acl # 0) /\ ReadAuthRule(x) = q
    BY <2>1, AuthRuleBack
  <2> QED BY <2>1, <2>2 DEF q, x
<1>3. g = [n \in DOMAIN rules |-> g[n]] /\ v = Where(g, S)
  OBVIOUS
<1> HIDE DEF S, v, t
<1>4. v = g /\ DOMAIN g = DOMAIN rules
  BY <1>2, <1>3, RowsBack
<1>5. t = [n \in DOMAIN rules |-> t[n]] /\ \A n \in DOMAIN rules : t[n] = rules[n]
  BY <1>1, <1>2, <1>4
<1>6. t = rules
  BY <1>5, SameRows
<1> QED BY <1>6 DEF t

(* The portal block (fillPortalBlock and readPortalOptions) gives back the *)
(* portal: each enrolment is about the portal's own provider.              *)
LEMMA PortalBack ==
  ASSUME NEW o, IsSeq(o.portal.enrol), o.portal.prov # 0, ValidPortal(o.portal),
         NEW l, o.portal.prov \in l.prov,
         \A s \in Elements(o.portal.enrol) : s.peer # 0 => s.peer \in l.peer,
         NEW b, b = FillPortalBlock(o, l)
  PROVE  ReadPortalOptions(b) = o.portal
<1> DEFINE po == o.portal
           enrol == po.enrol
           g == [n \in DOMAIN enrol |-> ReadSubject(MakeSubjectPicker(enrol[n], l, TRUE), b.prov)]
           S == {s \in Elements(g) : s.kind # "group" \/ s.who # ""}
           v == Where(g, S)
           r == ReadPortalOptions(b)
<1>1. po # NoPortal
  <2>1. NoPortal.prov = 0
    BY DEF NoPortal
  <2> QED BY <2>1
<1>2. /\ b.prov = Select(l.prov, po.prov) /\ b.claims = IF po.claims = "" THEN "id_token" ELSE po.claims
      /\ b.enrol = [n \in DOMAIN enrol |-> MakeSubjectPicker(enrol[n], l, TRUE)]
  BY <1>1 DEF FillPortalBlock, Mapped
<1>3. b.prov = po.prov /\ b.claims = po.claims
  BY <1>2, SelectKnown DEF ValidPortal
<1>4. r = [prov |-> b.prov, claims |-> b.claims, enrol |-> v]
  BY <1>2 DEF ReadPortalOptions, Mapped, Filter
<1>5. ASSUME NEW n \in DOMAIN enrol PROVE g[n] \in S /\ g[n] = enrol[n]
  <2> DEFINE s == enrol[n]
             w == MakeSubjectPicker(s, l, TRUE)
             prov == b.prov
  <2>1. s \in Elements(enrol) /\ g[n] \in Elements(g)
    BY DEF Elements
  <2>2. /\ CleanSubject(s) /\ (s.kind \in IdentityKinds => prov = s.prov) /\ (s.kind # "group" \/ s.who # "")
        /\ s.peer # 0 => s.peer \in l.peer
    BY <1>3, <2>1 DEF ValidPortal
  <2>3. w = MakeSubjectPicker(s, l, TRUE) /\ g[n] = ReadSubject(w, prov)
    OBVIOUS
  <2> HIDE DEF s, w, prov, g
  <2>4. w.kind = s.kind /\ w.peer = s.peer /\ w.who = s.who
    BY <2>2, <2>3, IdentityShown
  <2>5. ReadSubject(w, prov) = s
    BY <2>2, <2>4, SubjectBack
  <2>6. g[n] = s
    BY <2>3, <2>5
  <2>7. g[n] \in S
    BY <2>1, <2>2, <2>6
  <2> QED BY <2>6, <2>7 DEF s
<1>6. g = [n \in DOMAIN enrol |-> g[n]] /\ v = Where(g, S)
  OBVIOUS
<1> HIDE DEF g, S, v, r
<1>7. v = g
  BY <1>5, <1>6, RowsBack
<1>8. g = enrol
  BY <1>5, <1>6, SameRows
<1>9. po = [prov |-> po.prov, claims |-> po.claims, enrol |-> po.enrol]
  BY DEF ValidPortal
<1> HIDE DEF po
<1>10. r = [prov |-> po.prov, claims |-> po.claims, enrol |-> po.enrol]
  BY <1>3, <1>4, <1>7, <1>8, Zenon
<1> QED BY <1>9, <1>10 DEF r, po

(* The fields of a proxy.                                                  *)
PlainProxy(h) ==
  /\ h.up = [host |-> h.up.host, via |-> h.up.via]
  /\ PlainPool(h.pool, h.up.via)
  /\ PlainLocations(h.locations, h.up.via)
  /\ \A r \in Elements(h.rules) : PlainAuthRule(r)
  /\ \/ h.oidc = NoOidc
     \/ /\ h.oidc = [prov |-> h.oidc.prov, groups |-> h.oidc.groups, pass |-> h.oidc.pass]
        /\ h.oidc.prov # 0 /\ h.oidc.pass \in BOOLEAN /\ Plainly(h.oidc.groups)

(* The fields of the type a host has, and none of the others.              *)
PlainType(h) ==
  /\ IF h.type = "proxy" THEN PlainProxy(h)
     ELSE /\ h.up = NoUpstream /\ h.oidc = NoOidc
          /\ h.pool = << >> /\ h.locations = << >> /\ h.rules = << >>
  /\ h.type # "static" => h.root = ""
  /\ IF h.type = "redirect"
     THEN /\ h.redirect = [code |-> h.redirect.code, host |-> h.redirect.host, path |-> h.redirect.path]
          /\ h.redirect.code # 0
     ELSE h.redirect = NoRedirect
  /\ IF h.type = "vpn-portal" THEN ValidPortal(h.portal) /\ h.vpnOnly = FALSE
     ELSE h.portal = NoPortal /\ h.vpnOnly \in BOOLEAN

(* The options that every host has, with their defaults written out.       *)
PlainOptions(h) ==
  /\ h.certMode # "custom" => h.cert = 0
  /\ h.forceSsl \in BOOLEAN /\ (h.forceSsl => h.certMode \in {"auto", "custom"})
  /\ h.http3 \in {"unset", "on", "off"}
  /\ h.hsts = [on |-> h.hsts.on, maxAge |-> h.hsts.maxAge] /\ h.hsts.maxAge # 0
  /\ \/ h.rate = NoRate
     \/ /\ h.rate = [on |-> TRUE, rps |-> h.rate.rps, burst |-> h.rate.burst]
        /\ h.rate.rps # 0 /\ h.rate.burst # 0
  /\ h.rewrite.strip = "" => h.rewrite = NoRewrite
  /\ h.mtls.mode = "" => h.mtls = [mode |-> "", ca |-> ""]
  /\ \A w \in Elements(h.headers) : w = [op |-> w.op, name |-> w.name, value |-> w.value]
  /\ PlainHeaders(h.headers)

PlainHost(h) ==
  /\ h = [x \in HostFields |-> h[x]]
  /\ IsSeq(h.pool) /\ IsSeq(h.locations) /\ IsSeq(h.headers)
  /\ PlainType(h) /\ PlainOptions(h)

(* A header rule is the function of its three fields.                      *)
LEMMA RowFcn == ASSUME NEW a, NEW b, NEW c, NEW w, w = [op |-> a, name |-> b, value |-> c] PROVE Fcn(w)
BY DEF Fcn

(* Assigning the value that is there changes nothing.                      *)
LEMMA SameValue ==
  ASSUME NEW w, Fcn(w), NEW x, NEW v, v = w[x]
  PROVE  [w EXCEPT ![x] = v] = w
BY DEF Fcn

(* What openModal puts into the fields it copies or selects.               *)
LEMMA HostShows ==
  ASSUME NEW o, NEW l, NEW f, f = FillHost(o, l)
  PROVE  /\ f.type = o.type /\ f.up = o.up.host /\ f.via = FillViaSelect(l, o.up.via)
         /\ f.root = o.root
         /\ f.acl = Select(l.acl, o.acl) /\ f.certMode = o.certMode /\ f.cert = Select(l.cert, o.cert)
         /\ f.forceSsl = o.forceSsl /\ f.enabled = o.enabled /\ f.vpnOnly = o.vpnOnly
         /\ f.flag = o.flag /\ f.text = o.text /\ f.seconds = o.seconds
         /\ f.rate = o.rate /\ f.rewrite = o.rewrite /\ f.fauth = o.fauth
         /\ f.mtls = o.mtls /\ f.headers = o.headers
<1>1. /\ f.type = o.type /\ f.up = o.up.host /\ f.via = FillViaSelect(l, o.up.via)
      /\ f.root = o.root
      /\ f.acl = Select(l.acl, o.acl) /\ f.certMode = o.certMode /\ f.cert = Select(l.cert, o.cert)
      /\ f.forceSsl = o.forceSsl /\ f.enabled = o.enabled /\ f.vpnOnly = o.vpnOnly
  BY ZenonT(60) DEF FillHost
<1>2. /\ f.flag = o.flag /\ f.text = o.text /\ f.seconds = o.seconds
      /\ f.rate = o.rate /\ f.rewrite = o.rewrite /\ f.fauth = o.fauth
      /\ f.mtls = o.mtls /\ f.headers = o.headers
  BY ZenonT(60) DEF FillHost
<1> QED BY <1>1, <1>2

(* What the submit handler sends has the fields of a host and no others.   *)
LEMMA HostReadsAll ==
  ASSUME NEW f, NEW b, NEW r, r = ReadHost(f, b)
  PROVE  r = [x \in HostFields |-> r[x]]
<1> DEFINE type == f.type
           up == IF type = "proxy" THEN ViaOn([host |-> f.up, via |-> 0], f.via) ELSE NoUpstream
           pool == IF type = "proxy" THEN Mapped(LAMBDA u : ViaOn(u, f.via), ParsePool(f.pool)) ELSE << >>
           locations == IF ~(type = "proxy") THEN << >>
                        ELSE Mapped(LAMBDA l : [l EXCEPT !.up = ViaOn(@, f.via)],
                                    ReadLocations(f.locations))
           root == IF type = "static" THEN f.root ELSE ""
           redirect == IF type = "redirect" THEN f.redirect ELSE NoRedirect
           cert == IF f.certMode = "custom" THEN f.cert ELSE 0
           forceSsl == f.certMode \in {"auto", "custom"} /\ f.forceSsl
           vpnOnly == type # "vpn-portal" /\ f.vpnOnly
           po == IF type = "vpn-portal" THEN ReadPortalOptions(b) ELSE NoPortal
           http3 == IF f.http3 THEN "unset" ELSE "off"
           hsts == [f.hsts EXCEPT !.maxAge = OrElse(@, DefaultAge)]
           rate == IF f.rate.on
                   THEN [on |-> TRUE, rps |-> OrElse(f.rate.rps, 10), burst |-> OrElse(f.rate.burst, 20)]
                   ELSE NoRate
           rewrite == IF f.rewrite.strip # "" THEN f.rewrite ELSE NoRewrite
           fauth == IF f.fauthOn THEN f.fauth ELSE ""
           oidc == ReadOidc(f)
           rules == IF type = "proxy" THEN ReadAuthRules(f.rules) ELSE << >>
           mtls == IF f.mtls.mode = "" THEN [mode |-> "", ca |-> ""] ELSE f.mtls
           headers == ReadHdrRows(f.headers)
<1>1. r = [kind |-> "host", type |-> type, up |-> up, pool |-> pool, locations |-> locations,
           root |-> root, redirect |-> redirect, certMode |-> f.certMode, cert |-> cert,
           forceSsl |-> forceSsl, enabled |-> f.enabled, acl |-> f.acl, vpnOnly |-> vpnOnly,
           portal |-> po, flag |-> f.flag, text |-> f.text, seconds |-> f.seconds,
           http3 |-> http3, hsts |-> hsts, rate |-> rate, rewrite |-> rewrite, fauth |-> fauth,
           oidc |-> oidc, rules |-> rules, mtls |-> mtls, headers |-> headers]
  BY ZenonT(60) DEF ReadHost
<1> HIDE DEF type, up, pool, locations, root, redirect, cert, forceSsl, vpnOnly, po, http3, hsts,
             rate, rewrite, fauth, oidc, rules, mtls, headers
<1>2. DOMAIN r = HostFields
  BY <1>1 DEF HostFields
<1>3. r = [x \in DOMAIN r |-> r[x]]
  BY <1>1
<1> QED BY <1>2, <1>3, Zenon

(* What the submit handler takes from the fields as they are.              *)
LEMMA HostReads ==
  ASSUME NEW f, NEW b, NEW r, r = ReadHost(f, b)
  PROVE  /\ r.kind = "host" /\ r.type = f.type
         /\ r.certMode = f.certMode /\ r.enabled = f.enabled /\ r.acl = f.acl
         /\ r.flag = f.flag /\ r.text = f.text /\ r.seconds = f.seconds
         /\ r.oidc = ReadOidc(f) /\ r.headers = ReadHdrRows(f.headers)
BY ZenonT(60) DEF ReadHost

(* The two switches the submit handler sends as off whatever they show:    *)
(* force SSL without a certificate, VPN only on a portal.                  *)
LEMMA HostReadsFlags ==
  ASSUME NEW f, NEW b, NEW r, r = ReadHost(f, b)
  PROVE  /\ r.forceSsl = (f.certMode \in {"auto", "custom"} /\ f.forceSsl)
         /\ r.vpnOnly = (f.type # "vpn-portal" /\ f.vpnOnly)
BY ZenonT(60) DEF ReadHost

(* The age of HSTS, with its default for an empty field.                   *)
LEMMA HostReadsHsts ==
  ASSUME NEW f, NEW b, NEW r, r = ReadHost(f, b)
  PROVE  r.hsts = [f.hsts EXCEPT !.maxAge = OrElse(@, DefaultAge)]
BY ZenonT(60) DEF ReadHost

(* The rate limit, with its defaults for empty fields, or none.            *)
LEMMA HostReadsRate ==
  ASSUME NEW f, NEW b, NEW r, r = ReadHost(f, b)
  PROVE  r.rate = IF f.rate.on THEN [on |-> TRUE, rps |-> OrElse(f.rate.rps, 10),
                                     burst |-> OrElse(f.rate.burst, 20)]
                  ELSE NoRate
BY ZenonT(60) DEF ReadHost

(* A host that is no proxy is sent without upstreams.                      *)
LEMMA HostReadsNone ==
  ASSUME NEW f, NEW b, NEW r, r = ReadHost(f, b), f.type # "proxy"
  PROVE  r.up = NoUpstream /\ r.pool = << >> /\ r.locations = << >>
BY ZenonT(60) DEF ReadHost

(* What a host refers to is on the lists, one reference at a time.         *)
LEMMA HostKnown ==
  ASSUME NEW o, o.kind = "host", NEW l, Known(Named(o), l)
  PROVE  /\ o.acl # 0 => o.acl \in l.acl
         /\ o.cert # 0 => o.cert \in l.cert
         /\ o.oidc.prov # 0 => o.oidc.prov \in l.prov
         /\ o.up.via # 0 => o.up.via \in l.site
         /\ o.portal.prov # 0 => o.portal.prov \in l.prov
         /\ \A q \in Elements(o.rules) : (q.acl # 0 => q.acl \in l.acl) /\ (q.prov # 0 => q.prov \in l.prov)
         /\ \A s \in Elements(o.portal.enrol) : s.peer # 0 => s.peer \in l.peer
<1> DEFINE A == {<<"acl", o.acl>>, <<"cert", o.cert>>, <<"prov", o.oidc.prov>>,
                 <<"site", o.up.via>>, <<"prov", o.portal.prov>>}
           B == {<<"acl", r.acl>> : r \in Elements(o.rules)}
           C == {<<"prov", r.prov>> : r \in Elements(o.rules)}
           D == {<<"site", u.via>> : u \in Elements(o.pool)}
           E == {<<"site", x.up.via>> : x \in Elements(o.locations)}
           F == UNION {SubjectNames(s) : s \in Elements(o.portal.enrol)}
<1>1. Named(o) = {x \in A \cup B \cup C \cup D \cup E \cup F : x[2] # 0}
  BY DEF Named
<1> HIDE DEF D, E
<1>2. ASSUME NEW k, NEW v, <<k, v>> \in A \cup B \cup C \cup F, v # 0 PROVE v \in l[k]
  <2>1. <<k, v>> \in Named(o)
    <3> DEFINE x == <<k, v>>
    <3>1. x[2] = v /\ x \in A \cup B \cup C \cup D \cup E \cup F
      BY <1>2
    <3> HIDE DEF x, A, B, C, F
    <3> QED BY <1>1, <1>2, <3>1 DEF x
  <2> QED BY <2>1, KnownIs
<1>3. /\ <<"acl", o.acl>> \in A /\ <<"cert", o.cert>> \in A /\ <<"prov", o.oidc.prov>> \in A
      /\ <<"site", o.up.via>> \in A /\ <<"prov", o.portal.prov>> \in A
  OBVIOUS
<1>4. \A q \in Elements(o.rules) : <<"acl", q.acl>> \in B /\ <<"prov", q.prov>> \in C
  OBVIOUS
<1>5. \A s \in Elements(o.portal.enrol) : <<"peer", s.peer>> \in F
  BY DEF SubjectNames
<1> HIDE DEF A, B, C, F
<1>6. /\ o.acl # 0 => o.acl \in l.acl
      /\ o.cert # 0 => o.cert \in l.cert
      /\ o.oidc.prov # 0 => o.oidc.prov \in l.prov
      /\ o.up.via # 0 => o.up.via \in l.site
      /\ o.portal.prov # 0 => o.portal.prov \in l.prov
  BY <1>2, <1>3
<1>7. \A q \in Elements(o.rules) : (q.acl # 0 => q.acl \in l.acl) /\ (q.prov # 0 => q.prov \in l.prov)
  BY <1>2, <1>4
<1>8. \A s \in Elements(o.portal.enrol) : s.peer # 0 => s.peer \in l.peer
  BY <1>2, <1>5
<1> QED BY <1>6, <1>7, <1>8

(* The selects of the host dialog show what the host has.                  *)
LEMMA SelectsBack ==
  ASSUME NEW o, o.kind = "host", NEW l, Known(Named(o), l)
  PROVE  /\ Select(l.acl, o.acl) = o.acl /\ Select(l.cert, o.cert) = o.cert
         /\ FillViaSelect(l, o.up.via) = o.up.via
         /\ o.oidc.prov # 0 => FillProviderSelect(l, o.oidc.prov) = o.oidc.prov
<1>1. /\ o.acl # 0 => o.acl \in l.acl
      /\ o.cert # 0 => o.cert \in l.cert
      /\ o.oidc.prov # 0 => o.oidc.prov \in l.prov
      /\ o.up.via # 0 => o.up.via \in l.site
  BY HostKnown
<1> QED BY <1>1, SelectKnown DEF FillViaSelect, FillProviderSelect

(* The options that every host has are sent as they were stored; an HTTP/3 *)
(* option that is stored as on is sent as unset, which means the same.     *)
LEMMA OptionsBack ==
  ASSUME NEW o, o.kind = "host", PlainOptions(o), IsSeq(o.headers), NEW l, Known(Named(o), l),
         NEW f, f = FillHost(o, l), NEW b, NEW r, r = ReadHost(f, b)
  PROVE  /\ r.certMode = o.certMode /\ r.cert = o.cert /\ r.forceSsl = o.forceSsl
         /\ r.enabled = o.enabled /\ r.acl = o.acl
         /\ r.flag = o.flag /\ r.text = o.text /\ r.seconds = o.seconds
         /\ r.http3 = IF o.http3 = "on" THEN "unset" ELSE o.http3
         /\ r.hsts = o.hsts /\ r.rate = o.rate /\ r.rewrite = o.rewrite /\ r.fauth = o.fauth
         /\ r.mtls = o.mtls /\ r.headers = o.headers
<1>1. /\ f.acl = Select(l.acl, o.acl) /\ f.certMode = o.certMode /\ f.cert = Select(l.cert, o.cert)
      /\ f.forceSsl = o.forceSsl /\ f.enabled = o.enabled
      /\ f.flag = o.flag /\ f.text = o.text /\ f.seconds = o.seconds
      /\ f.rate = o.rate /\ f.rewrite = o.rewrite /\ f.fauth = o.fauth
      /\ f.mtls = o.mtls /\ f.headers = o.headers
  BY HostShows
<1>a. f.http3 = (o.http3 # "off") /\ f.fauthOn = (o.fauth # "")
  BY ZenonT(60) DEF FillHost
<1>2. f.hsts = [o.hsts EXCEPT !.maxAge = OrElse(@, DefaultAge)]
  BY ZenonT(60) DEF FillHost
<1>3. /\ r.certMode = f.certMode /\ r.enabled = f.enabled /\ r.acl = f.acl
      /\ r.flag = f.flag /\ r.text = f.text /\ r.seconds = f.seconds
      /\ r.headers = ReadHdrRows(f.headers)
  BY HostReads
<1>b. r.forceSsl = (f.certMode \in {"auto", "custom"} /\ f.forceSsl)
  BY HostReadsFlags
<1>c. /\ r.cert = IF f.certMode = "custom" THEN f.cert ELSE 0
      /\ r.http3 = IF f.http3 THEN "unset" ELSE "off"
      /\ r.rewrite = IF f.rewrite.strip # "" THEN f.rewrite ELSE NoRewrite
      /\ r.fauth = IF f.fauthOn THEN f.fauth ELSE ""
      /\ r.mtls = IF f.mtls.mode = "" THEN [mode |-> "", ca |-> ""] ELSE f.mtls
  BY ZenonT(60) DEF ReadHost
<1>4. r.hsts = [f.hsts EXCEPT !.maxAge = OrElse(@, DefaultAge)]
  BY HostReadsHsts
<1>5. r.rate = IF f.rate.on THEN [on |-> TRUE, rps |-> OrElse(f.rate.rps, 10),
                                  burst |-> OrElse(f.rate.burst, 20)]
               ELSE NoRate
  BY HostReadsRate
<1>6. Select(l.acl, o.acl) = o.acl /\ Select(l.cert, o.cert) = o.cert
  BY SelectsBack
<1>7. /\ o.certMode # "custom" => o.cert = 0
      /\ o.forceSsl \in BOOLEAN /\ (o.forceSsl => o.certMode \in {"auto", "custom"})
      /\ o.http3 \in {"unset", "on", "off"}
      /\ o.rewrite.strip = "" => o.rewrite = NoRewrite
      /\ o.mtls.mode = "" => o.mtls = [mode |-> "", ca |-> ""]
  BY DEF PlainOptions
<1>8. r.certMode = o.certMode /\ r.cert = o.cert /\ r.enabled = o.enabled /\ r.acl = o.acl
  BY <1>1, <1>3, <1>c, <1>6, <1>7
<1>9. r.forceSsl = o.forceSsl
  BY <1>1, <1>b, <1>7, Zenon
<1>10. /\ r.flag = o.flag /\ r.text = o.text /\ r.seconds = o.seconds
       /\ r.rewrite = o.rewrite /\ r.mtls = o.mtls
  BY <1>1, <1>3, <1>c, <1>7, Zenon
<1>11. r.http3 = (IF o.http3 = "on" THEN "unset" ELSE o.http3) /\ r.fauth = o.fauth
  BY <1>1, <1>a, <1>c, <1>7
<1>12. r.hsts = o.hsts
  <2> DEFINE h == o.hsts
  <2>1. h = [on |-> h.on, maxAge |-> h.maxAge] /\ h.maxAge # 0
    BY DEF PlainOptions
  <2> HIDE DEF h
  <2>2. Fcn(h)
    <3> DEFINE a == h.on
               c == h.maxAge
               y == [on |-> a, maxAge |-> c]
    <3> HIDE DEF a, c
    <3>1. Fcn(y)
      BY DEF Fcn
    <3> QED BY <2>1, <3>1 DEF a, c
  <2>3. OrElse(h.maxAge, DefaultAge) = h.maxAge
    BY <2>1 DEF OrElse
  <2>4. [h EXCEPT !.maxAge = OrElse(@, DefaultAge)] = h
    BY <2>2, <2>3, SameValue
  <2>5. f.hsts = h
    BY <1>2, <2>4 DEF h
  <2>6. r.hsts = h
    BY <1>4, <2>4, <2>5
  <2> QED BY <2>6 DEF h
<1>13. r.rate = o.rate
  <2> DEFINE q == o.rate
  <2>1. f.rate = q
    BY <1>1
  <2>2. \/ q = NoRate
        \/ /\ q = [on |-> TRUE, rps |-> q.rps, burst |-> q.burst]
           /\ q.rps # 0 /\ q.burst # 0
    BY DEF PlainOptions
  <2> HIDE DEF q
  <2>3. CASE q = NoRate
    <3>1. NoRate.on = FALSE
      BY DEF NoRate
    <3> QED BY <1>5, <2>1, <2>3, <3>1, Zenon DEF q
  <2>4. CASE q = [on |-> TRUE, rps |-> q.rps, burst |-> q.burst] /\ q.rps # 0 /\ q.burst # 0
    <3>1. q.on = TRUE
      <4> DEFINE u == q.rps
                 v == q.burst
                 y == [on |-> TRUE, rps |-> u, burst |-> v]
      <4>1. y.on = TRUE
        <5> HIDE DEF u, v
        <5> QED OBVIOUS
      <4>2. q = y
        BY <2>4
      <4> HIDE DEF y
      <4> QED BY <4>1, <4>2
    <3>2. OrElse(q.rps, 10) = q.rps /\ OrElse(q.burst, 20) = q.burst
      BY <2>4 DEF OrElse
    <3>3. r.rate = [on |-> TRUE, rps |-> q.rps, burst |-> q.burst]
      BY <1>5, <2>1, <3>1, <3>2, Zenon
    <3> QED BY <2>4, <3>3, Zenon DEF q
  <2> QED BY <2>2, <2>3, <2>4
<1>14. r.headers = o.headers
  <2>1. \A w \in Elements(o.headers) : w = [op |-> w.op, name |-> w.name, value |-> w.value]
    BY DEF PlainOptions
  <2>2. \A w \in Elements(o.headers) : Fcn(w)
    BY <2>1, RowFcn, Zenon
  <2>3. ReadHdrRows(o.headers) = o.headers
    BY <2>2, HeadersBack DEF PlainOptions
  <2> QED BY <1>1, <1>3, <2>3
<1> QED BY <1>8, <1>9, <1>10, <1>11, <1>12, <1>13, <1>14

(* The upstream, the pool, the locations and the auth rules of a proxy     *)
(* host are sent as they were stored.                                      *)
LEMMA UpstreamsBack ==
  ASSUME NEW o, o.kind = "host", o.type = "proxy", PlainProxy(o),
         IsSeq(o.pool), IsSeq(o.locations), IsSeq(o.rules), NEW l, Known(Named(o), l),
         NEW f, f = FillHost(o, l), NEW b, NEW r, r = ReadHost(f, b)
  PROVE  r.up = o.up /\ r.pool = o.pool /\ r.locations = o.locations /\ r.rules = o.rules
<1>1. f.type = "proxy" /\ f.up = o.up.host /\ f.via = FillViaSelect(l, o.up.via)
  BY HostShows
<1>2. /\ f.pool = [n \in DOMAIN o.pool |-> o.pool[n].host]
      /\ f.locations = [n \in DOMAIN o.locations |-> AddLocationRow(o.locations[n])]
      /\ f.rules = [n \in DOMAIN o.rules |-> AddAuthRuleRow(o.rules[n], l)]
  BY ZenonT(60) DEF FillHost, Mapped
<1> DEFINE via == o.up.via
           host == o.up.host
<1>3. f.via = via
  BY <1>1, SelectsBack
<1>4. r.up = ViaOn([host |-> f.up, via |-> 0], f.via)
  BY <1>1, ZenonT(60) DEF ReadHost, Mapped
<1>5. r.pool = [n \in DOMAIN ParsePool(f.pool) |-> ViaOn(ParsePool(f.pool)[n], f.via)]
  BY <1>1, ZenonT(60) DEF ReadHost, Mapped
<1>6. r.locations = [n \in DOMAIN ReadLocations(f.locations) |->
                       [ReadLocations(f.locations)[n] EXCEPT !.up = ViaOn(@, f.via)]]
  BY <1>1, ZenonT(60) DEF ReadHost, Mapped
<1>7. r.rules = ReadAuthRules(f.rules)
  BY <1>1, ZenonT(60) DEF ReadHost
<1>8. /\ o.up = [host |-> host, via |-> via] /\ PlainPool(o.pool, via) /\ PlainLocations(o.locations, via)
      /\ \A q \in Elements(o.rules) : PlainAuthRule(q)
  BY DEF PlainProxy
<1>9. \A q \in Elements(o.rules) : (q.acl # 0 => q.acl \in l.acl) /\ (q.prov # 0 => q.prov \in l.prov)
  BY HostKnown
<1>10. f.up = host
  BY <1>1
<1> HIDE DEF via, host
<1>11. r.up = o.up
  <2>1. ViaOn([host |-> host, via |-> 0], via) = [host |-> host, via |-> via]
    BY ViaBack
  <2> QED BY <1>3, <1>4, <1>8, <1>10, <2>1, Zenon
<1>12. r.pool = o.pool
  <2> DEFINE g == f.pool
             pool == o.pool
             t == [n \in DOMAIN ParsePool(g) |-> ViaOn(ParsePool(g)[n], via)]
  <2>1. g = [n \in DOMAIN pool |-> pool[n].host] /\ PlainPool(pool, via) /\ IsSeq(pool)
    BY <1>2, <1>8, Zenon
  <2>2. r.pool = t
    BY <1>3, <1>5, Zenon
  <2> HIDE DEF g, pool
  <2>3. t = pool
    BY <2>1, PoolBack
  <2> HIDE DEF t
  <2> QED BY <2>2, <2>3 DEF pool
<1>13. r.locations = o.locations
  <2> DEFINE g == f.locations
             locations == o.locations
             p == ReadLocations(g)
             t == [n \in DOMAIN p |-> [p[n] EXCEPT !.up = ViaOn(@, via)]]
  <2>1. /\ g = [n \in DOMAIN locations |-> AddLocationRow(locations[n])]
        /\ PlainLocations(locations, via) /\ IsSeq(locations)
    BY <1>2, <1>8, Zenon
  <2>2. r.locations = t
    BY <1>3, <1>6, Zenon
  <2>3. p = ReadLocations(g)
    OBVIOUS
  <2> HIDE DEF g, locations, p
  <2>4. t = locations
    BY <2>1, <2>3, LocationsBack
  <2> HIDE DEF t
  <2> QED BY <2>2, <2>4 DEF locations
<1>14. r.rules = o.rules
  <2> DEFINE g == f.rules
             rules == o.rules
  <2>1. g = [n \in DOMAIN rules |-> AddAuthRuleRow(rules[n], l)] /\ IsSeq(rules)
    BY <1>2, Zenon
  <2>2. \A q \in Elements(rules) : /\ PlainAuthRule(q)
                                   /\ q.acl # 0 => q.acl \in l.acl
                                   /\ q.prov # 0 => q.prov \in l.prov
    BY <1>8, <1>9
  <2> HIDE DEF g, rules
  <2>3. ReadAuthRules(g) = rules
    BY <2>1, <2>2, RulesBack, Zenon
  <2> QED BY <1>7, <2>3 DEF g, rules
<1> QED BY <1>11, <1>12, <1>13, <1>14

(* The single sign-on of a proxy host is sent as it was stored, or none if *)
(* it had none: the first provider of the list, which the dialog shows     *)
(* then, stays behind its switch.                                          *)
LEMMA OidcBack ==
  ASSUME NEW o, o.kind = "host", o.type = "proxy", PlainProxy(o), NEW l, Known(Named(o), l),
         NEW f, f = FillHost(o, l)
  PROVE  ReadOidc(f) = o.oidc
<1> DEFINE q == o.oidc
<1>1. f.type = "proxy"
  BY HostShows
<1>2. f.oidcOn = (q.prov # 0)
  BY ZenonT(60) DEF FillHost
<1>3. f.oidc = [prov |-> FillProviderSelect(l, q.prov), groups |-> q.groups, pass |-> q.prov = 0 \/ q.pass]
  BY ZenonT(60) DEF FillHost, Mapped
<1>4. ReadOidc(f) = IF f.type = "proxy" /\ f.oidcOn /\ f.oidc.prov # 0
                    THEN [f.oidc EXCEPT !.groups = SplitNames(@)] ELSE NoOidc
  BY DEF ReadOidc
<1>5. q.prov # 0 => FillProviderSelect(l, q.prov) = q.prov
  BY SelectsBack
<1>6. \/ q = NoOidc
      \/ /\ q = [prov |-> q.prov, groups |-> q.groups, pass |-> q.pass]
         /\ q.prov # 0 /\ q.pass \in BOOLEAN /\ Plainly(q.groups)
  BY DEF PlainProxy
<1>9. ReadOidc(f) = q
  <2> HIDE DEF q
  <2>1. CASE q = NoOidc
    <3>1. NoOidc.prov = 0
      BY DEF NoOidc
    <3>2. ~f.oidcOn
      BY <1>2, <2>1, <3>1, Zenon
    <3> QED BY <1>4, <2>1, <3>2, Zenon
  <2>2. CASE /\ q = [prov |-> q.prov, groups |-> q.groups, pass |-> q.pass]
             /\ q.prov # 0 /\ q.pass \in BOOLEAN /\ Plainly(q.groups)
    <3>1. (q.prov = 0 \/ q.pass) = q.pass
      BY <2>2, Zenon
    <3>2. f.oidc = [prov |-> q.prov, groups |-> q.groups, pass |-> q.pass]
      BY <1>3, <1>5, <2>2, <3>1, Zenon
    <3>3. f.oidc = q
      BY <2>2, <3>2, Zenon
    <3>4. f.oidcOn
      BY <1>2, <2>2, Zenon
    <3>5. Fcn(q)
      <4> DEFINE a == q.prov
                 c == q.groups
                 d == q.pass
                 y == [prov |-> a, groups |-> c, pass |-> d]
      <4> HIDE DEF a, c, d
      <4>1. Fcn(y)
        BY DEF Fcn
      <4> QED BY <2>2, <4>1 DEF a, c, d
    <3>6. SplitNames(q.groups) = q.groups
      BY <2>2, SplitKept
    <3>7. [q EXCEPT !.groups = SplitNames(@)] = q
      BY <3>5, <3>6, SameValue
    <3> QED BY <1>1, <1>4, <2>2, <3>3, <3>4, <3>7, Zenon
  <2> QED BY <1>6, <2>1, <2>2
<1> QED BY <1>9

(* The fields of the host's type are sent as they were stored, and those   *)
(* of the other types empty, as they were.                                 *)
LEMMA TypeBack ==
  ASSUME NEW o, o.kind = "host", PlainType(o), StoredHost(o), IsSeq(o.pool), IsSeq(o.locations),
         NEW l, Known(Named(o), l), NEW f, f = FillHost(o, l),
         NEW k, NEW b, o.type = "vpn-portal" => b = FillPortalBlock(o, k) /\ Known(Named(o), k),
         NEW r, r = ReadHost(f, b)
  PROVE  /\ r.up = o.up /\ r.pool = o.pool /\ r.locations = o.locations /\ r.rules = o.rules
         /\ r.oidc = o.oidc /\ r.root = o.root /\ r.redirect = o.redirect
         /\ r.portal = o.portal /\ r.vpnOnly = o.vpnOnly
<1>1. f.type = o.type /\ f.root = o.root /\ f.vpnOnly = o.vpnOnly
  BY HostShows
<1>2. /\ r.root = IF f.type = "static" THEN f.root ELSE ""
      /\ r.redirect = IF f.type = "redirect" THEN f.redirect ELSE NoRedirect
      /\ r.portal = IF f.type = "vpn-portal" THEN ReadPortalOptions(b) ELSE NoPortal
      /\ r.rules = IF f.type = "proxy" THEN ReadAuthRules(f.rules) ELSE << >>
  BY ZenonT(60) DEF ReadHost
<1>3. r.oidc = ReadOidc(f)
  BY HostReads
<1>4. r.vpnOnly = (f.type # "vpn-portal" /\ f.vpnOnly)
  BY HostReadsFlags, Zenon
<1>5. r.up = o.up /\ r.pool = o.pool /\ r.locations = o.locations /\ r.rules = o.rules
  <2>1. CASE o.type = "proxy"
    <3>1. PlainProxy(o) /\ IsSeq(o.rules)
      BY <2>1 DEF PlainType, StoredHost
    <3> QED BY <2>1, <3>1, UpstreamsBack
  <2>2. CASE o.type # "proxy"
    <3>1. o.up = NoUpstream /\ o.pool = << >> /\ o.locations = << >> /\ o.rules = << >>
      BY <2>2, Zenon DEF PlainType
    <3>2. f.type # "proxy"
      BY <1>1, <2>2
    <3>3. r.up = NoUpstream /\ r.pool = << >> /\ r.locations = << >>
      BY <3>2, HostReadsNone, Zenon
    <3>4. r.rules = << >>
      BY <1>2, <3>2, Zenon
    <3> QED BY <3>1, <3>3, <3>4, Zenon
  <2> QED BY <2>1, <2>2
<1>6. r.oidc = o.oidc
  <2>1. CASE o.type = "proxy"
    <3>1. PlainProxy(o)
      BY <2>1 DEF PlainType
    <3> QED BY <1>3, <2>1, <3>1, OidcBack
  <2>2. CASE o.type # "proxy"
    <3>1. o.oidc = NoOidc
      BY <2>2, Zenon DEF PlainType
    <3>2. ReadOidc(f) = NoOidc
      BY <1>1, <2>2 DEF ReadOidc
    <3> QED BY <1>3, <3>1, <3>2
  <2> QED BY <2>1, <2>2
<1>7. r.root = o.root
  <2>1. o.type # "static" => o.root = ""
    BY Zenon DEF PlainType
  <2> QED BY <1>1, <1>2, <2>1, Zenon
<1>8. r.redirect = o.redirect
  <2> DEFINE h == o.redirect
  <2>1. CASE o.type = "redirect"
    <3>1. h = [code |-> h.code, host |-> h.host, path |-> h.path] /\ h.code # 0
      BY <2>1, Zenon DEF PlainType
    <3>2. f.redirect = [h EXCEPT !.code = OrElse(@, 301)]
      BY ZenonT(60) DEF FillHost
    <3> HIDE DEF h
    <3>3. Fcn(h)
      <4> DEFINE x == h.code
                 y == h.host
                 z == h.path
                 w == [code |-> x, host |-> y, path |-> z]
      <4> HIDE DEF x, y, z
      <4>1. Fcn(w)
        BY DEF Fcn
      <4> QED BY <3>1, <4>1 DEF x, y, z
    <3>4. OrElse(h.code, 301) = h.code
      BY <3>1 DEF OrElse
    <3>5. [h EXCEPT !.code = OrElse(@, 301)] = h
      BY <3>3, <3>4, SameValue
    <3>6. f.redirect = h
      BY <3>2, <3>5
    <3>7. r.redirect = f.redirect
      BY <1>1, <1>2, <2>1, Zenon
    <3> QED BY <3>6, <3>7 DEF h
  <2>2. CASE o.type # "redirect"
    <3>1. h = NoRedirect
      BY <2>2, Zenon DEF PlainType
    <3> QED BY <1>1, <1>2, <2>2, <3>1, Zenon
  <2> QED BY <2>1, <2>2
<1>9. r.portal = o.portal /\ r.vpnOnly = o.vpnOnly
  <2>1. CASE o.type = "vpn-portal"
    <3>1. ValidPortal(o.portal) /\ o.vpnOnly = FALSE
      BY <2>1, Zenon DEF PlainType
    <3>2. IsSeq(o.portal.enrol) /\ o.portal.prov # 0
      BY <2>1 DEF StoredHost
    <3>3. Known(Named(o), k) /\ b = FillPortalBlock(o, k)
      BY <2>1
    <3>4. o.portal.prov \in k.prov /\ \A s \in Elements(o.portal.enrol) : s.peer # 0 => s.peer \in k.peer
      BY <3>2, <3>3, HostKnown
    <3>5. ReadPortalOptions(b) = o.portal
      BY <3>1, <3>2, <3>3, <3>4, PortalBack
    <3> QED BY <1>1, <1>2, <1>4, <2>1, <3>1, <3>5, Zenon
  <2>2. CASE o.type # "vpn-portal"
    <3>1. o.portal = NoPortal /\ o.vpnOnly \in BOOLEAN
      BY <2>2, Zenon DEF PlainType
    <3> QED BY <1>1, <1>2, <1>4, <2>2, <3>1, Zenon
  <2> QED BY <2>1, <2>2
<1> QED BY <1>5, <1>6, <1>7, <1>8, <1>9

(* The host dialog gives back the host it was filled from, when the portal *)
(* block it reads is the host's own and was filled from lists that had     *)
(* what the host refers to.                                                *)
LEMMA HostBack ==
  ASSUME NEW o, o.kind = "host", PlainHost(o), StoredHost(o),
         NEW l, Known(Named(o), l), NEW f, f = FillHost(o, l),
         NEW k, NEW b, o.type = "vpn-portal" => b = FillPortalBlock(o, k) /\ Known(Named(o), k),
         NEW r, r = ReadHost(f, b)
  PROVE  r = Normal(o)
<1>1. /\ o = [x \in HostFields |-> o[x]]
      /\ IsSeq(o.pool) /\ IsSeq(o.locations) /\ IsSeq(o.headers) /\ PlainType(o) /\ PlainOptions(o)
  BY Zenon DEF PlainHost
<1>2. r = [x \in HostFields |-> r[x]]
  BY HostReadsAll
<1>3. r.kind = o.kind /\ r.type = o.type
  <2>1. r.kind = "host" /\ r.type = f.type
    BY HostReads
  <2>2. f.type = o.type
    BY HostShows
  <2> QED BY <2>1, <2>2
<1>4. /\ r.up = o.up /\ r.pool = o.pool /\ r.locations = o.locations /\ r.rules = o.rules
      /\ r.oidc = o.oidc /\ r.root = o.root /\ r.redirect = o.redirect
      /\ r.portal = o.portal /\ r.vpnOnly = o.vpnOnly
  BY <1>1, TypeBack
<1>5. /\ r.certMode = o.certMode /\ r.cert = o.cert /\ r.forceSsl = o.forceSsl
      /\ r.enabled = o.enabled /\ r.acl = o.acl
      /\ r.flag = o.flag /\ r.text = o.text /\ r.seconds = o.seconds
      /\ r.http3 = IF o.http3 = "on" THEN "unset" ELSE o.http3
      /\ r.hsts = o.hsts /\ r.rate = o.rate /\ r.rewrite = o.rewrite /\ r.fauth = o.fauth
      /\ r.mtls = o.mtls /\ r.headers = o.headers
  BY <1>1, OptionsBack
<1> DEFINE h == IF o.http3 = "on" THEN "unset" ELSE o.http3
           y == [x \in HostFields |-> o[x]]
           z == [x \in HostFields |-> IF x = "http3" THEN h ELSE o[x]]
<1>6. Normal(o) = z
  <2>1. Normal(o) = IF o.http3 = "on" THEN [o EXCEPT !.http3 = "unset"] ELSE o
    BY DEF Normal
  <2>2. DOMAIN o = HostFields
    BY <1>1
  <2>3. [o EXCEPT !.http3 = "unset"] = [x \in HostFields |-> IF x = "http3" THEN "unset" ELSE o[x]]
    BY <2>2
  <2>4. CASE o.http3 = "on"
    BY <2>1, <2>3, <2>4
  <2>5. CASE o.http3 # "on"
    <3>1. z = y
      BY <2>5
    <3> QED BY <1>1, <2>1, <2>5, <3>1
  <2> QED BY <2>4, <2>5
<1>7. \A x \in HostFields : r[x] = IF x = "http3" THEN h ELSE o[x]
  <2> HIDE DEF h, y, z
  <2>1. r.http3 = h
    BY <1>5 DEF h
  <2> QED BY <1>3, <1>4, <1>5, <2>1 DEF HostFields
<1> HIDE DEF h
<1>8. r = z
  BY <1>2, <1>7, Zenon
<1> QED BY <1>6, <1>8

(* What Host.Validate and Options.validate (store.go) leave of a host: the *)
(* fields of its type are checked, some of those of other types cleared,   *)
(* and defaults filled in.                                                 *)
ValidProxy(h) ==
  /\ h.up = [host |-> h.up.host, via |-> h.up.via]
  /\ \A u \in Elements(h.pool) : u = [host |-> u.host, via |-> u.via] /\ u.host # ""
  /\ \A x \in Elements(h.locations) :
        /\ x = [path |-> x.path, up |-> [host |-> x.up.host, via |-> x.up.via], strip |-> x.strip,
                rest |-> x.rest]
        /\ x.path # ""
  /\ \A r \in Elements(h.rules) : ValidAuthRule(r)
  /\ \/ h.oidc = NoOidc
     \/ /\ h.oidc = [prov |-> h.oidc.prov, groups |-> h.oidc.groups, pass |-> h.oidc.pass]
        /\ h.oidc.prov # 0 /\ h.oidc.pass \in BOOLEAN

ValidType(h) ==
  /\ h.type = "proxy" => ValidProxy(h)
  /\ h.type # "proxy" => h.up = NoUpstream
  /\ h.type = "redirect" =>
        /\ h.redirect = [code |-> h.redirect.code, host |-> h.redirect.host, path |-> h.redirect.path]
        /\ h.redirect.code # 0
  /\ h.type # "redirect" => h.redirect = NoRedirect
  /\ h.type = "vpn-portal" => ValidPortal(h.portal) /\ h.vpnOnly = FALSE
  /\ h.vpnOnly \in BOOLEAN

ValidOptions(h) ==
  /\ h.certMode # "custom" => h.cert = 0
  /\ h.forceSsl \in BOOLEAN /\ (h.forceSsl => h.certMode \in {"auto", "custom"})
  /\ h.http3 \in {"unset", "on", "off"}
  /\ h.hsts = [on |-> h.hsts.on, maxAge |-> h.hsts.maxAge] /\ (h.hsts.on => h.hsts.maxAge # 0)
  /\ \/ h.rate = NoRate
     \/ /\ h.rate = [on |-> TRUE, rps |-> h.rate.rps, burst |-> h.rate.burst]
        /\ h.rate.rps # 0 /\ h.rate.burst # 0
  /\ h.mtls.mode = "" => h.mtls = [mode |-> "", ca |-> ""]
  /\ \A w \in Elements(h.headers) :
        w = [op |-> w.op, name |-> w.name, value |-> w.value] /\ w.name # ""

ValidHost(h) ==
  /\ h = [x \in HostFields |-> h[x]]
  /\ IsSeq(h.pool) /\ IsSeq(h.locations) /\ IsSeq(h.headers)
  /\ ValidType(h) /\ ValidOptions(h)

(* Stream.Validate (access.go) clears the trusted proxies of a stream that *)
(* does not accept the PROXY protocol.                                     *)
ValidStream(o) == Fcn(o) /\ Has(o, StreamFields) /\ (~o.accept => o.trusted = {})

(* An object the server stores.                                            *)
Valid(o) ==
  /\ o.kind = "host" => ValidHost(o)
  /\ o.kind = "stream" => ValidStream(o)
  /\ o.kind = "acl" => ValidAcl(o)
  /\ o.kind = "policy" => ValidPolicy(o)
  /\ o.kind = "idp" => ValidIdp(o)

(* An auth rule the dialog has fields for.                                 *)
LEMMA PlainRule ==
  ASSUME NEW r, ValidAuthRule(r), r.methods \subseteq Verbs, r.emails = {}, r.pass = (r.prov # 0),
         Plainly(r.groups)
  PROVE  PlainAuthRule(r)
<1>1. r = [path |-> r.path, mode |-> r.mode, methods |-> r.methods, acl |-> r.acl, prov |-> r.prov,
           groups |-> r.groups, emails |-> r.emails, pass |-> r.pass]
  BY DEF ValidAuthRule
<1>2. r.path # "" /\ (r.mode = "accessList" <=> r.acl # 0)
  BY DEF ValidAuthRule
<1>3. (r.prov # 0) = (r.mode = "oidc" /\ r.prov # 0) /\ (r.prov = 0 => r.groups = {})
  BY DEF ValidAuthRule
<1> QED BY <1>1, <1>2, <1>3, Zenon DEF PlainAuthRule

(* A valid host the dialog has fields for is plain.                        *)
LEMMA HostPlain == ASSUME NEW h, h.kind = "host", ValidHost(h), Expressible(h) PROVE PlainHost(h)
<1>1. HostExpressible(h)
  BY DEF Expressible
<1>2. /\ h = [x \in HostFields |-> h[x]]
      /\ IsSeq(h.pool) /\ IsSeq(h.locations) /\ IsSeq(h.headers)
      /\ ValidType(h) /\ ValidOptions(h)
  BY Zenon DEF ValidHost
<1>3. ASSUME h.type = "proxy" PROVE PlainProxy(h)
  <2>1. ValidProxy(h)
    BY <1>2, <1>3 DEF ValidType
  <2>2. PlainPool(h.pool, h.up.via)
    BY <1>1, <2>1 DEF HostExpressible, ValidProxy, PlainPool
  <2>3. PlainLocations(h.locations, h.up.via)
    <3> SUFFICES ASSUME NEW x \in Elements(h.locations)
                 PROVE /\ x = [path |-> x.path, up |-> [host |-> x.up.host, via |-> h.up.via],
                               strip |-> x.strip, rest |-> ""]
                       /\ x.path # "" /\ x.up.host \notin Unwritable
      BY DEF PlainLocations
    <3>1. x.up.host \notin Unwritable /\ x.up.via = h.up.via /\ x.rest = ""
      BY <1>1 DEF HostExpressible
    <3>2. /\ x = [path |-> x.path, up |-> [host |-> x.up.host, via |-> x.up.via], strip |-> x.strip,
                  rest |-> x.rest]
          /\ x.path # ""
      BY <2>1, Zenon DEF ValidProxy
    <3> QED BY <3>1, <3>2, Zenon
  <2>4. \A r \in Elements(h.rules) : PlainAuthRule(r)
    <3> TAKE r \in Elements(h.rules)
    <3>1. /\ r.methods \subseteq Verbs
          /\ r.emails = {} /\ r.pass = (r.prov # 0) /\ Plainly(r.groups)
      BY <1>1, Zenon DEF HostExpressible
    <3>2. ValidAuthRule(r)
      BY <2>1, Zenon DEF ValidProxy
    <3> QED BY <3>1, <3>2, PlainRule
  <2>5. Plainly(h.oidc.groups)
    BY <1>1, Zenon DEF HostExpressible
  <2> QED BY <2>1, <2>2, <2>3, <2>4, <2>5, Zenon DEF ValidProxy, PlainProxy
<1>4. PlainType(h)
  <2>1. /\ h.type # "proxy" =>
             h.pool = << >> /\ h.locations = << >> /\ h.rules = << >> /\ h.oidc = NoOidc
        /\ h.type # "static" => h.root = ""
        /\ h.type # "vpn-portal" => h.portal = NoPortal
    BY <1>1, Zenon DEF HostExpressible, OfItsType
  <2> QED BY <1>2, <1>3, <2>1, Zenon DEF ValidType, PlainType
<1>5. PlainHeaders(h.headers)
  <2>1. \A w \in Elements(h.headers) : w.op = "remove" => w.value = ""
    BY <1>1, Zenon DEF HostExpressible
  <2> QED BY <1>2, <2>1, Zenon DEF ValidOptions, PlainHeaders
<1>6. PlainOptions(h)
  <2>1. h.hsts.maxAge # 0 /\ (h.rewrite.strip = "" => h.rewrite = NoRewrite)
    BY <1>1, Zenon DEF HostExpressible
  <2> QED BY <1>2, <1>5, <2>1, Zenon DEF ValidOptions, PlainOptions
<1> QED BY <1>2, <1>4, <1>6, Zenon DEF PlainHost

(* In a state of the invariant, a dialog that is as it was filled sends    *)
(* the object it was filled from.                                          *)
LEMMA KeptNow == ASSUME FormsInv, Valid(dialog.from) PROVE Kept
<1> SUFFICES ASSUME Unedited, dialog.whole, Expressible(dialog.from)
             PROVE  Sent = Normal(dialog.from)
  BY DEF Kept
<1> DEFINE o == dialog.from
           f == dialog.form
           r == ReadForm(f)
<1>0. dialog.id # 0
  BY DEF Unedited
<1>1. f = dialog.filled
  BY DEF Unedited
<1>2. Stored(o)
  BY <1>0 DEF FormsInv, Filled
<1>3. PICK l : f = FillForm(o, l) /\ Known(Named(o), l)
  BY <1>0, <1>1 DEF FormsInv, Filled
<1>4. o.kind = "host" /\ f.type = "vpn-portal"
        => \E k : portal.block = FillPortalBlock(o, k) /\ Known(Named(o), k)
  <2> SUFFICES ASSUME o.kind = "host", f.type = "vpn-portal"
               PROVE  \E k : portal.block = FillPortalBlock(o, k) /\ Known(Named(o), k)
    OBVIOUS
  <2>1. portal.of = <<dialog.id, o>> /\ portal.whole
    BY DEF Unedited
  <2>2. portal.of[1] = dialog.id /\ portal.of[2] = o
    BY <2>1
  <2>3. portal.of[1] # 0
    BY <1>0, <2>2
  <2> HIDE DEF o
  <2> QED BY <2>1, <2>2, <2>3 DEF FormsInv, PortalBlock
<1>5. Sent = Merged(r) /\ Valid(o) /\ Expressible(o)
  BY DEF Sent
<1> HIDE DEF o, f
<1>6. f.kind = o.kind
  BY <1>2, <1>3, FilledOK
<1>7. CASE o.kind = "host"
  <2>1. f = FillHost(o, l) /\ StoredHost(o) /\ r = ReadHost(f, portal.block)
    BY <1>2, <1>3, <1>6, <1>7, FillIs, ReadIs
  <2> DEFINE b == portal.block
  <2>2. f.type = o.type
    BY <2>1, HostShows
  <2>3. \E k : o.type = "vpn-portal" => b = FillPortalBlock(o, k) /\ Known(Named(o), k)
    BY <1>4, <1>7, <2>2, Zenon
  <2>4. PICK k : o.type = "vpn-portal" => b = FillPortalBlock(o, k) /\ Known(Named(o), k)
    BY <2>3
  <2>5. r = ReadHost(f, b) /\ PlainHost(o)
    BY <1>5, <1>7, <2>1, HostPlain DEF Valid
  <2> HIDE DEF b, r
  <2>6. r = Normal(o)
    BY <1>3, <1>7, <2>1, <2>4, <2>5, HostBack
  <2>7. r.kind = "host"
    BY <2>5, HostReads
  <2>8. Merged(r) = r
    BY <2>7 DEF Merged
  <2> QED BY <1>5, <2>6, <2>8 DEF o
<1>8. CASE o.kind # "host"
  <2>0. Normal(o) = o
    BY <1>8 DEF Normal
  <2>1. Merged(r) = o
    <3>1. CASE o.kind = "stream"
      <4>1. f = FillStream(o, l) /\ r = ReadStream(f) /\ PlainStream(o)
        BY <1>2, <1>3, <1>5, <1>6, <3>1, FillIs, ReadIs DEF Valid, ValidStream, PlainStream, Expressible
      <4>2. r = o
        BY <1>3, <3>1, <4>1, StreamBack DEF PlainStream
      <4>3. Merged(o) = o
        BY <3>1 DEF Merged
      <4> HIDE DEF r
      <4> QED BY <4>2, <4>3
    <3>2. CASE o.kind = "acl"
      <4>1. f = FillAcl(o, l) /\ r = ReadAcl(f) /\ ValidAcl(o) /\ StoredAcl(o)
        BY <1>2, <1>3, <1>5, <1>6, <3>2, FillIs, ReadIs DEF Valid
      <4>2. Fcn(o)
        BY <4>1 DEF ValidAcl
      <4>3. Merged(ReadAcl(FillAcl(o, l))) = o
        BY <1>3, <1>5, <3>2, <4>1, <4>2, AclBack
      <4> HIDE DEF r
      <4> QED BY <4>1, <4>3
    <3>3. CASE o.kind = "policy"
      <4>1. f = FillPolicy(o, l) /\ r = ReadPolicy(f) /\ ValidPolicy(o) /\ StoredPolicy(o)
        BY <1>2, <1>3, <1>5, <1>6, <3>3, FillIs, ReadIs DEF Valid
      <4>2. /\ Fcn(o) /\ IsSeq(o.routes) /\ \A w \in Elements(o.routes) : Fcn(w)
            /\ ValidSubject(o.subject) /\ Has(o, {"kind", "subject", "routes"})
        BY <4>1 DEF ValidPolicy, StoredPolicy
      <4>3. ReadPolicy(FillPolicy(o, l)) = o
        BY <1>3, <3>3, <4>1, <4>2, PolicyBack
      <4>4. Merged(o) = o
        BY <3>3 DEF Merged
      <4> HIDE DEF r
      <4> QED BY <4>1, <4>3, <4>4
    <3>4. CASE o.kind = "idp"
      <4>1. f = FillIdp(o) /\ r = f /\ ValidIdp(o) /\ StoredIdp(o)
        BY <1>2, <1>3, <1>5, <1>6, <3>4, FillIs, ReadIs DEF Valid
      <4>2. Fcn(o) /\ Has(o, {"kind", "secret"})
        BY <4>1 DEF ValidIdp, StoredIdp
      <4>3. Merged(ReadIdp(FillIdp(o))) = o
        BY <3>4, <4>1, <4>2, IdpBack
      <4>4. ReadIdp(f) = f
        BY DEF ReadIdp
      <4> HIDE DEF r
      <4> QED BY <4>1, <4>3, <4>4
    <3> QED BY <1>2, <1>8, <3>1, <3>2, <3>3, <3>4, FillIs
  <2> HIDE DEF r
  <2> QED BY <1>5, <2>0, <2>1 DEF o
<1> QED BY <1>7, <1>8

(* Opening a dialog and saving it as it opened changes nothing (the open   *)
(* and submit handlers of app.js), if the page had on its lists everything *)
(* the object refers to and the dialog has a field for everything in it:   *)
(* of every object that the server's Validate functions let through,       *)
(* whatever others changed at the server and the page loaded meanwhile,    *)
(* whatever was edited and edited back, whichever portal block was filled  *)
(* last, and for tables of rows of any length.                             *)
THEOREM KeptHolds ==
  ASSUME \A o \in Objects : Stored(o)
  PROVE  FormsSpec => [](Valid(dialog.from) => Kept)
<1>1. FormsInv => (Valid(dialog.from) => Kept)
  BY KeptNow
<1> QED BY <1>1, FormsInvHolds, PTL
=============================================================================

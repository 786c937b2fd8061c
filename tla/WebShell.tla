------------------------------ MODULE WebShell ------------------------------
(***************************************************************************)
(* The frame of the admin interface (src/web/app.js): which of its views   *)
(* is shown, which page and section, and how these follow and lead the     *)
(* address bar and the browser's history while people sign in and out, use *)
(* Back and Forward, type addresses and reload.                            *)
(***************************************************************************)
EXTENDS Markdown, FiniteSets, FiniteSetsExt

CONSTANTS Pages,      \* pageLoaders
          Sections,   \* of each page of sectionNavs, its sections in order
          Addresses,  \* addresses that people type or have bookmarked
          MaxHist,    \* bound on the entries of the browser's history
          MaxLines    \* bound on the lines of a guide

None == "none"
Sectioned == DOMAIN Sections

ASSUME ShellAssumption ==
    /\ "overview" \in Pages \ Sectioned
    /\ Sectioned \subseteq Pages
    /\ None \notin Pages \cup UNION {ToSet(Sections[p]) : p \in Sectioned}
    /\ \A p \in Sectioned : 1 \in DOMAIN Sections[p]
    /\ \A a \in Addresses : a = [page |-> a.page, section |-> a.section]

VARIABLES view,      \* the view that is shown
          ask,       \* the request the view waits for
          totp,      \* the sign-in form has its field for a code
          session,   \* what the browser's cookie is worth at the server
          page,      \* the page that is shown in view-app
          current,   \* currentSection
          hist,      \* the addresses in the browser's history,
          pos        \* and the one that is current

vars == <<view, ask, totp, session, page, current, hist, pos>>

TypeOK ==
    /\ view \in {"none", "login", "password", "app"}
    /\ ask \in {"none", "boot", "login", "password", "logout"}
    /\ totp \in BOOLEAN
    /\ session \in {"out", "in", "must"}
    /\ page \in Pages
    /\ \A p \in Sectioned : current[p] \in ToSet(Sections[p]) \cup {None}
    /\ pos \in DOMAIN hist

Init ==
    /\ view = "none"
    /\ ask = "boot"
    /\ totp = FALSE
    /\ session \in {"out", "in", "must"}
    /\ page = "overview"
    /\ current = [p \in Sectioned |-> None]
    /\ \E a \in Addresses : hist = <<a>>
    /\ pos = 1

(***************************************************************************)
(* Pages.                                                                  *)
(***************************************************************************)
(* The address of a page, with the section where the page has them.        *)
Route(p, cur) == [page |-> p, section |-> IF p \in Sectioned THEN cur[p] ELSE None]

SetRoute_opens(h, at, route, replace) ==
    IF h[at] = route \/ replace THEN hist' = h /\ pos' = at
    ELSE hist' = Append(SubSeq(h, 1, at), route) /\ pos' = at + 1

(* setRoute, with the history h at entry at.                               *)
SetRoute(h, at, route, replace) ==
    IF h[at] = route THEN hist' = h /\ pos' = at
    ELSE IF replace
    THEN hist' = [h EXCEPT ![at] = route] /\ pos' = at
    ELSE hist' = Append(SubSeq(h, 1, at), route) /\ pos' = at + 1

(* showSection: a section the page does not have leaves it on its own.     *)
ShowSection(p, s) ==
    [current EXCEPT ![p] =
        IF s \in ToSet(Sections[p]) THEN s ELSE IF @ # None THEN @ ELSE Sections[p][1]]

SwitchPage(p, s, h, at, replace) ==
    LET name == IF p \in Pages THEN p ELSE "overview"
    IN /\ page' = name
       /\ current' = IF name \in Sectioned THEN ShowSection(name, s) ELSE current
       /\ SetRoute(h, at, Route(name, current'), replace)

(* routeFromHash: no page is the overview.                                 *)
RouteFromHash(a) == [a EXCEPT !.page = IF @ = None THEN "overview" ELSE @]

(* To the page that the address names, on the entry it is at.              *)
Restore(h, at) ==
    LET r == RouteFromHash(h[at]) IN SwitchPage(r.page, r.section, h, at, TRUE)

(* The navigation, the account menu and the links between pages.           *)
Click(p, s) ==
    /\ view = "app" /\ pos < MaxHist
    /\ SwitchPage(p, s, hist, pos, FALSE)
    /\ UNCHANGED <<view, ask, totp, session>>

ClickSection(s) ==
    /\ view = "app" /\ page \in Sectioned /\ pos < MaxHist
    /\ s \in ToSet(Sections[page])
    /\ current' = ShowSection(page, s)
    /\ SetRoute(hist, pos, [page |-> page, section |-> s], FALSE)
    /\ UNCHANGED <<view, ask, totp, session, page>>

PopState_pushes(h, at) ==
    IF view = "app"
    THEN SwitchPage(RouteFromHash(h[at]).page, RouteFromHash(h[at]).section, h, at, FALSE)
    ELSE hist' = h /\ pos' = at /\ UNCHANGED <<page, current>>

(* The handler of popstate, once the browser is at that entry.             *)
PopState(h, at) ==
    IF view = "app" THEN Restore(h, at)
    ELSE hist' = h /\ pos' = at /\ UNCHANGED <<page, current>>

(* Back, Forward, and further by the browser's list of entries.            *)
Travel(at) ==
    /\ at # pos
    /\ PopState(hist, at)
    /\ UNCHANGED <<view, ask, totp, session>>

TypeAddress(a) ==
    /\ a # hist[pos] /\ pos < MaxHist
    /\ PopState(Append(SubSeq(hist, 1, pos), a), pos + 1)
    /\ UNCHANGED <<view, ask, totp, session>>

(***************************************************************************)
(* Signing in and out.                                                     *)
(***************************************************************************)
(* The page is loaded again: only the history and the cookie survive.      *)
Reload ==
    /\ view' = "none" /\ ask' = "boot" /\ totp' = FALSE
    /\ page' = "overview" /\ current' = [p \in Sectioned |-> None]
    /\ UNCHANGED <<session, hist, pos>>

(* afterLogin for an account that must, or need not, change its password.  *)
AfterLogin(must) ==
    IF must
    THEN view' = "password" /\ UNCHANGED <<page, current, hist, pos>>
    ELSE view' = "app" /\ Restore(hist, pos)

BootDone ==
    /\ ask = "boot" /\ ask' = None
    /\ session # "out"
    /\ AfterLogin(session = "must")
    /\ UNCHANGED <<totp, session>>

(* No session, or no answer at all.                                        *)
BootFailed ==
    /\ ask = "boot" /\ ask' = None
    /\ view' = "login"
    /\ UNCHANGED <<totp, session, page, current, hist, pos>>

Submit(v, a) ==
    /\ view = v /\ ask = None /\ ask' = a
    /\ UNCHANGED <<view, totp, session, page, current, hist, pos>>

(* The session of an account, one that must change its password or not.    *)
LoginDone(worth) ==
    /\ ask = "login" /\ ask' = None
    /\ session' = worth
    /\ AfterLogin(worth = "must")
    /\ UNCHANGED totp

TotpRequired ==
    /\ ask = "login" /\ ask' = None
    /\ totp' = TRUE
    /\ UNCHANGED <<view, session, page, current, hist, pos>>

PasswordDone ==
    /\ ask = "password" /\ ask' = None /\ pos < MaxHist
    /\ session' = "in"
    /\ view' = "app"
    /\ SwitchPage("overview", None, hist, pos, FALSE)
    /\ UNCHANGED totp

(* The login or the new password is refused: the form shows the error.     *)
Refused ==
    /\ ask \in {"login", "password"} /\ ask' = None
    /\ UNCHANGED <<view, totp, session, page, current, hist, pos>>

(* The sign-in page follows also if the request failed and the session is  *)
(* still there.                                                            *)
LogoutDone(reached) ==
    /\ ask = "logout" /\ ask' = None
    /\ session' = IF reached THEN "out" ELSE session
    /\ view' = "login"
    /\ UNCHANGED <<totp, page, current, hist, pos>>

(* The session expires or is revoked at the server.                        *)
SessionEnds ==
    /\ session # "out" /\ session' = "out"
    /\ UNCHANGED <<view, ask, totp, page, current, hist, pos>>

Next ==
    \/ \E p \in Pages : \E s \in {None} \cup UNION {ToSet(Sections[q]) : q \in {p} \cap Sectioned} :
           Click(p, s)
    \/ page \in Sectioned /\ \E s \in ToSet(Sections[page]) : ClickSection(s)
    \/ \E at \in DOMAIN hist : Travel(at)
    \/ \E a \in Addresses : TypeAddress(a)
    \/ Reload \/ BootDone \/ BootFailed
    \/ Submit("login", "login") \/ Submit("password", "password") \/ Submit("app", "logout")
    \/ \E worth \in {"in", "must"} : LoginDone(worth)
    \/ TotpRequired \/ PasswordDone \/ Refused
    \/ \E reached \in BOOLEAN : LogoutDone(reached)
    \/ SessionEnds

Spec == Init /\ [][Next]_vars

(***************************************************************************)
(* Properties.                                                             *)
(***************************************************************************)
(* While the pages are shown the address bar names the page and section    *)
(* that is shown, whatever address brought the person there and however    *)
(* long the pages were away behind the sign-in view: a reload or a shared  *)
(* link opens the same view.                                               *)
AddressNamesPage == view = "app" => hist[pos] = Route(page, current)

(* An address that names a page and, where the page has them, a section.   *)
Names(a) ==
    a.page \in Pages /\ (IF a.page \in Sectioned THEN a.section \in ToSet(Sections[a.page])
                         ELSE a.section = None)

(* Back returns to the page before: the entries behind the current one     *)
(* never change, and going back always leaves the entry the person was on, *)
(* also for an entry that names nothing.  An entry that names a page shows *)
(* just that and leaves the history as it is, so that Forward leads back.  *)
BackReturns ==
    [][ /\ \A i \in 1 .. Min({pos, pos'}) - 1 : hist'[i] = hist[i]
        /\ \A at \in 1 .. pos - 1 : Travel(at) =>
             /\ pos' = at
             /\ view = "app" /\ Names(hist[at])
                  => hist' = hist /\ Route(page', current') = hist[at] ]_vars

EveryGuide == \A n \in 0 .. MaxLines : \A doc \in [1 .. n -> Kinds] : Whole(doc)

(* Whatever guide is read on the help page, with blocks of each kind in    *)
(* each order, it is shown whole (see Whole).                              *)
GuidesWhole == view = "app" /\ page = "help" => EveryGuide
=============================================================================

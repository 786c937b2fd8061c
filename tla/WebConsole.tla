----------------------------- MODULE WebConsole -----------------------------
(***************************************************************************)
(* Saving in the admin interface (src/web/app.js): the guard around every  *)
(* change, the dialogs, and the handlers that are suspended at an await    *)
(* while the administrator goes on clicking.                               *)
(*                                                                         *)
(* JavaScript runs one handler at a time, so an action is the code between *)
(* two awaits.  What is on its way is a task: a dialog that is still being *)
(* opened, a key pair being made, a change at the server, a read that      *)
(* follows a change.  The "host" dialog stands for the identity provider   *)
(* and LAN policy dialogs too, which save in the same steps.  The lists a  *)
(* page shows, and what the fields of a form hold, are WebForms' subject.  *)
(***************************************************************************)
EXTENDS Naturals, Sequences, FiniteSets

CONSTANTS Dialogs,    \* the dialogs of the instance
          Tids,       \* slots for tasks: the bound on how many overlap
          MaxFills,   \* bound: how often a dialog is opened
          MaxLost,    \* bound: answers that never arrive
          MaxRefresh  \* bound: refreshes of the VPN page counted apart

AllDialogs == {"host", "acl", "stream", "site", "device"}

ASSUME ConsoleAssumption ==
    /\ Dialogs \subseteq AllDialogs
    /\ IsFiniteSet(Tids)
    /\ MaxFills \in Nat /\ MaxLost \in Nat /\ MaxRefresh \in Nat \ {0}

(* A site and a device are created with a key pair this page makes.        *)
KeyDialogs == {"site", "device"}

(* The dialogs that openModal and openStreamModal show at once.            *)
SyncDialogs == {"host", "stream"}

Forms == Dialogs \cup {"lan"}    \* the LAN panel of the VPN page is no dialog
NoForm == "none"

(* What a dialog edits: 0 a new object, 1 and 2 objects stored before.     *)
New == 0
Old == {1, 2}
Fill == 0 .. MaxFills

VARIABLES savesInFlight,  \* app.js: the counter of setSaving
          button,         \* the submit button of every form
          dlg,            \* the dialogs
          task,           \* the suspended handlers
          fills,          \* how many dialogs were opened so far
          nextId,         \* the id the server gives to the next object
          created,        \* objects the server made from a filled-in form
          lost,           \* answers lost for a filled-in form
          refreshes       \* refreshVPN calls that have not finished

vars == <<savesInFlight, button, dlg, task, fills, nextId, created, lost, refreshes>>

Idle == [st |-> "free", k |-> "lan", fill |-> 0, how |-> "row", id |-> New]
Closed == [shown |-> FALSE, editing |-> New, own |-> New, fill |-> 0,
           form |-> TRUE, gen |-> FALSE, config |-> 0, rows |-> <<>>]
Ready == [text |-> "Save", kept |-> "undefined", disabled |-> FALSE]

Tasks == [st : {"free", "opening", "keys", "change", "reading"}, k : Forms,
          fill : Fill, how : {"form", "keyed", "row"}, id : Nat]
Changes == {t \in Tids : task[t].st = "change"}

Init ==
    /\ savesInFlight = 0
    /\ button = [f \in Forms |-> Ready]
    /\ dlg = [k \in Dialogs |-> Closed]
    /\ task = [t \in Tids |-> Idle]
    /\ fills = 0
    /\ nextId = 3
    /\ created = [n \in Fill |-> 0]
    /\ lost = [n \in Fill |-> 0]
    /\ refreshes = 0

(***************************************************************************)
(* The guard.                                                              *)
(***************************************************************************)
SetSaving_unlabelled(n) ==
    /\ savesInFlight' = n
    /\ button' = [f \in Forms |->
          IF n > 0 /\ ~button[f].disabled
          THEN [text |-> "Saving...", kept |-> button[f].text, disabled |-> TRUE]
          ELSE button[f]]

(* setSaving, with the counter's new value.                                *)
SetSaving(n) ==
    /\ savesInFlight' = n
    /\ button' = [f \in Forms |->
          IF n > 0 /\ ~button[f].disabled
          THEN [text |-> "Saving...", kept |-> button[f].text, disabled |-> TRUE]
          ELSE IF n = 0 /\ button[f].kept # "undefined"
          THEN [text |-> button[f].kept, kept |-> "undefined", disabled |-> FALSE]
          ELSE button[f]]

SubmitAllowed_unguarded(f) == ~button[f].disabled

(* A form is submitted: not from a disabled button, and the listener that  *)
(* captures every submit lets it through only while no change is out.      *)
SubmitAllowed(f) == ~button[f].disabled /\ savesInFlight = 0

(* api sends a change: it counts until its answer is in.                   *)
Send(t, c) ==
    /\ task' = [task EXCEPT ![t] = c]
    /\ SetSaving(savesInFlight + 1)

(* The answer of a change is in, or the call failed (api's finally).       *)
Answered(t, c) ==
    /\ task[t].st = "change"
    /\ task' = [task EXCEPT ![t] = c]
    /\ SetSaving(savesInFlight - 1)

(* refreshVPN is called and not awaited.                                   *)
RefreshVPN == refreshes' = IF refreshes < MaxRefresh THEN refreshes + 1 ELSE refreshes

(* The last lines of refreshVPN: refreshVPNDevices switches every control  *)
(* of the LAN panel on or off, its submit button too.                      *)
RefreshDone(off) ==
    /\ refreshes > 0
    /\ refreshes' = refreshes - 1
    /\ button' = [button EXCEPT !["lan"].disabled = off]
    /\ UNCHANGED <<savesInFlight, dlg, task, fills, nextId, created, lost>>

(***************************************************************************)
(* Opening and closing.  A dialog covers the page, so the buttons that     *)
(* open one are in reach only while none is shown.                         *)
(***************************************************************************)
PageInReach == \A k \in Dialogs : ~dlg[k].shown

(* The part of opening a dialog that runs at once: whose fields these are. *)
Filled(k, id, shown) ==
    [dlg[k] EXCEPT !.shown = shown, !.editing = id, !.own = id,
                   !.fill = fills + 1, !.form = TRUE, !.rows = <<>>]

OpenModal(k, id) ==
    /\ k \in Dialogs /\ (k \in SyncDialogs \/ (k = "site" /\ id # New))
    /\ PageInReach /\ fills < MaxFills
    /\ fills' = fills + 1
    /\ dlg' = [dlg EXCEPT ![k] = Filled(k, id, TRUE)]
    /\ UNCHANGED <<savesInFlight, button, task, nextId, created, lost, refreshes>>

(* openAclModal, openWGSiteModal for a new site, openWGDeviceModal: the    *)
(* fields are set, and the dialog waits for what it still has to know.     *)
OpenLater(k, id, t) ==
    /\ k \in Dialogs /\ (k = "acl" \/ (k \in KeyDialogs /\ id = New))
    /\ PageInReach /\ fills < MaxFills /\ task[t].st = "free"
    /\ fills' = fills + 1
    /\ dlg' = [dlg EXCEPT ![k] = Filled(k, id, FALSE)]
    /\ task' = [task EXCEPT ![t] =
          [st |-> "opening", k |-> k, fill |-> fills + 1, how |-> "form", id |-> id]]
    /\ UNCHANGED <<savesInFlight, button, nextId, created, lost, refreshes>>

OpenAclDone(t) ==
    LET f == task[t].fill IN
    /\ task[t].st = "opening" /\ task[t].k = "acl"
    /\ dlg' = [dlg EXCEPT !["acl"].shown = TRUE,
                          !["acl"].rows = IF task[t].id = New THEN @ ELSE Append(@, f)]
    /\ task' = [task EXCEPT ![t] = Idle]
    /\ UNCHANGED <<savesInFlight, button, fills, nextId, created, lost, refreshes>>

(* can: this browser makes X25519 keys (canMakeKeys).                      *)
OpenKeyDialogDone(t, can) ==
    /\ task[t].st = "opening" /\ task[t].k \in KeyDialogs
    /\ dlg' = [dlg EXCEPT ![task[t].k].shown = TRUE, ![task[t].k].gen = can]
    /\ task' = [task EXCEPT ![t] = Idle]
    /\ UNCHANGED <<savesInFlight, button, fills, nextId, created, lost, refreshes>>

CloseModal(k) ==
    /\ k \in Dialogs \ KeyDialogs /\ dlg[k].shown
    /\ dlg' = [dlg EXCEPT ![k].shown = FALSE]
    /\ UNCHANGED <<savesInFlight, button, task, fills, nextId, created, lost, refreshes>>

CloseKeyDialog(k) ==
    /\ k \in Dialogs \cap KeyDialogs /\ dlg[k].shown
    /\ dlg' = [dlg EXCEPT ![k].shown = FALSE, ![k].config = 0]
    /\ RefreshVPN
    /\ UNCHANGED <<savesInFlight, button, task, fills, nextId, created, lost>>

(***************************************************************************)
(* Saving.                                                                 *)
(***************************************************************************)
(* A submit handler that calls api before its first await: every form but  *)
(* one that makes a key pair first.                                        *)
Submit(k, t) ==
    /\ k \in Dialogs /\ dlg[k].shown /\ dlg[k].form
    /\ ~(k \in KeyDialogs /\ dlg[k].editing = New /\ dlg[k].gen)
    /\ SubmitAllowed(k) /\ task[t].st = "free"
    /\ Send(t, [st |-> "change", k |-> k, fill |-> dlg[k].fill, how |-> "form",
                id |-> dlg[k].editing])
    /\ UNCHANGED <<dlg, fills, nextId, created, lost, refreshes>>

(* The LAN panel: saveSettings.                                            *)
SubmitLan(t) ==
    /\ SubmitAllowed("lan") /\ task[t].st = "free"
    /\ Send(t, [st |-> "change", k |-> "lan", fill |-> 0, how |-> "form", id |-> New])
    /\ UNCHANGED <<dlg, fills, nextId, created, lost, refreshes>>

(* A new site or device whose keys are made here: nothing is sent yet.     *)
SubmitKeyed(k, t) ==
    /\ k \in Dialogs \cap KeyDialogs /\ dlg[k].shown /\ dlg[k].form
    /\ dlg[k].editing = New /\ dlg[k].gen
    /\ SubmitAllowed(k) /\ task[t].st = "free"
    /\ task' = [task EXCEPT ![t] = [st |-> "keys", k |-> k, fill |-> dlg[k].fill,
                                    how |-> "keyed", id |-> New]]
    /\ UNCHANGED <<savesInFlight, button, dlg, fills, nextId, created, lost, refreshes>>

(* makeWGKeypair is done, or failed (the handler's catch).                 *)
KeysMade(t) ==
    /\ task[t].st = "keys"
    /\ \/ Send(t, [task[t] EXCEPT !.st = "change"])
       \/ task' = [task EXCEPT ![t] = Idle] /\ UNCHANGED <<savesInFlight, button>>
    /\ UNCHANGED <<dlg, fills, nextId, created, lost, refreshes>>

(* A switch or a Delete button in a table of the page the form k is on: a  *)
(* change without a form.                                                  *)
ChangeRow(k, t) ==
    /\ PageInReach /\ task[t].st = "free"
    /\ Send(t, [st |-> "change", k |-> k, fill |-> 0, how |-> "row", id |-> 1])
    /\ UNCHANGED <<dlg, fills, nextId, created, lost, refreshes>>

(* The server made an object from this form (counted where it is made of   *)
(* what openModal or openStreamModal filled in).                           *)
Created(t) ==
    LET made == IF task[t].id = New /\ task[t].k \in SyncDialogs THEN 1 ELSE 0 IN
    /\ created' = [created EXCEPT ![task[t].fill] = @ + made]
    /\ nextId' = nextId + made

SavedRow(t) ==
    /\ task[t].how = "row"
    /\ Answered(t, Idle)
    /\ IF task[t].k \in KeyDialogs \cup {"lan"} THEN RefreshVPN ELSE UNCHANGED refreshes
    /\ UNCHANGED <<dlg, fills, nextId, created, lost>>

SavedLan(t) ==
    /\ task[t].k = "lan" /\ task[t].how = "form"
    /\ Answered(t, Idle)
    /\ RefreshVPN
    /\ UNCHANGED <<dlg, fills, nextId, created, lost>>

(* The dialog is closed, whichever object it shows by now.                 *)
SavedHost(t) ==
    /\ task[t].k \in {"host", "acl"} /\ task[t].how = "form"
    /\ Answered(t, Idle)
    /\ dlg' = [dlg EXCEPT ![task[t].k].shown = FALSE]
    /\ Created(t)
    /\ UNCHANGED <<fills, lost, refreshes>>

SavedStream_forgets(t, failed) ==
    /\ task[t].k = "stream" /\ task[t].how = "form"
    /\ Answered(t, Idle)
    /\ dlg' = [dlg EXCEPT !["stream"].shown = @ /\ failed]
    /\ Created(t)
    /\ UNCHANGED <<fills, lost, refreshes>>

(* failed: saved, but a listener of the stream does not run.               *)
SavedStream(t, failed) ==
    LET saved == IF task[t].id = New THEN nextId ELSE task[t].id IN
    /\ task[t].k = "stream" /\ task[t].how = "form"
    /\ Answered(t, Idle)
    /\ dlg' = [dlg EXCEPT !["stream"].shown = @ /\ failed,
                          !["stream"].editing = saved,
                          !["stream"].own = IF dlg["stream"].fill = task[t].fill
                                            THEN saved ELSE @]
    /\ Created(t)
    /\ UNCHANGED <<fills, lost, refreshes>>

(* An edited site: closeWGSiteModal.                                       *)
SavedSite(t) ==
    /\ task[t].k = "site" /\ task[t].id # New /\ task[t].how = "form"
    /\ Answered(t, Idle)
    /\ dlg' = [dlg EXCEPT !["site"].shown = FALSE, !["site"].config = 0]
    /\ RefreshVPN
    /\ UNCHANGED <<fills, nextId, created, lost>>

(* A new site or device is stored; its configuration also needs the state  *)
(* of the endpoint, which is read next.                                    *)
SavedKeyed(t) ==
    /\ task[t].k \in KeyDialogs /\ task[t].id = New
    /\ Answered(t, [task[t] EXCEPT !.st = "reading"])
    /\ UNCHANGED <<dlg, fills, nextId, created, lost, refreshes>>

(* The configuration, keys and all, is put into the dialog; or the read    *)
(* failed and the form stays with an error.                                *)
ReadDone(t) ==
    LET k == task[t].k IN
    /\ task[t].st = "reading"
    /\ task' = [task EXCEPT ![t] = Idle]
    /\ \/ dlg' = [dlg EXCEPT ![k].config = task[t].fill, ![k].form = FALSE]
       \/ UNCHANGED dlg
    /\ UNCHANGED <<savesInFlight, button, fills, nextId, created, lost, refreshes>>

(* The server refused the change, or it never arrived: a dialog stays open *)
(* and shows the error, a switch flips back.  The LAN form refreshes the   *)
(* page all the same: saveSettings catches the error.                      *)
Refused(t) ==
    /\ Answered(t, Idle)
    /\ IF task[t].k = "lan" /\ task[t].how = "form" THEN RefreshVPN ELSE UNCHANGED refreshes
    /\ UNCHANGED <<dlg, fills, nextId, created, lost>>

(* The server made the change and the answer got lost: to the page this is *)
(* a failed call.                                                          *)
AnswerLost(t) ==
    /\ task[t].k \in SyncDialogs /\ task[t].how = "form"
    /\ lost[task[t].fill] < MaxLost
    /\ Answered(t, Idle)
    /\ lost' = [lost EXCEPT ![task[t].fill] = @ + 1]
    /\ Created(t)
    /\ UNCHANGED <<dlg, fills, refreshes>>

Next ==
    \/ \E off \in BOOLEAN : RefreshDone(off)
    \/ \E k \in Dialogs : CloseModal(k) \/ CloseKeyDialog(k)
    \/ \E k \in Dialogs, id \in Old \cup {New} : OpenModal(k, id)
    \/ \E t \in Tids :
         \/ \E k \in Dialogs, id \in Old \cup {New} : OpenLater(k, id, t)
         \/ \E k \in Dialogs : Submit(k, t) \/ SubmitKeyed(k, t)
         \/ \E b \in BOOLEAN : OpenKeyDialogDone(t, b) \/ SavedStream(t, b)
         \/ OpenAclDone(t) \/ SubmitLan(t) \/ KeysMade(t)
         \/ \E k \in Forms : ChangeRow(k, t)
         \/ SavedRow(t) \/ SavedLan(t) \/ SavedHost(t) \/ SavedSite(t)
         \/ SavedKeyed(t) \/ ReadDone(t) \/ Refused(t) \/ AnswerLost(t)

Spec == Init /\ [][Next]_vars

(***************************************************************************)
(* Properties.                                                             *)
(***************************************************************************)
(* Every variable has its type.                                            *)
TypeOK ==
    /\ savesInFlight \in Nat
    /\ button \in [Forms -> [text : {"Save", "Saving..."}, kept : {"undefined", "Save", "Saving..."},
                             disabled : BOOLEAN]]
    /\ dlg \in [Dialogs -> [shown : BOOLEAN, editing : Nat, own : Nat, fill : Fill,
                            form : BOOLEAN, gen : BOOLEAN, config : Fill, rows : Seq(Fill)]]
    /\ task \in [Tids -> Tasks]
    /\ fills \in Fill
    /\ nextId \in Nat
    /\ created \in [Fill -> Nat]
    /\ lost \in [Fill -> Nat]
    /\ refreshes \in 0 .. MaxRefresh

(* The counter of setSaving is the number of changes on their way, however *)
(* handlers overlap and fail; and the Save button of every dialog is       *)
(* disabled and says so exactly while there is one, and reads Save again   *)
(* after the last: no dialog is left with a dead button.                   *)
SavingExact ==
    /\ savesInFlight = Cardinality(Changes)
    /\ \A k \in Dialogs :
          button[k] = IF savesInFlight > 0
                      THEN [text |-> "Saving...", kept |-> "Save", disabled |-> TRUE]
                      ELSE Ready

(* A filled-in host or stream form makes at most one object, pressing Save *)
(* as often as one likes, closing and reopening dialogs and switching rows *)
(* meanwhile: a stream that was saved but does not run is updated by the   *)
(* second Save.  An answer that gets lost is what it takes to make two.    *)
CreatedOnce == \A n \in Fill : created[n] <= 1 + lost[n]

(* What is being saved, as SaveGate sees it: a form whose handler sends    *)
(* its change at once.  A form that makes keys first sends later, past the *)
(* guard, and counts with the other changes.                               *)
FormChanges == {t \in Changes : task[t].how = "form"}
GateForm == IF FormChanges = {} THEN NoForm ELSE task[CHOOSE t \in FormChanges : TRUE].k
GateOthers == Cardinality(Changes \ FormChanges)

Gate == INSTANCE SaveGate WITH form <- GateForm, others <- GateOthers

(* The interface implements SaveGate: a form is saved only while nothing   *)
(* else is on its way, so two forms are never being saved at once.         *)
SavesAreGated == Gate!Spec

(* While a change is on its way to the server, every Save button is        *)
(* disabled and says so.                                                   *)
EverySaveButtonSaysSo ==
    savesInFlight > 0 => \A f \in Forms : button[f].disabled /\ button[f].text = "Saving..."

(* A submit is ignored while the same form is already being saved.         *)
OneSavePerForm ==
    \A t, u \in Changes : task[t].fill = task[u].fill /\ task[t].fill > 0 => t = u

(* The configuration holds keys: it does not stay in the page.             *)
NoKeysWhenClosed == \A k \in Dialogs \cap KeyDialogs : ~dlg[k].shown => dlg[k].config = 0

(* What the stream dialog saves goes to the stream its fields are of.      *)
StreamSaveOwn ==
    "stream" \in Dialogs /\ dlg["stream"].shown => dlg["stream"].editing = dlg["stream"].own

(* The rules in the access list dialog are those of the list it edits.     *)
AclRowsOwn ==
    "acl" \in Dialogs => \A n \in 1 .. Len(dlg["acl"].rows) : dlg["acl"].rows[n] = dlg["acl"].fill
=============================================================================

-------------------------- MODULE WebConsole_proofs --------------------------
(***************************************************************************)
(* Proofs that the invariants of WebConsole hold, and that it implements   *)
(* SaveGate, for every set of dialogs, any number of handlers in flight    *)
(* and any number of openings, lost answers and refreshes.                 *)
(*                                                                         *)
(* The counter is a natural number only because it is exact: types and     *)
(* SavingExact are proved together.  From an exact counter follows that    *)
(* the guard lets one form through at a time, which is the refinement, and *)
(* with it that a filled-in form that has made its object can never be     *)
(* sent as a new one again, which is CreatedOnce.                          *)
(***************************************************************************)
EXTENDS WebConsole, FiniteSetTheorems, TLAPS

Buttons == [text : {"Save", "Saving..."}, kept : {"undefined", "Save", "Saving..."}, disabled : BOOLEAN]
DialogStates == [shown : BOOLEAN, editing : Nat, own : Nat, fill : Fill,
                 form : BOOLEAN, gen : BOOLEAN, config : Fill, rows : Seq(Fill)]

Counted == savesInFlight = Cardinality(Changes)

\* The part of the state that Send and Answered leave alone.
RestOK ==
    /\ dlg \in [Dialogs -> DialogStates]
    /\ fills \in Fill
    /\ nextId \in Nat
    /\ created \in [Fill -> Nat]
    /\ lost \in [Fill -> Nat]
    /\ refreshes \in 0 .. MaxRefresh

\* The part that they change.
SavingOK ==
    /\ savesInFlight \in Nat
    /\ button \in [Forms -> Buttons]
    /\ task \in [Tids -> Tasks]

(* Dialogs are never the LAN panel, and no form is called NoForm.          *)
LEMMA Names ==
    /\ Dialogs \subseteq Forms /\ "lan" \in Forms /\ "lan" \notin Dialogs
    /\ NoForm \notin Forms
BY ConsoleAssumption DEF Forms, AllDialogs, NoForm

LEMMA TypeParts == TypeOK <=> SavingOK /\ RestOK
BY DEF TypeOK, SavingOK, RestOK, Buttons, DialogStates

(* There are finitely many changes on their way.                           *)
LEMMA ChangesFinite == IsFiniteSet(Changes) /\ Cardinality(Changes) \in Nat
<1>1. Changes \in SUBSET Tids
  BY DEF Changes
<1>2. IsFiniteSet(Changes)
  BY <1>1, FS_Subset, ConsoleAssumption
<1> QED
  BY <1>2, FS_CardinalityType

(* What setSaving does to the buttons.                                     *)
LEMMA SetSavingButtons ==
    ASSUME SavingOK, NEW n \in Nat, SetSaving(n)
    PROVE  savesInFlight' = n /\ button' \in [Forms -> Buttons]
<1>1. savesInFlight' = n
  BY DEF SetSaving
<1>2. ASSUME NEW f \in Forms
      PROVE  button'[f] \in Buttons
  <2>1. button[f] \in Buttons
    BY DEF SavingOK
  <2>2. CASE n > 0 /\ ~button[f].disabled
    BY <2>1, <2>2 DEF SetSaving, Buttons
  <2>3. CASE ~(n > 0 /\ ~button[f].disabled) /\ n = 0 /\ button[f].kept # "undefined"
    BY <2>1, <2>3 DEF SetSaving, Buttons
  <2>4. CASE ~(n > 0 /\ ~button[f].disabled) /\ ~(n = 0 /\ button[f].kept # "undefined")
    BY <2>1, <2>4 DEF SetSaving
  <2> QED BY <2>2, <2>3, <2>4
<1> QED
  BY <1>1, <1>2 DEF SetSaving

(* A change that is sent adds one task to those that are counted.          *)
LEMMA SendCounts ==
    ASSUME SavingOK, Counted, NEW t \in Tids, NEW c \in Tasks,
           task[t].st # "change", c.st = "change", Send(t, c)
    PROVE  SavingOK' /\ Changes' = Changes \cup {t} /\ t \notin Changes /\ Counted'
<1>1. task' \in [Tids -> Tasks] /\ task'[t] = c /\ \A u \in Tids \ {t} : task'[u] = task[u]
  BY DEF SavingOK, Send
<1>2. Changes' = Changes \cup {t} /\ t \notin Changes
  BY <1>1 DEF Changes
<1>3. savesInFlight' = savesInFlight + 1 /\ button' \in [Forms -> Buttons]
  <2>1. savesInFlight + 1 \in Nat
    BY DEF SavingOK
  <2> QED BY <2>1, SetSavingButtons DEF Send
<1>4. Cardinality(Changes \cup {t}) = Cardinality(Changes) + 1
  BY <1>2, ChangesFinite, FS_AddElement
<1> QED
  BY <1>1, <1>2, <1>3, <1>4 DEF SavingOK, Counted

(* A change that is answered takes one away; the counter was not zero.     *)
LEMMA AnsweredCounts ==
    ASSUME SavingOK, Counted, NEW t \in Tids, NEW c \in Tasks,
           c.st # "change", Answered(t, c)
    PROVE  SavingOK' /\ Changes' = Changes \ {t} /\ t \in Changes /\ Counted'
<1>1. task' \in [Tids -> Tasks] /\ task'[t] = c /\ \A u \in Tids \ {t} : task'[u] = task[u]
  BY DEF SavingOK, Answered
<1>2. Changes' = Changes \ {t} /\ t \in Changes
  BY <1>1 DEF Changes, Answered
<1>3. Cardinality(Changes \ {t}) = Cardinality(Changes) - 1
  BY <1>2, ChangesFinite, FS_RemoveElement
<1>4. Cardinality(Changes \ {t}) \in Nat
  <2>1. IsFiniteSet(Changes \ {t})
    BY ChangesFinite, FS_RemoveElement
  <2> QED BY <2>1, FS_CardinalityType
<1>5. savesInFlight - 1 \in Nat
  BY <1>3, <1>4 DEF Counted
<1>6. savesInFlight' = savesInFlight - 1 /\ button' \in [Forms -> Buttons]
  BY <1>5, SetSavingButtons DEF Answered
<1> QED
  BY <1>1, <1>2, <1>3, <1>5, <1>6 DEF SavingOK, Counted

(* A handler goes on without sending anything.                             *)
LEMMA QuietCounts ==
    ASSUME SavingOK, Counted, NEW t \in Tids, NEW c \in Tasks,
           task[t].st # "change", c.st # "change",
           task' = [task EXCEPT ![t] = c], UNCHANGED <<savesInFlight, button>>
    PROVE  SavingOK' /\ Changes' = Changes /\ Counted'
<1>1. task' \in [Tids -> Tasks] /\ task'[t] = c /\ \A u \in Tids \ {t} : task'[u] = task[u]
  BY DEF SavingOK
<1>2. Changes' = Changes
  BY <1>1 DEF Changes
<1> QED
  BY <1>1, <1>2 DEF SavingOK, Counted

LEMMA IdleTask == Idle \in Tasks /\ Idle.st # "change"
BY Names, ConsoleAssumption DEF Idle, Tasks, Fill, New

(***************************************************************************)
(* The kinds of step.  Every action sends one change, ends one, moves one  *)
(* handler on without a change, or touches neither handlers nor counter.   *)
(***************************************************************************)
Sending(t, c) ==
    /\ Send(t, c)
    /\ task[t].st # "change" /\ c.st = "change"
    /\ c.how = "form" => savesInFlight = 0

Ending(t, c) ==
    /\ Answered(t, c)
    /\ c.st \notin {"change", "keys"}

Quiet(t, c) ==
    /\ task[t].st # "change" /\ c.st # "change"
    /\ c.st = "keys" => c.how = "keyed"
    /\ task' = [task EXCEPT ![t] = c]
    /\ UNCHANGED <<savesInFlight, button>>

Apart ==
    /\ UNCHANGED <<savesInFlight, task>>
    /\ button' = button \/ \E off \in BOOLEAN : button' = [button EXCEPT !["lan"].disabled = off]

\* A handler that makes keys is past the guard.
KeysKeyed == \A t \in Tids : task[t].st = "keys" => task[t].how = "keyed"

LEMMA StepKinds ==
    ASSUME TypeOK, KeysKeyed, Next
    PROVE  (\E t \in Tids, c \in Tasks : Sending(t, c) \/ Ending(t, c) \/ Quiet(t, c)) \/ Apart
<1> USE Names, IdleTask
<1> SUFFICES ASSUME ~Apart
             PROVE  \E t \in Tids, c \in Tasks : Sending(t, c) \/ Ending(t, c) \/ Quiet(t, c)
  OBVIOUS
<1>types. /\ task \in [Tids -> Tasks] /\ dlg \in [Dialogs -> DialogStates]
          /\ fills \in Nat /\ (fills < MaxFills => fills + 1 \in Fill)
          /\ 0 \in Fill /\ fills \in Fill
  <2>1. /\ task \in [Tids -> Tasks] /\ dlg \in [Dialogs -> DialogStates] /\ fills \in Fill
    BY TypeParts DEF SavingOK, RestOK
  <2> QED BY <2>1, ConsoleAssumption DEF Fill
<1>1. ASSUME NEW off \in BOOLEAN, RefreshDone(off)
      PROVE  FALSE
  <2>1. UNCHANGED <<savesInFlight, task>>
    BY <1>1 DEF RefreshDone
  <2>2. button' = [button EXCEPT !["lan"].disabled = off]
    BY <1>1 DEF RefreshDone
  <2> QED BY <2>1, <2>2, Zenon DEF Apart
<1>2. ASSUME NEW k \in Dialogs, CloseModal(k) \/ CloseKeyDialog(k)
      PROVE  FALSE
  BY <1>2 DEF CloseModal, CloseKeyDialog, Apart
<1>3. ASSUME NEW k \in Dialogs, NEW id \in Old \cup {New}, OpenModal(k, id)
      PROVE  FALSE
  BY <1>3 DEF OpenModal, Apart
<1>4. ASSUME NEW t \in Tids, NEW k \in Dialogs, NEW id \in Old \cup {New}, OpenLater(k, id, t)
      PROVE  \E c \in Tasks : Quiet(t, c)
  <2> DEFINE c == [st |-> "opening", k |-> k, fill |-> fills + 1, how |-> "form", id |-> id]
  <2>1. c \in Tasks
    BY <1>4, <1>types DEF OpenLater, Tasks, Old, New
  <2>2. Quiet(t, c)
    BY <1>4 DEF OpenLater, Quiet
  <2> QED BY <2>1, <2>2
<1>5. ASSUME NEW t \in Tids, NEW k \in Dialogs, Submit(k, t)
      PROVE  \E c \in Tasks : Sending(t, c)
  <2> DEFINE c == [st |-> "change", k |-> k, fill |-> dlg[k].fill, how |-> "form",
                   id |-> dlg[k].editing]
  <2>1. c \in Tasks
    BY <1>types DEF Tasks, DialogStates
  <2>2. Sending(t, c)
    BY <1>5 DEF Submit, SubmitAllowed, Sending
  <2> QED BY <2>1, <2>2
<1>6. ASSUME NEW t \in Tids, NEW k \in Dialogs, SubmitKeyed(k, t)
      PROVE  \E c \in Tasks : Quiet(t, c)
  <2> DEFINE c == [st |-> "keys", k |-> k, fill |-> dlg[k].fill, how |-> "keyed", id |-> New]
  <2>1. c \in Tasks
    BY <1>types DEF Tasks, DialogStates, New
  <2>2. Quiet(t, c)
    BY <1>6 DEF SubmitKeyed, Quiet
  <2> QED BY <2>1, <2>2
<1>7. ASSUME NEW t \in Tids, NEW b \in BOOLEAN, OpenKeyDialogDone(t, b)
      PROVE  Quiet(t, Idle)
  BY <1>7 DEF OpenKeyDialogDone, Quiet, Idle
<1>8. ASSUME NEW t \in Tids, OpenAclDone(t)
      PROVE  Quiet(t, Idle)
  BY <1>8 DEF OpenAclDone, Quiet, Idle
<1>9. ASSUME NEW t \in Tids, SubmitLan(t)
      PROVE  \E c \in Tasks : Sending(t, c)
  <2> DEFINE c == [st |-> "change", k |-> "lan", fill |-> 0, how |-> "form", id |-> New]
  <2>1. c \in Tasks
    BY <1>types DEF Tasks, New
  <2>2. Sending(t, c)
    BY <1>9 DEF SubmitLan, SubmitAllowed, Sending
  <2> QED BY <2>1, <2>2
<1>10. ASSUME NEW t \in Tids, KeysMade(t)
       PROVE  \E c \in Tasks : Sending(t, c) \/ Quiet(t, c)
  <2>1. CASE Send(t, [task[t] EXCEPT !.st = "change"])
    <3> DEFINE c == [task[t] EXCEPT !.st = "change"]
    <3>1. c \in Tasks /\ c.st = "change" /\ c.how = task[t].how
      BY <1>types DEF Tasks
    <3>2. Sending(t, c)
      BY <1>10, <2>1, <3>1 DEF KeysMade, KeysKeyed, Sending
    <3> QED BY <3>1, <3>2
  <2>2. CASE task' = [task EXCEPT ![t] = Idle] /\ UNCHANGED <<savesInFlight, button>>
    <3>1. Quiet(t, Idle)
      BY <1>10, <2>2 DEF KeysMade, Quiet, Idle
    <3> QED BY <3>1
  <2> QED BY <1>10, <2>1, <2>2 DEF KeysMade
<1>11. ASSUME NEW t \in Tids, NEW k \in Forms, ChangeRow(k, t)
       PROVE  \E c \in Tasks : Sending(t, c)
  <2> DEFINE c == [st |-> "change", k |-> k, fill |-> 0, how |-> "row", id |-> 1]
  <2>1. c \in Tasks
    BY <1>types DEF Tasks
  <2>2. Sending(t, c)
    BY <1>11 DEF ChangeRow, Sending
  <2> QED BY <2>1, <2>2
<1>12. ASSUME NEW t \in Tids,
              \/ SavedRow(t) \/ SavedLan(t) \/ SavedHost(t) \/ SavedSite(t)
              \/ Refused(t) \/ AnswerLost(t) \/ \E b \in BOOLEAN : SavedStream(t, b)
       PROVE  Ending(t, Idle)
  <2>1. Answered(t, Idle)
    BY <1>12 DEF SavedRow, SavedLan, SavedHost, SavedSite, Refused, AnswerLost, SavedStream
  <2> QED BY <2>1 DEF Ending, Idle
<1>13. ASSUME NEW t \in Tids, SavedKeyed(t)
       PROVE  \E c \in Tasks : Ending(t, c)
  <2> DEFINE c == [task[t] EXCEPT !.st = "reading"]
  <2>1. c \in Tasks /\ c.st = "reading"
    BY <1>types DEF Tasks
  <2>2. Ending(t, c)
    BY <1>13, <2>1 DEF SavedKeyed, Ending
  <2> QED BY <2>1, <2>2
<1>14. ASSUME NEW t \in Tids, ReadDone(t)
       PROVE  Quiet(t, Idle)
  BY <1>14 DEF ReadDone, Quiet, Idle
<1> QED
  BY <1>1, <1>2, <1>3, <1>4, <1>5, <1>6, <1>7, <1>8, <1>9, <1>10, <1>11, <1>12, <1>13, <1>14
     DEF Next

(* The counter and the tasks keep their types, and the counter stays exact.*)
LEMMA SavingStep ==
    ASSUME TypeOK, Counted, KeysKeyed, Next
    PROVE  SavingOK' /\ Counted' /\ KeysKeyed'
<1>1. SavingOK
  BY TypeParts
<1>2. ASSUME NEW t \in Tids, NEW c \in Tasks, Sending(t, c)
      PROVE  SavingOK' /\ Counted' /\ KeysKeyed'
  <2>1. SavingOK' /\ Counted'
    BY <1>1, <1>2, SendCounts DEF Sending
  <2>2. KeysKeyed'
    BY <1>1, <1>2 DEF Sending, Send, KeysKeyed, SavingOK
  <2> QED BY <2>1, <2>2
<1>3. ASSUME NEW t \in Tids, NEW c \in Tasks, Ending(t, c)
      PROVE  SavingOK' /\ Counted' /\ KeysKeyed'
  <2>1. SavingOK' /\ Counted'
    BY <1>1, <1>3, AnsweredCounts DEF Ending
  <2>2. KeysKeyed'
    BY <1>1, <1>3 DEF Ending, Answered, KeysKeyed, SavingOK
  <2> QED BY <2>1, <2>2
<1>4. ASSUME NEW t \in Tids, NEW c \in Tasks, Quiet(t, c)
      PROVE  SavingOK' /\ Counted' /\ KeysKeyed'
  <2>1. SavingOK' /\ Counted'
    BY <1>1, <1>4, QuietCounts DEF Quiet
  <2>2. KeysKeyed'
    BY <1>1, <1>4 DEF Quiet, KeysKeyed, SavingOK
  <2> QED BY <2>1, <2>2
<1>5. ASSUME Apart
      PROVE  SavingOK' /\ Counted' /\ KeysKeyed'
  <2>1. button' \in [Forms -> Buttons]
    <3>1. CASE button' = button
      BY <1>1, <3>1 DEF SavingOK
    <3>2. ASSUME NEW off \in BOOLEAN, button' = [button EXCEPT !["lan"].disabled = off]
          PROVE  button' \in [Forms -> Buttons]
      BY <1>1, <3>2, Names DEF SavingOK, Buttons
    <3> QED BY <1>5, <3>1, <3>2 DEF Apart
  <2>2. Changes' = Changes
    BY <1>5 DEF Apart, Changes
  <2>3. Counted' /\ KeysKeyed'
    BY <1>5, <2>2 DEF Apart, Counted, KeysKeyed
  <2>4. SavingOK'
    BY <1>1, <1>5, <2>1 DEF Apart, SavingOK
  <2> QED BY <2>3, <2>4
<1> QED
  BY <1>2, <1>3, <1>4, <1>5, StepKinds

(* The rest of the state keeps its types.                                  *)
LEMMA RestStep ==
    ASSUME TypeOK, Next
    PROVE  RestOK'
<1> USE Names
<1>types. RestOK /\ task \in [Tids -> Tasks] /\ dlg \in [Dialogs -> DialogStates]
  BY TypeParts DEF SavingOK, RestOK
<1>fill. fills \in Nat /\ (fills < MaxFills => fills + 1 \in Fill) /\ 0 \in Fill
  BY <1>types, ConsoleAssumption DEF Fill, RestOK
<1>refresh. ASSUME RefreshVPN PROVE refreshes' \in 0 .. MaxRefresh
  BY <1>types, <1>refresh, ConsoleAssumption DEF RefreshVPN, RestOK
<1>created. ASSUME NEW t \in Tids, Created(t)
            PROVE  created' \in [Fill -> Nat] /\ nextId' \in Nat
  <2>1. task[t].fill \in Fill
    BY <1>types DEF Tasks
  <2> QED BY <1>types, <1>created, <2>1 DEF Created, RestOK
<1>filled. ASSUME NEW k \in Dialogs, NEW id \in Old \cup {New}, NEW shown \in BOOLEAN, fills < MaxFills
           PROVE  Filled(k, id, shown) \in DialogStates
  <2>1. dlg[k] \in DialogStates /\ id \in Nat /\ fills + 1 \in Fill
    BY <1>types, <1>fill, <1>filled DEF Old, New
  <2>2. <<>> \in Seq(Fill)
    OBVIOUS
  <2> QED BY <2>1, <2>2 DEF Filled, DialogStates
<1>1. ASSUME NEW off \in BOOLEAN, RefreshDone(off)
      PROVE  RestOK'
  BY <1>1, <1>types, ConsoleAssumption DEF RefreshDone, RestOK
<1>2. ASSUME NEW k \in Dialogs, CloseModal(k)
      PROVE  RestOK'
  BY <1>2, <1>types, ZenonT(60) DEF CloseModal, RestOK, DialogStates
<1>3. ASSUME NEW k \in Dialogs, CloseKeyDialog(k)
      PROVE  RestOK'
  <2>1. dlg' \in [Dialogs -> DialogStates]
    BY <1>3, <1>types, <1>fill, ZenonT(60) DEF CloseKeyDialog, DialogStates
  <2> QED BY <1>3, <1>types, <1>refresh, <2>1 DEF CloseKeyDialog, RestOK
<1>4. ASSUME NEW k \in Dialogs, NEW id \in Old \cup {New}, OpenModal(k, id)
      PROVE  RestOK'
  <2>1. Filled(k, id, TRUE) \in DialogStates /\ fills + 1 \in Fill
    BY <1>4, <1>filled, <1>fill DEF OpenModal
  <2> QED BY <1>4, <1>types, <2>1 DEF OpenModal, RestOK
<1>5. ASSUME NEW t \in Tids, NEW k \in Dialogs, NEW id \in Old \cup {New}, OpenLater(k, id, t)
      PROVE  RestOK'
  <2>1. Filled(k, id, FALSE) \in DialogStates /\ fills + 1 \in Fill
    BY <1>5, <1>filled, <1>fill DEF OpenLater
  <2> QED BY <1>5, <1>types, <2>1 DEF OpenLater, RestOK
<1>6. ASSUME NEW t \in Tids, NEW can \in BOOLEAN, OpenKeyDialogDone(t, can)
      PROVE  RestOK'
  <2>1. dlg' \in [Dialogs -> DialogStates]
    BY <1>6, <1>types, ZenonT(60) DEF OpenKeyDialogDone, DialogStates
  <2> QED BY <1>6, <1>types, <2>1 DEF OpenKeyDialogDone, RestOK
<1>7. ASSUME NEW t \in Tids, OpenAclDone(t)
      PROVE  RestOK'
  <2>1. task[t].fill \in Fill
    BY <1>types DEF Tasks
  <2> DEFINE rows == IF task[t].id = New THEN dlg["acl"].rows
                     ELSE Append(dlg["acl"].rows, task[t].fill)
             d == [dlg["acl"] EXCEPT !.shown = TRUE, !.rows = rows]
  <2>2. dlg["acl"] \in DialogStates
    BY <1>7, <1>types DEF OpenAclDone, Tasks, Forms
  <2>3. dlg' \in [Dialogs -> DialogStates]
    <3>1. rows \in Seq(Fill)
      BY <2>1, <2>2 DEF DialogStates
    <3> HIDE DEF rows
    <3>2. d \in DialogStates
      BY <2>2, <3>1 DEF DialogStates
    <3>3. dlg' = [dlg EXCEPT !["acl"] = d]
      BY <1>7 DEF OpenAclDone, rows
    <3> HIDE DEF d
    <3> QED BY <1>types, <3>2, <3>3
  <2> QED BY <1>7, <1>types, <2>3 DEF OpenAclDone, RestOK
<1>8. ASSUME NEW t \in Tids,
             \/ \E k \in Dialogs : Submit(k, t) \/ SubmitKeyed(k, t)
             \/ SubmitLan(t) \/ KeysMade(t) \/ \E k \in Forms : ChangeRow(k, t)
             \/ SavedKeyed(t)
      PROVE  RestOK'
  <2>1. UNCHANGED <<dlg, fills, nextId, created, lost, refreshes>>
    BY <1>8 DEF Submit, SubmitKeyed, SubmitLan, KeysMade, ChangeRow, SavedKeyed
  <2> QED BY <1>types, <2>1 DEF RestOK
<1>9. ASSUME NEW t \in Tids, SavedRow(t) \/ SavedLan(t) \/ Refused(t)
      PROVE  RestOK'
  <2>1. UNCHANGED <<dlg, fills, nextId, created, lost>> /\ (RefreshVPN \/ UNCHANGED refreshes)
    BY <1>9 DEF SavedRow, SavedLan, Refused
  <2> QED BY <1>types, <1>refresh, <2>1 DEF RestOK
<1>10. ASSUME NEW t \in Tids, SavedHost(t)
       PROVE  RestOK'
  <2>1. dlg' \in [Dialogs -> DialogStates]
    BY <1>10, <1>types DEF SavedHost, DialogStates
  <2> QED BY <1>10, <1>types, <1>created, <2>1 DEF SavedHost, RestOK
<1>11. ASSUME NEW t \in Tids, NEW failed \in BOOLEAN, SavedStream(t, failed)
       PROVE  RestOK'
  <2> DEFINE saved == IF task[t].id = New THEN nextId ELSE task[t].id
  <2>1. saved \in Nat
    BY <1>types DEF RestOK, Tasks
  <2> DEFINE own == IF dlg["stream"].fill = task[t].fill THEN saved ELSE dlg["stream"].own
             d == [dlg["stream"] EXCEPT !.shown = @ /\ failed, !.editing = saved, !.own = own]
  <2>2. dlg["stream"] \in DialogStates
    BY <1>11, <1>types DEF SavedStream, Tasks, Forms
  <2>3. dlg' \in [Dialogs -> DialogStates]
    <3>1. dlg' = [dlg EXCEPT !["stream"] = d]
      BY <1>11 DEF SavedStream
    <3>2. own \in Nat
      BY <2>1, <2>2 DEF DialogStates
    <3> HIDE DEF saved, own
    <3>3. d \in DialogStates
      BY <2>1, <2>2, <3>2 DEF DialogStates
    <3> HIDE DEF d
    <3> QED BY <1>types, <3>1, <3>3
  <2> QED BY <1>11, <1>types, <1>created, <2>3 DEF SavedStream, RestOK
<1>12. ASSUME NEW t \in Tids, SavedSite(t)
       PROVE  RestOK'
  <2>1. dlg' \in [Dialogs -> DialogStates]
    BY <1>12, <1>types, <1>fill, ZenonT(60) DEF SavedSite, DialogStates
  <2> QED BY <1>12, <1>types, <1>refresh, <2>1 DEF SavedSite, RestOK
<1>13. ASSUME NEW t \in Tids, ReadDone(t)
       PROVE  RestOK'
  <2>1. task[t].fill \in Fill
    BY <1>types DEF Tasks
  <2>2. dlg' \in [Dialogs -> DialogStates]
    <3>1. CASE UNCHANGED dlg
      BY <1>types, <3>1
    <3>2. CASE dlg' = [dlg EXCEPT ![task[t].k].config = task[t].fill, ![task[t].k].form = FALSE]
      BY <1>types, <2>1, <3>2, ZenonT(60) DEF DialogStates
    <3> QED BY <1>13, <3>1, <3>2 DEF ReadDone
  <2> QED BY <1>13, <1>types, <2>2 DEF ReadDone, RestOK
<1>14. ASSUME NEW t \in Tids, AnswerLost(t)
       PROVE  RestOK'
  <2>1. task[t].fill \in Fill
    BY <1>types DEF Tasks
  <2>2. lost' \in [Fill -> Nat]
    BY <1>14, <1>types, <2>1 DEF AnswerLost, RestOK
  <2> QED BY <1>14, <1>types, <1>created, <2>2 DEF AnswerLost, RestOK
<1> QED
  BY <1>1, <1>2, <1>3, <1>4, <1>5, <1>6, <1>7, <1>8, <1>9, <1>10, <1>11, <1>12, <1>13, <1>14
     DEF Next

(***************************************************************************)
(* The buttons of the dialogs, and the one form that is being saved.       *)
(***************************************************************************)
ButtonsExact ==
    \A k \in Dialogs :
        button[k] = IF savesInFlight > 0
                    THEN [text |-> "Saving...", kept |-> "Save", disabled |-> TRUE]
                    ELSE Ready

OneForm == \A t, u \in FormChanges : t = u

IInv == TypeOK /\ Counted /\ KeysKeyed /\ ButtonsExact /\ OneForm

LEMMA SetSavingExact ==
    ASSUME ButtonsExact, NEW n \in Nat, SetSaving(n), SavingOK
    PROVE  ButtonsExact'
<1>1. ASSUME NEW k \in Dialogs
      PROVE  button'[k] = IF n > 0
                          THEN [text |-> "Saving...", kept |-> "Save", disabled |-> TRUE]
                          ELSE Ready
  <2>1. button'[k] = IF n > 0 /\ ~button[k].disabled
                     THEN [text |-> "Saving...", kept |-> button[k].text, disabled |-> TRUE]
                     ELSE IF n = 0 /\ button[k].kept # "undefined"
                     THEN [text |-> button[k].kept, kept |-> "undefined", disabled |-> FALSE]
                     ELSE button[k]
    BY Names DEF SetSaving
  <2>2. CASE savesInFlight > 0
    <3>1. button[k] = [text |-> "Saving...", kept |-> "Save", disabled |-> TRUE]
      BY <2>2 DEF ButtonsExact
    <3>2. button[k].disabled = TRUE
      BY <3>1
    <3>3. button[k].kept = "Save" /\ "Save" # "undefined"
      BY <3>1
    <3>4. CASE n > 0
      <4>1. n # 0
        BY <3>4
      <4>2. button'[k] = button[k]
        BY <2>1, <3>2, <4>1, Zenon
      <4> QED BY <3>1, <3>4, <4>2, Zenon
    <3>5. CASE n = 0
      <4>1. ~(n > 0)
        BY <3>5
      <4>2. button'[k] = [text |-> button[k].kept, kept |-> "undefined", disabled |-> FALSE]
        BY <2>1, <3>3, <3>5, <4>1, Zenon
      <4> QED BY <3>3, <4>1, <4>2, Zenon DEF Ready
    <3> QED BY <3>4, <3>5
  <2>3. CASE ~(savesInFlight > 0)
    <3>1. button[k] = Ready
      BY <2>3 DEF ButtonsExact
    <3>0. button[k] = [text |-> "Save", kept |-> "undefined", disabled |-> FALSE]
      BY <3>1 DEF Ready
    <3>2. button[k].disabled = FALSE
      BY <3>0
    <3>3. button[k].kept = "undefined" /\ button[k].text = "Save"
      BY <3>0
    <3>4. CASE n > 0
      <4>1. button'[k] = [text |-> "Saving...", kept |-> button[k].text, disabled |-> TRUE]
        BY <2>1, <3>2, <3>4, Zenon
      <4> QED BY <3>3, <3>4, <4>1, Zenon
    <3>5. CASE n = 0
      <4>1. ~(n > 0)
        BY <3>5
      <4>2. button'[k] = button[k]
        BY <2>1, <3>3, <4>1, Zenon
      <4> QED BY <3>1, <4>1, <4>2, Zenon
    <3> QED BY <3>4, <3>5
  <2> QED BY <2>2, <2>3
<1>2. savesInFlight' = n
  BY DEF SetSaving
<1> QED
  BY <1>1, <1>2 DEF ButtonsExact

LEMMA ButtonsStep ==
    ASSUME IInv, Next
    PROVE  ButtonsExact'
<1>types. SavingOK /\ savesInFlight \in Nat
  BY TypeParts DEF IInv, SavingOK
<1>1. ASSUME NEW t \in Tids, NEW c \in Tasks, Sending(t, c)
      PROVE  ButtonsExact'
  <2>1. savesInFlight + 1 \in Nat
    BY <1>types
  <2> QED BY <1>1, <1>types, <2>1, SetSavingExact DEF Sending, Send, IInv
<1>2. ASSUME NEW t \in Tids, NEW c \in Tasks, Ending(t, c)
      PROVE  ButtonsExact'
  <2>1. SavingOK'
    BY <1>2, <1>types, AnsweredCounts DEF IInv, Ending
  <2>2. savesInFlight - 1 \in Nat
    BY <1>2, <2>1 DEF SavingOK, Ending, Answered, SetSaving
  <2> QED BY <1>2, <1>types, <2>2, SetSavingExact DEF Ending, Answered, IInv
<1>3. ASSUME NEW t \in Tids, NEW c \in Tasks, Quiet(t, c)
      PROVE  ButtonsExact'
  BY <1>3 DEF Quiet, ButtonsExact, IInv
<1>4. ASSUME Apart
      PROVE  ButtonsExact'
  <2>1. \A k \in Dialogs : button'[k] = button[k]
    <3>1. ASSUME NEW off \in BOOLEAN, button' = [button EXCEPT !["lan"].disabled = off]
          PROVE  \A k \in Dialogs : button'[k] = button[k]
      BY <1>types, <3>1, Names DEF SavingOK
    <3> QED BY <1>4, <3>1 DEF Apart
  <2> QED BY <1>4, <2>1 DEF Apart, ButtonsExact, IInv
<1> QED
  BY <1>1, <1>2, <1>3, <1>4, StepKinds DEF IInv

(* What a step does to the form being saved and to the other changes.      *)
LEMMA SendGates ==
    ASSUME IInv, NEW t \in Tids, NEW c \in Tasks, Sending(t, c)
    PROVE  /\ Changes' = Changes \cup {t} /\ t \notin Changes
           /\ task'[t] = c /\ \A u \in Changes : task'[u] = task[u]
           /\ c.how = "form" => Changes = {} /\ FormChanges = {} /\ FormChanges' = {t}
           /\ c.how # "form" => FormChanges' = FormChanges
<1>types. SavingOK
  BY TypeParts DEF IInv
<1>1. Changes' = Changes \cup {t} /\ t \notin Changes
  BY <1>types, SendCounts DEF IInv, Sending
<1>2. task'[t] = c /\ \A u \in Tids \ {t} : task'[u] = task[u]
  BY <1>types DEF Sending, Send, SavingOK
<1>3. c.how = "form" => Changes = {}
  BY ChangesFinite, FS_EmptySet DEF Sending, IInv, Counted
<1> QED
  BY <1>1, <1>2, <1>3 DEF FormChanges, Changes

LEMMA EndGates ==
    ASSUME IInv, NEW t \in Tids, NEW c \in Tasks, Ending(t, c)
    PROVE  /\ Changes' = Changes \ {t} /\ t \in Changes
           /\ \A u \in Changes \ {t} : task'[u] = task[u]
           /\ FormChanges' = FormChanges \ {t}
<1>types. SavingOK
  BY TypeParts DEF IInv
<1>1. Changes' = Changes \ {t} /\ t \in Changes
  BY <1>types, AnsweredCounts DEF IInv, Ending
<1>2. \A u \in Tids \ {t} : task'[u] = task[u]
  BY <1>types DEF Ending, Answered, SavingOK
<1> QED
  BY <1>1, <1>2 DEF FormChanges, Changes

LEMMA QuietGates ==
    ASSUME IInv, (\E t \in Tids, c \in Tasks : Quiet(t, c)) \/ Apart
    PROVE  Changes' = Changes /\ FormChanges' = FormChanges /\ \A u \in Changes : task'[u] = task[u]
<1>types. SavingOK
  BY TypeParts DEF IInv
<1>1. ASSUME NEW t \in Tids, NEW c \in Tasks, Quiet(t, c)
      PROVE  Changes' = Changes /\ \A u \in Changes : task'[u] = task[u]
  <2>1. task'[t] = c /\ t \notin Changes /\ \A u \in Tids \ {t} : task'[u] = task[u]
    BY <1>types, <1>1 DEF Quiet, SavingOK, Changes
  <2> QED BY <1>1, <2>1 DEF Changes, Quiet
<1>2. ASSUME Apart
      PROVE  Changes' = Changes /\ \A u \in Changes : task'[u] = task[u]
  BY <1>2 DEF Apart, Changes
<1>3. Changes' = Changes /\ \A u \in Changes : task'[u] = task[u]
  BY <1>1, <1>2
<1> QED
  BY <1>3 DEF FormChanges

LEMMA OneFormStep ==
    ASSUME IInv, Next
    PROVE  OneForm'
<1>1. ASSUME NEW t \in Tids, NEW c \in Tasks, Sending(t, c) PROVE OneForm'
  BY <1>1, SendGates DEF OneForm, IInv
<1>2. ASSUME NEW t \in Tids, NEW c \in Tasks, Ending(t, c) PROVE OneForm'
  BY <1>2, EndGates DEF OneForm, IInv
<1>3. ASSUME (\E t \in Tids, c \in Tasks : Quiet(t, c)) \/ Apart PROVE OneForm'
  BY <1>3, QuietGates DEF OneForm, IInv
<1> QED
  BY <1>1, <1>2, <1>3, StepKinds DEF IInv

LEMMA InitIInv == Init => IInv
<1> SUFFICES ASSUME Init PROVE IInv
  OBVIOUS
<1>1. Changes = {}
  BY DEF Init, Changes, Idle
<1>2. Counted /\ KeysKeyed /\ OneForm
  BY <1>1, FS_EmptySet DEF Init, Counted, KeysKeyed, OneForm, FormChanges, Idle
<1>3. ButtonsExact
  BY Names DEF Init, ButtonsExact
<1>4. SavingOK
  BY IdleTask DEF Init, SavingOK, Ready, Buttons
<1>5. RestOK
  <2>1. 0 \in Fill /\ 0 \in 0 .. MaxRefresh
    BY ConsoleAssumption DEF Fill
  <2>2. <<>> \in Seq(Fill)
    OBVIOUS
  <2>3. Closed \in DialogStates
    BY <2>1, <2>2 DEF Closed, DialogStates, New
  <2> QED BY <2>1, <2>3 DEF Init, RestOK
<1> QED
  BY <1>2, <1>3, <1>4, <1>5, TypeParts DEF IInv

LEMMA StepIInv == IInv /\ [Next]_vars => IInv'
<1> SUFFICES ASSUME IInv, [Next]_vars PROVE IInv'
  OBVIOUS
<1>1. CASE Next
  <2>1. SavingOK' /\ Counted' /\ KeysKeyed'
    BY <1>1, SavingStep DEF IInv
  <2>2. RestOK'
    BY <1>1, RestStep DEF IInv
  <2>3. TypeOK'
    BY <2>1, <2>2 DEF TypeOK, SavingOK, RestOK, Buttons, DialogStates
  <2> QED BY <1>1, <2>1, <2>3, ButtonsStep, OneFormStep DEF IInv
<1>2. CASE UNCHANGED vars
  BY <1>2 DEF vars, IInv, TypeOK, Counted, KeysKeyed, ButtonsExact, OneForm, FormChanges, Changes
<1> QED
  BY <1>1, <1>2

LEMMA Invariance == Spec => []IInv
BY InitIInv, StepIInv, PTL DEF Spec

(* The type invariant, for any number of dialogs, handlers and openings:   *)
(* in particular setSaving's counter never falls below zero.               *)
THEOREM TypeCorrect == Spec => []TypeOK
<1>1. IInv => TypeOK
  BY DEF IInv
<1> QED
  BY <1>1, Invariance, PTL

(* setSaving's counter is the number of changes on their way, and the Save *)
(* buttons of the dialogs follow it, however many handlers overlap.        *)
THEOREM SavingExactHolds == Spec => []SavingExact
<1>1. IInv => SavingExact
  BY DEF IInv, SavingExact, Counted, ButtonsExact
<1> QED
  BY <1>1, Invariance, PTL

(***************************************************************************)
(* The refinement.                                                         *)
(***************************************************************************)
\* The form being saved, when there is one.
LEMMA GateValue ==
    ASSUME OneForm, NEW t \in FormChanges
    PROVE  GateForm = task[t].k
<1>1. (CHOOSE u \in FormChanges : TRUE) \in FormChanges
  OBVIOUS
<1>2. (CHOOSE u \in FormChanges : TRUE) = t
  BY <1>1 DEF OneForm
<1> QED
  BY <1>2 DEF GateForm

LEMMA GateValuePrime ==
    ASSUME OneForm', NEW t \in FormChanges'
    PROVE  GateForm' = task'[t].k
<1>1. (CHOOSE u \in FormChanges' : TRUE) \in FormChanges'
  OBVIOUS
<1>2. (CHOOSE u \in FormChanges' : TRUE) = t
  BY <1>1 DEF OneForm
<1> QED
  BY <1>2 DEF GateForm

LEMMA GateFormStays ==
    ASSUME OneForm, OneForm', FormChanges' = FormChanges,
           \A u \in FormChanges : task'[u] = task[u]
    PROVE  GateForm' = GateForm
<1>1. CASE FormChanges = {}
  BY <1>1 DEF GateForm
<1>2. CASE FormChanges # {}
  <2>1. PICK u \in FormChanges : TRUE
    BY <1>2
  <2> QED BY <2>1, GateValue, GateValuePrime
<1> QED BY <1>1, <1>2

LEMMA OthersFinite == IsFiniteSet(Changes \ FormChanges)
BY ChangesFinite, FS_Subset

LEMMA StepGate ==
    ASSUME IInv, IInv', [Next]_vars
    PROVE  [Gate!Next]_(Gate!vars)
<1>types. SavingOK /\ OneForm /\ OneForm'
  BY TypeParts DEF IInv
<1>1. ASSUME NEW t \in Tids, NEW c \in Tasks, Sending(t, c), c.how = "form"
      PROVE  Gate!BeginSave(c.k) /\ c.k \in Forms
  <2>1. FormChanges = {} /\ Changes = {} /\ FormChanges' = {t} /\ Changes' = {t} /\ task'[t] = c
    BY <1>1, SendGates
  <2>2. GateForm = NoForm /\ GateForm' = c.k
    BY <1>types, <2>1, GateValuePrime DEF GateForm
  <2>3. Changes \ FormChanges = {} /\ Changes' \ FormChanges' = {}
    BY <2>1
  <2>4. GateOthers = 0 /\ GateOthers' = 0
    BY <2>3, FS_EmptySet DEF GateOthers
  <2> QED BY <2>2, <2>4 DEF Gate!BeginSave, Tasks
<1>2. ASSUME NEW t \in Tids, NEW c \in Tasks, Sending(t, c), c.how # "form"
      PROVE  Gate!BeginOther
  <2>1. /\ FormChanges' = FormChanges /\ Changes' = Changes \cup {t} /\ t \notin Changes
        /\ \A u \in FormChanges : task'[u] = task[u]
    BY <1>2, SendGates DEF FormChanges
  <2>2. GateForm' = GateForm
    BY <1>types, <2>1, GateFormStays
  <2>3. Changes' \ FormChanges' = (Changes \ FormChanges) \cup {t} /\ t \notin Changes \ FormChanges
    BY <2>1 DEF FormChanges
  <2>4. GateOthers' = GateOthers + 1
    BY <2>3, OthersFinite, FS_AddElement DEF GateOthers
  <2> QED BY <2>2, <2>4 DEF Gate!BeginOther
<1>3. ASSUME NEW t \in Tids, NEW c \in Tasks, Ending(t, c), t \in FormChanges
      PROVE  Gate!EndSave
  <2>1. FormChanges' = {} /\ Changes' \ FormChanges' = Changes \ FormChanges
    BY <1>3, <1>types, EndGates DEF OneForm
  <2>2. GateForm = task[t].k /\ task[t].k \in Forms /\ GateForm' = NoForm
    BY <1>3, <1>types, <2>1, GateValue DEF GateForm, SavingOK, Tasks
  <2>3. GateOthers' = GateOthers
    BY <2>1 DEF GateOthers
  <2> QED BY <2>2, <2>3, Names DEF Gate!EndSave
<1>4. ASSUME NEW t \in Tids, NEW c \in Tasks, Ending(t, c), t \notin FormChanges
      PROVE  Gate!EndOther
  <2>1. /\ FormChanges' = FormChanges /\ \A u \in FormChanges : task'[u] = task[u]
        /\ t \in Changes \ FormChanges
        /\ Changes' \ FormChanges' = (Changes \ FormChanges) \ {t}
    BY <1>4, EndGates DEF FormChanges
  <2>2. GateForm' = GateForm
    BY <1>types, <2>1, GateFormStays
  <2>3. GateOthers' = GateOthers - 1
    BY <2>1, OthersFinite, FS_RemoveElement DEF GateOthers
  <2>4. GateOthers \in Nat /\ GateOthers # 0
    BY <2>1, OthersFinite, FS_CardinalityType, FS_EmptySet DEF GateOthers
  <2> QED BY <2>2, <2>3, <2>4 DEF Gate!EndOther
<1>5. ASSUME (\E t \in Tids, c \in Tasks : Quiet(t, c)) \/ Apart
      PROVE  UNCHANGED Gate!vars
  <2>1. /\ FormChanges' = FormChanges /\ Changes' = Changes
        /\ \A u \in FormChanges : task'[u] = task[u]
    BY <1>5, QuietGates DEF FormChanges
  <2>2. GateForm' = GateForm
    BY <1>types, <2>1, GateFormStays
  <2>3. GateOthers' = GateOthers
    BY <2>1 DEF GateOthers
  <2> QED BY <2>2, <2>3 DEF Gate!vars
<1>6. CASE UNCHANGED vars
  <2>1. task' = task
    BY <1>6 DEF vars
  <2>2. FormChanges' = FormChanges /\ Changes' = Changes
    BY <2>1 DEF FormChanges, Changes
  <2> QED BY <2>1, <2>2 DEF Gate!vars, GateForm, GateOthers
<1>7. CASE Next
  <2>1. (\E t \in Tids, c \in Tasks : Sending(t, c) \/ Ending(t, c) \/ Quiet(t, c)) \/ Apart
    BY <1>7, StepKinds DEF IInv
  <2>2. ASSUME NEW t \in Tids, NEW c \in Tasks, Sending(t, c) PROVE Gate!Next
    BY <1>1, <1>2, <2>2 DEF Gate!Next
  <2>3. ASSUME NEW t \in Tids, NEW c \in Tasks, Ending(t, c) PROVE Gate!Next
    BY <1>3, <1>4, <2>3 DEF Gate!Next
  <2> QED BY <1>5, <2>1, <2>2, <2>3
<1> QED
  BY <1>6, <1>7

LEMMA InitGate == Init => Gate!Init
<1> SUFFICES ASSUME Init PROVE Gate!Init
  OBVIOUS
<1>1. Changes = {}
  BY DEF Init, Changes, Idle
<1>2. FormChanges = {} /\ Changes \ FormChanges = {}
  BY <1>1 DEF FormChanges
<1> QED
  BY <1>2, FS_EmptySet DEF Gate!Init, GateForm, GateOthers

(* The admin interface implements SaveGate, whatever dialogs it has and    *)
(* however many handlers are suspended: a form is saved only while nothing *)
(* else is on its way.                                                     *)
THEOREM SavesAreGatedHolds == Spec => SavesAreGated
BY InitGate, StepGate, Invariance, PTL DEF Spec, SavesAreGated, Gate!Spec

(***************************************************************************)
(* One object per filled-in form.                                          *)
(***************************************************************************)
\* Fills are numbered in the order of opening; what is not open yet has made
\* nothing.
Bounded ==
    /\ \A t \in Tids : task[t].fill <= fills
    /\ \A k \in Dialogs : dlg[k].fill <= fills
    /\ \A n \in Fill : n > fills => created[n] = 0
    /\ nextId # New

\* A fill is in one dialog only, and a form that is being saved came from it.
Owned ==
    /\ \A j, k \in Dialogs : dlg[j].fill = dlg[k].fill /\ dlg[j].fill # 0 => j = k
    /\ \A k \in Dialogs \cap SyncDialogs : dlg[k].shown => dlg[k].fill # 0
    /\ \A t \in FormChanges : task[t].k \in SyncDialogs =>
          /\ task[t].fill # 0
          /\ \A k \in Dialogs : dlg[k].fill = task[t].fill => k = task[t].k

\* A fill that has made its object is nowhere about to be sent as a new one.
Sealed(n) ==
    created[n] > lost[n] =>
      /\ \A k \in Dialogs \cap SyncDialogs :
            dlg[k].shown /\ dlg[k].fill = n => dlg[k].editing # New
      /\ \A t \in FormChanges :
            task[t].k \in SyncDialogs /\ task[t].fill = n => task[t].id # New

Once == Bounded /\ Owned /\ CreatedOnce /\ \A n \in Fill : Sealed(n)

\* A step that opens nothing, stores nothing and saves no new form.
Calm ==
    /\ UNCHANGED <<fills, nextId, created, lost>>
    /\ \A k \in Dialogs : dlg'[k].fill = dlg[k].fill
    /\ \A k \in Dialogs \cap SyncDialogs :
          (dlg'[k].shown => dlg[k].shown) /\ dlg'[k].editing = dlg[k].editing
    /\ \A t \in Tids : task'[t].fill <= fills
    /\ FormChanges' \subseteq FormChanges
    /\ \A t \in FormChanges' : task'[t] = task[t]

LEMMA CalmOnce ==
    ASSUME Once, Calm
    PROVE  Once'
<1>1. Bounded'
  BY DEF Once, Calm, Bounded
<1>2. Owned'
  BY DEF Once, Calm, Owned
<1>3. CreatedOnce'
  BY DEF Once, Calm, CreatedOnce
<1>4. ASSUME NEW n \in Fill PROVE Sealed(n)'
  BY DEF Once, Calm, Sealed
<1> QED
  BY <1>1, <1>2, <1>3, <1>4 DEF Once

(* Most actions are calm.                                                  *)
LEMMA CalmSteps ==
    ASSUME IInv, Once, Next,
           ~\E k \in Dialogs, id \in Old \cup {New} : OpenModal(k, id),
           ~\E t \in Tids, k \in Dialogs, id \in Old \cup {New} : OpenLater(k, id, t),
           ~\E t \in Tids, k \in Dialogs : Submit(k, t),
           ~\E t \in Tids : SubmitLan(t) \/ SavedHost(t) \/ AnswerLost(t),
           ~\E t \in Tids, failed \in BOOLEAN : SavedStream(t, failed)
    PROVE  Calm
<1> USE Names
<1>types. /\ task \in [Tids -> Tasks] /\ dlg \in [Dialogs -> DialogStates] /\ fills \in Nat
          /\ \A t \in Tids : task[t].fill <= fills
          /\ \A k \in Dialogs : dlg[k].fill <= fills
  BY TypeParts, ConsoleAssumption DEF IInv, SavingOK, RestOK, Once, Bounded, Fill
<1>apart. KeyDialogs \cap SyncDialogs = {} /\ "acl" \notin SyncDialogs
  BY DEF KeyDialogs, SyncDialogs
<1>end. ASSUME NEW t \in Tids, NEW c \in Tasks, Ending(t, c), c.fill <= fills
        PROVE  /\ \A u \in Tids : task'[u].fill <= fills
               /\ FormChanges' \subseteq FormChanges
               /\ \A u \in FormChanges' : task'[u] = task[u]
  <2>1. \A u \in Tids : task'[u] = IF u = t THEN c ELSE task[u]
    BY <1>types, <1>end DEF Ending, Answered
  <2> QED BY <1>types, <1>end, <2>1, EndGates DEF FormChanges
<1>quiet. ASSUME NEW t \in Tids, NEW c \in Tasks, Quiet(t, c), c.fill <= fills
          PROVE  /\ \A u \in Tids : task'[u].fill <= fills
                 /\ FormChanges' \subseteq FormChanges
                 /\ \A u \in FormChanges' : task'[u] = task[u]
  <2>1. \A u \in Tids : task'[u] = IF u = t THEN c ELSE task[u]
    BY <1>types, <1>quiet DEF Quiet
  <2> QED BY <1>types, <1>quiet, <2>1, QuietGates DEF FormChanges
<1>send. ASSUME NEW t \in Tids, NEW c \in Tasks, Sending(t, c), c.fill <= fills, c.how # "form"
         PROVE  /\ \A u \in Tids : task'[u].fill <= fills
                /\ FormChanges' \subseteq FormChanges
                /\ \A u \in FormChanges' : task'[u] = task[u]
  <2>1. \A u \in Tids : task'[u] = IF u = t THEN c ELSE task[u]
    BY <1>types, <1>send DEF Sending, Send
  <2> QED BY <1>types, <1>send, <2>1, SendGates DEF FormChanges
<1>idle. Idle \in Tasks /\ Idle.fill <= fills /\ Idle.st = "free"
  BY <1>types, IdleTask DEF Idle
<1>still. ASSUME task' = task
          PROVE  /\ \A u \in Tids : task'[u].fill <= fills
                 /\ FormChanges' \subseteq FormChanges
                 /\ \A u \in FormChanges' : task'[u] = task[u]
  BY <1>types, <1>still DEF FormChanges, Changes
<1>1. ASSUME NEW off \in BOOLEAN, RefreshDone(off) PROVE Calm
  BY <1>1, <1>still DEF RefreshDone, Calm
<1>2. ASSUME NEW k \in Dialogs, CloseModal(k) PROVE Calm
  <2>1. \A j \in Dialogs : /\ dlg'[j].fill = dlg[j].fill /\ dlg'[j].editing = dlg[j].editing
                           /\ dlg'[j].shown => dlg[j].shown
    BY <1>2, <1>types DEF CloseModal, DialogStates
  <2> QED BY <1>2, <1>still, <2>1 DEF CloseModal, Calm
<1>3. ASSUME NEW k \in Dialogs, CloseKeyDialog(k) PROVE Calm
  <2>1. \A j \in Dialogs : /\ dlg'[j].fill = dlg[j].fill /\ dlg'[j].editing = dlg[j].editing
                           /\ dlg'[j].shown => dlg[j].shown
    BY <1>3, <1>types DEF CloseKeyDialog, DialogStates
  <2> QED BY <1>3, <1>still, <2>1 DEF CloseKeyDialog, Calm
<1>4. ASSUME NEW t \in Tids, NEW can \in BOOLEAN, OpenKeyDialogDone(t, can) PROVE Calm
  <2>1. Quiet(t, Idle)
    BY <1>4, <1>idle DEF OpenKeyDialogDone, Quiet
  <2>2. /\ \A j \in Dialogs : dlg'[j].fill = dlg[j].fill
        /\ \A j \in Dialogs \cap SyncDialogs : dlg'[j] = dlg[j]
    BY <1>4, <1>types, <1>apart DEF OpenKeyDialogDone, DialogStates
  <2> QED BY <1>4, <1>quiet, <1>idle, <2>1, <2>2 DEF OpenKeyDialogDone, Calm
<1>5. ASSUME NEW t \in Tids, OpenAclDone(t) PROVE Calm
  <2>1. Quiet(t, Idle)
    BY <1>5, <1>idle DEF OpenAclDone, Quiet
  <2>2. /\ \A j \in Dialogs : dlg'[j].fill = dlg[j].fill
        /\ \A j \in Dialogs \cap SyncDialogs : dlg'[j] = dlg[j]
    BY <1>5, <1>types, <1>apart DEF OpenAclDone, DialogStates
  <2> QED BY <1>5, <1>quiet, <1>idle, <2>1, <2>2 DEF OpenAclDone, Calm
<1>6. ASSUME NEW t \in Tids, NEW k \in Dialogs, SubmitKeyed(k, t) PROVE Calm
  <2> DEFINE c == [st |-> "keys", k |-> k, fill |-> dlg[k].fill, how |-> "keyed", id |-> New]
  <2>1. c \in Tasks /\ c.fill <= fills
    BY <1>types DEF Tasks, DialogStates, New
  <2>2. Quiet(t, c)
    BY <1>6 DEF SubmitKeyed, Quiet
  <2> HIDE DEF c
  <2> QED BY <1>6, <1>quiet, <2>1, <2>2 DEF SubmitKeyed, Calm
<1>7. ASSUME NEW t \in Tids, KeysMade(t) PROVE Calm
  <2>1. UNCHANGED <<dlg, fills, nextId, created, lost, refreshes>>
    BY <1>7 DEF KeysMade
  <2>2. CASE Send(t, [task[t] EXCEPT !.st = "change"])
    <3> DEFINE c == [task[t] EXCEPT !.st = "change"]
    <3>1. /\ c \in Tasks /\ c.st = "change" /\ c.how = task[t].how /\ c.fill <= fills
          /\ task[t].how = "keyed"
      BY <1>7, <1>types DEF Tasks, IInv, KeysKeyed, KeysMade
    <3>2. Sending(t, c)
      BY <1>7, <2>2, <3>1 DEF KeysMade, Sending
    <3> HIDE DEF c
    <3> QED BY <1>send, <2>1, <3>1, <3>2 DEF Calm
  <2>3. CASE task' = [task EXCEPT ![t] = Idle] /\ UNCHANGED <<savesInFlight, button>>
    <3>1. Quiet(t, Idle)
      BY <1>7, <1>idle, <2>3 DEF KeysMade, Quiet
    <3> QED BY <1>quiet, <1>idle, <2>1, <3>1 DEF Calm
  <2> QED BY <1>7, <2>2, <2>3 DEF KeysMade
<1>8. ASSUME NEW t \in Tids, NEW k \in Forms, ChangeRow(k, t) PROVE Calm
  <2> DEFINE c == [st |-> "change", k |-> k, fill |-> 0, how |-> "row", id |-> 1]
  <2>1. c \in Tasks /\ c.fill <= fills /\ c.how # "form"
    BY <1>types, ConsoleAssumption DEF Tasks, Fill
  <2>2. Sending(t, c)
    BY <1>8 DEF ChangeRow, Sending
  <2> HIDE DEF c
  <2> QED BY <1>8, <1>send, <2>1, <2>2 DEF ChangeRow, Calm
<1>9. ASSUME NEW t \in Tids, SavedRow(t) \/ SavedLan(t) \/ Refused(t) PROVE Calm
  <2>1. Ending(t, Idle) /\ UNCHANGED <<dlg, fills, nextId, created, lost>>
    BY <1>9, <1>idle DEF SavedRow, SavedLan, Refused, Ending
  <2> QED BY <1>end, <1>idle, <2>1 DEF Calm
<1>10. ASSUME NEW t \in Tids, SavedSite(t) PROVE Calm
  <2>1. Ending(t, Idle)
    BY <1>10, <1>idle DEF SavedSite, Ending
  <2>2. /\ \A j \in Dialogs : dlg'[j].fill = dlg[j].fill
        /\ \A j \in Dialogs \cap SyncDialogs : dlg'[j] = dlg[j]
    BY <1>10, <1>types, <1>apart DEF SavedSite, DialogStates, KeyDialogs
  <2> QED BY <1>10, <1>end, <1>idle, <2>1, <2>2 DEF SavedSite, Calm
<1>11. ASSUME NEW t \in Tids, SavedKeyed(t) PROVE Calm
  <2> DEFINE c == [task[t] EXCEPT !.st = "reading"]
  <2>1. c \in Tasks /\ c.st = "reading" /\ c.fill <= fills
    BY <1>types DEF Tasks
  <2>2. Ending(t, c)
    BY <1>11, <2>1 DEF SavedKeyed, Ending
  <2> HIDE DEF c
  <2> QED BY <1>11, <1>end, <2>1, <2>2 DEF SavedKeyed, Calm
<1>12. ASSUME NEW t \in Tids, ReadDone(t) PROVE Calm
  <2>1. Quiet(t, Idle)
    BY <1>12, <1>idle DEF ReadDone, Quiet
  <2>2. \A j \in Dialogs : /\ dlg'[j].fill = dlg[j].fill /\ dlg'[j].editing = dlg[j].editing
                           /\ dlg'[j].shown = dlg[j].shown
    <3>1. CASE UNCHANGED dlg
      BY <3>1
    <3>2. CASE dlg' = [dlg EXCEPT ![task[t].k].config = task[t].fill, ![task[t].k].form = FALSE]
      BY <1>types, <3>2 DEF DialogStates
    <3> QED BY <1>12, <3>1, <3>2 DEF ReadDone
  <2> QED BY <1>12, <1>quiet, <1>idle, <2>1, <2>2 DEF ReadDone, Calm
<1> QED
  BY <1>1, <1>2, <1>3, <1>4, <1>5, <1>6, <1>7, <1>8, <1>9, <1>10, <1>11, <1>12 DEF Next

(* A dialog that is opened gets a number no fill had before.               *)
LEMMA OpenOnce ==
    ASSUME IInv, Once, NEW k \in Dialogs, NEW id \in Old \cup {New},
           OpenModal(k, id) \/ \E t \in Tids : OpenLater(k, id, t)
    PROVE  Once'
<1>types. /\ task \in [Tids -> Tasks] /\ dlg \in [Dialogs -> DialogStates]
          /\ fills \in Nat /\ created \in [Fill -> Nat] /\ lost \in [Fill -> Nat]
  BY TypeParts, ConsoleAssumption DEF IInv, SavingOK, RestOK, Fill
<1>1. /\ fills' = fills + 1 /\ UNCHANGED <<nextId, created, lost>>
      /\ \E b \in BOOLEAN : dlg' = [dlg EXCEPT ![k] = Filled(k, id, b)]
  BY DEF OpenModal, OpenLater
<1>2. /\ dlg'[k].fill = fills + 1
      /\ \A j \in Dialogs \ {k} : dlg'[j] = dlg[j]
  BY <1>1, <1>types DEF Filled, DialogStates
<1>3. /\ FormChanges' = FormChanges
      /\ \A u \in FormChanges : task'[u] = task[u]
      /\ \A u \in Tids : task'[u].fill <= fills + 1
  <2>1. CASE OpenModal(k, id)
    BY <2>1, <1>types DEF OpenModal, FormChanges, Changes, Once, Bounded, Tasks, Fill
  <2>2. ASSUME NEW t \in Tids, OpenLater(k, id, t)
        PROVE  /\ FormChanges' = FormChanges
               /\ \A u \in FormChanges : task'[u] = task[u]
               /\ \A u \in Tids : task'[u].fill <= fills + 1
    <3> DEFINE c == [st |-> "opening", k |-> k, fill |-> fills + 1, how |-> "form", id |-> id]
    <3>1. /\ \A u \in Tids : task'[u] = IF u = t THEN c ELSE task[u]
          /\ task[t].st = "free" /\ c.st = "opening" /\ c.fill = fills + 1
      BY <1>types, <2>2 DEF OpenLater
    <3> HIDE DEF c
    <3>2. \A u \in Tids : task[u].fill \in Nat /\ task[u].fill <= fills
      BY <1>types DEF Once, Bounded, Tasks, Fill
    <3> QED BY <1>types, <3>1, <3>2 DEF FormChanges, Changes
  <2> QED BY <2>1, <2>2
<1>nat. /\ \A u \in Tids : task[u].fill \in Nat /\ task[u].fill <= fills
        /\ \A j \in Dialogs : dlg[j].fill \in Nat /\ dlg[j].fill <= fills
        /\ \A n \in Fill : n \in Nat
  BY <1>types, SMTT(30) DEF Once, Bounded, Tasks, DialogStates, Fill
<1>4. Bounded'
  BY <1>1, <1>2, <1>3, <1>nat, <1>types DEF Bounded, Once
<1>5. Owned'
  <2>1. \A j, i \in Dialogs : dlg'[j].fill = dlg'[i].fill /\ dlg'[j].fill # 0 => j = i
    BY <1>2, <1>nat, <1>types DEF Once, Owned
  <2>2. \A j \in Dialogs \cap SyncDialogs : dlg'[j].shown => dlg'[j].fill # 0
    BY <1>2, <1>types DEF Once, Owned
  <2>3. ASSUME NEW t \in FormChanges', task'[t].k \in SyncDialogs
        PROVE  task'[t].fill # 0 /\ \A j \in Dialogs : dlg'[j].fill = task'[t].fill => j = task'[t].k
    <3>1. t \in Tids /\ t \in FormChanges /\ task'[t] = task[t]
      BY <1>3, <2>3 DEF FormChanges, Changes
    <3> QED BY <1>2, <1>nat, <1>types, <2>3, <3>1 DEF Once, Owned
  <2> QED BY <2>1, <2>2, <2>3 DEF Owned
<1>6. CreatedOnce'
  BY <1>1 DEF Once, CreatedOnce
<1>7. ASSUME NEW n \in Fill PROVE Sealed(n)'
  <2>1. CASE n = fills + 1
    <3>1. created[n] = 0
      BY <1>nat, <1>types, <2>1 DEF Once, Bounded
    <3>2. ~(created'[n] > lost'[n])
      BY <1>1, <1>types, <3>1
    <3> QED BY <3>2 DEF Sealed
  <2>2. CASE n # fills + 1
    BY <1>1, <1>2, <1>3, <2>2 DEF Sealed, Once
  <2> QED BY <2>1, <2>2
<1> QED
  BY <1>4, <1>5, <1>6, <1>7 DEF Once

(* A form is sent: what it says about its object is what its dialog said.  *)
LEMMA SubmitOnce ==
    ASSUME IInv, Once, NEW t \in Tids, (\E k \in Dialogs : Submit(k, t)) \/ SubmitLan(t)
    PROVE  Once'
<1>types. /\ task \in [Tids -> Tasks] /\ dlg \in [Dialogs -> DialogStates] /\ fills \in Nat
  BY TypeParts, ConsoleAssumption DEF IInv, SavingOK, RestOK, Fill
<1>nat. /\ \A u \in Tids : task[u].fill <= fills
        /\ \A j \in Dialogs : dlg[j].fill <= fills
  BY DEF Once, Bounded
<1>1. UNCHANGED <<dlg, fills, nextId, created, lost>>
  BY DEF Submit, SubmitLan
<1>2. CASE SubmitLan(t)
  <2> DEFINE c == [st |-> "change", k |-> "lan", fill |-> 0, how |-> "form", id |-> New]
  <2>1. c \in Tasks /\ c.fill <= fills /\ c.k \notin SyncDialogs /\ c.how = "form"
    BY <1>types, Names, ConsoleAssumption DEF Tasks, New, Fill, SyncDialogs
  <2>2. Sending(t, c)
    BY <1>2 DEF SubmitLan, SubmitAllowed, Sending
  <2>3. \A u \in Tids : task'[u] = IF u = t THEN c ELSE task[u]
    BY <1>types, <2>2 DEF Sending, Send
  <2> HIDE DEF c
  <2>4. FormChanges' = {t} /\ task'[t] = c
    BY <2>1, <2>2, SendGates
  <2>5. Bounded' /\ CreatedOnce'
    BY <1>1, <1>nat, <2>1, <2>3 DEF Once, Bounded, CreatedOnce
  <2>6. Owned'
    BY <1>1, <2>1, <2>4 DEF Once, Owned
  <2>7. ASSUME NEW n \in Fill PROVE Sealed(n)'
    BY <1>1, <2>1, <2>4 DEF Once, Sealed
  <2> QED BY <2>5, <2>6, <2>7 DEF Once
<1>3. ASSUME NEW k \in Dialogs, Submit(k, t)
      PROVE  Once'
  <2> DEFINE c == [st |-> "change", k |-> k, fill |-> dlg[k].fill, how |-> "form",
                   id |-> dlg[k].editing]
  <2>1. /\ c \in Tasks /\ c.fill <= fills /\ c.how = "form"
        /\ c.k = k /\ c.fill = dlg[k].fill /\ c.id = dlg[k].editing
    BY <1>types, <1>nat, Names DEF Tasks, DialogStates
  <2>2. Sending(t, c)
    BY <1>3 DEF Submit, SubmitAllowed, Sending
  <2>3. \A u \in Tids : task'[u] = IF u = t THEN c ELSE task[u]
    BY <1>types, <2>2 DEF Sending, Send
  <2>shown. dlg[k].shown
    BY <1>3 DEF Submit
  <2> HIDE DEF c
  <2>4. FormChanges' = {t} /\ task'[t] = c
    BY <2>1, <2>2, SendGates
  <2>5. Bounded' /\ CreatedOnce'
    BY <1>1, <1>nat, <2>1, <2>3 DEF Once, Bounded, CreatedOnce
  <2>6. Owned'
    BY <1>1, <2>1, <2>4, <2>shown DEF Once, Owned
  <2>7. ASSUME NEW n \in Fill PROVE Sealed(n)'
    BY <1>1, <2>1, <2>4, <2>shown DEF Once, Sealed
  <2> QED BY <2>5, <2>6, <2>7 DEF Once
<1> QED
  BY <1>2, <1>3

(* What a saved stream leaves in its dialog.                               *)
LEMMA StreamStored ==
    ASSUME TypeOK, NEW t \in Tids, NEW failed \in BOOLEAN, SavedStream(t, failed)
    PROVE  /\ "stream" \in Dialogs
           /\ \A k \in Dialogs \ {"stream"} : dlg'[k] = dlg[k]
           /\ dlg'["stream"].fill = dlg["stream"].fill
           /\ dlg'["stream"].shown => dlg["stream"].shown
           /\ dlg'["stream"].editing = IF task[t].id = New THEN nextId ELSE task[t].id
<1> DEFINE saved == IF task[t].id = New THEN nextId ELSE task[t].id
           own == IF dlg["stream"].fill = task[t].fill THEN saved ELSE dlg["stream"].own
           shown == dlg["stream"].shown /\ failed
           d == [dlg["stream"] EXCEPT !.shown = shown, !.editing = saved, !.own = own]
<1>1. task \in [Tids -> Tasks] /\ dlg \in [Dialogs -> DialogStates]
  BY TypeParts DEF SavingOK, RestOK
<1>2. "stream" \in Dialogs
  BY <1>1 DEF SavedStream, Tasks, Forms
<1>3. dlg' = [dlg EXCEPT !["stream"] = d]
  BY DEF SavedStream
<1>4. shown => dlg["stream"].shown
  OBVIOUS
<1> HIDE DEF saved, own, shown
<1>5. d.fill = dlg["stream"].fill /\ d.editing = saved /\ d.shown = shown
  BY <1>1, <1>2 DEF DialogStates
<1> HIDE DEF d
<1>6. dlg'["stream"] = d /\ \A k \in Dialogs \ {"stream"} : dlg'[k] = dlg[k]
  BY <1>1, <1>2, <1>3
<1> QED
  BY <1>2, <1>4, <1>5, <1>6 DEF saved

(* A form is stored: what made the object can make no other.               *)
LEMMA StoreOnce ==
    ASSUME IInv, Once, NEW t \in Tids,
           SavedHost(t) \/ AnswerLost(t) \/ \E failed \in BOOLEAN : SavedStream(t, failed)
    PROVE  Once'
<1> USE Names
<1> DEFINE m == task[t].fill
           made == IF task[t].id = New /\ task[t].k \in SyncDialogs THEN 1 ELSE 0
<1>types. /\ task \in [Tids -> Tasks] /\ dlg \in [Dialogs -> DialogStates]
          /\ fills \in Nat /\ created \in [Fill -> Nat] /\ lost \in [Fill -> Nat]
          /\ nextId \in Nat /\ m \in Fill /\ made \in Nat
  <2>1. SavingOK /\ RestOK
    BY TypeParts DEF IInv
  <2>2. task[t] \in Tasks
    BY <2>1 DEF SavingOK
  <2>3. m \in Fill /\ fills \in Nat
    BY <2>1, <2>2, ConsoleAssumption DEF Tasks, RestOK, Fill
  <2> QED BY <2>1, <2>3 DEF SavingOK, RestOK
<1>form. t \in FormChanges
  BY DEF SavedHost, AnswerLost, SavedStream, Answered, FormChanges, Changes
<1>1. /\ created' = [created EXCEPT ![m] = @ + made] /\ nextId' = nextId + made
      /\ UNCHANGED fills
  BY DEF SavedHost, AnswerLost, SavedStream, Created
<1>2. Ending(t, Idle)
  BY DEF SavedHost, AnswerLost, SavedStream, Ending, Idle
<1>3. \A u \in Tids : task'[u] = IF u = t THEN Idle ELSE task[u]
  BY <1>types, <1>2 DEF Ending, Answered
<1>4. FormChanges' = {}
  BY <1>2, <1>form, IdleTask, EndGates DEF IInv, OneForm
<1>5. made = 1 => created[m] <= lost[m]
  BY <1>form, <1>types DEF Once, Sealed
<1>dlg. \A k \in Dialogs : dlg'[k].fill = dlg[k].fill /\ (dlg'[k].shown => dlg[k].shown)
  <2>1. CASE AnswerLost(t)
    BY <2>1 DEF AnswerLost
  <2>2. CASE SavedHost(t)
    BY <1>types, <2>2 DEF SavedHost, DialogStates
  <2>3. ASSUME NEW failed \in BOOLEAN, SavedStream(t, failed)
        PROVE  \A k \in Dialogs : dlg'[k].fill = dlg[k].fill /\ (dlg'[k].shown => dlg[k].shown)
    BY <2>3, StreamStored DEF IInv
  <2> QED BY <2>1, <2>2, <2>3
<1>6. Bounded'
  <2>1. m <= fills /\ m \in Nat
    BY <1>types DEF Once, Bounded, Fill
  <2>2. \A n \in Fill : n > fills => created'[n] = 0
    BY <1>1, <1>types, <2>1 DEF Once, Bounded
  <2>3. \A u \in Tids : task'[u].fill <= fills
    BY <1>3, <1>types DEF Once, Bounded, Idle
  <2>4. nextId' # New
    BY <1>1, <1>types DEF Once, Bounded, New
  <2> QED BY <1>1, <1>dlg, <2>2, <2>3, <2>4 DEF Once, Bounded
<1>7. Owned'
  BY <1>4, <1>dlg DEF Once, Owned
<1>8. ASSUME lost' = lost,
             \A k \in Dialogs \cap SyncDialogs :
                 dlg'[k].editing = dlg[k].editing \/ dlg'[k].editing # New,
             task[t].k \in SyncDialogs =>
                 ~dlg'[task[t].k].shown \/ dlg'[task[t].k].editing # New
      PROVE  CreatedOnce' /\ \A n \in Fill : Sealed(n)'
  <2>1. CreatedOnce'
    BY <1>1, <1>5, <1>8, <1>types DEF Once, CreatedOnce
  <2>2. ASSUME NEW n \in Fill, n # m \/ made = 0
        PROVE  Sealed(n)'
    <3>1. created'[n] = created[n]
      BY <1>1, <1>types, <2>2
    <3> HIDE DEF made, m
    <3> QED BY <1>4, <1>8, <1>dlg, <3>1 DEF Once, Sealed
  <2>3. ASSUME NEW n \in Fill, n = m, made = 1
        PROVE  Sealed(n)'
    <3>1. task[t].k \in SyncDialogs /\ \A k \in Dialogs : dlg[k].fill = n => k = task[t].k
      BY <1>form, <2>3 DEF Once, Owned
    <3> QED BY <1>4, <1>8, <1>dlg, <3>1 DEF Sealed
  <2>4. made = 0 \/ made = 1
    OBVIOUS
  <2> QED BY <2>1, <2>2, <2>3, <2>4
<1>9. CASE SavedHost(t)
  <2>1. /\ lost' = lost /\ dlg' = [dlg EXCEPT ![task[t].k].shown = FALSE]
    BY <1>9 DEF SavedHost
  <2>2. \A k \in Dialogs : /\ dlg'[k].editing = dlg[k].editing
                           /\ k = task[t].k => ~dlg'[k].shown
    BY <1>types, <2>1 DEF DialogStates
  <2>3. task[t].k \in SyncDialogs => task[t].k \in Dialogs
    BY <1>types DEF Tasks, Forms, SyncDialogs
  <2> QED BY <1>6, <1>7, <1>8, <2>1, <2>2, <2>3 DEF Once
<1>10. ASSUME NEW failed \in BOOLEAN, SavedStream(t, failed)
       PROVE  Once'
  <2> DEFINE saved == IF task[t].id = New THEN nextId ELSE task[t].id
  <2>1. saved # New
    BY DEF Once, Bounded
  <2>2. lost' = lost /\ task[t].k = "stream"
    BY <1>10 DEF SavedStream
  <2>3. \A k \in Dialogs : /\ k # "stream" => dlg'[k].editing = dlg[k].editing
                           /\ k = "stream" => dlg'[k].editing = saved
    BY <1>10, StreamStored DEF IInv
  <2>4. "stream" \in Dialogs
    BY <1>10, StreamStored DEF IInv
  <2> HIDE DEF saved
  <2> QED BY <1>6, <1>7, <1>8, <2>1, <2>2, <2>3, <2>4 DEF Once
<1>11. CASE AnswerLost(t)
  <2>1. lost' = [lost EXCEPT ![m] = @ + 1] /\ dlg' = dlg
    BY <1>11 DEF AnswerLost
  <2>2. CreatedOnce'
    BY <1>1, <1>types, <2>1 DEF Once, CreatedOnce
  <2>3. ASSUME NEW n \in Fill
        PROVE  Sealed(n)'
    <3>1. created'[n] > lost'[n] => created[n] > lost[n]
      BY <1>1, <1>types, <2>1
    <3> HIDE DEF made, m
    <3> QED BY <1>4, <2>1, <3>1 DEF Once, Sealed
  <2> QED BY <1>6, <1>7, <2>2, <2>3 DEF Once
<1> QED
  BY <1>9, <1>10, <1>11

LEMMA StepOnce == IInv /\ Once /\ [Next]_vars => Once'
<1> SUFFICES ASSUME IInv, Once, [Next]_vars PROVE Once'
  OBVIOUS
<1>1. CASE Next
  BY <1>1, OpenOnce, SubmitOnce, StoreOnce, CalmSteps, CalmOnce
<1>2. CASE UNCHANGED vars
  BY <1>2 DEF vars, Once, Bounded, Owned, Sealed, CreatedOnce, FormChanges, Changes
<1> QED
  BY <1>1, <1>2

LEMMA InitOnce == Init => Once
<1> SUFFICES ASSUME Init PROVE Once
  OBVIOUS
<1>1. FormChanges = {}
  BY DEF Init, FormChanges, Changes, Idle
<1>2. \A n \in Fill : created[n] = 0 /\ lost[n] = 0
  BY DEF Init
<1>3. \A k \in Dialogs : dlg[k].fill = 0 /\ ~dlg[k].shown
  BY DEF Init, Closed
<1>4. Bounded
  BY <1>2, <1>3 DEF Init, Bounded, Idle, New
<1> QED
  BY <1>1, <1>2, <1>3, <1>4 DEF Once, Owned, CreatedOnce, Sealed

(* A filled-in host or stream form makes one object, plus at most one for  *)
(* every answer that got lost: for any number of openings and handlers.    *)
THEOREM CreatedOnceHolds == Spec => []CreatedOnce
<1>1. Once => CreatedOnce
  BY DEF Once
<1> QED
  BY <1>1, InitOnce, StepOnce, Invariance, PTL DEF Spec
==============================================================================

------------------------------ MODULE SaveGate ------------------------------
(***************************************************************************)
(* What the admin interface promises about saving, without saying how: a   *)
(* form is saved only while nothing else is on its way to the server, so   *)
(* at most one form is being saved at any moment.  Changes that do not     *)
(* come from a Save button (a switch in a table, a Delete button) may      *)
(* start at any time.  WebConsole is shown to implement this.              *)
(***************************************************************************)
EXTENDS Naturals

CONSTANTS Forms,     \* the forms with a Save button
          NoForm     \* no form is being saved

VARIABLES form,      \* the form being saved, or NoForm
          others     \* how many other changes are on their way

vars == <<form, others>>

Init == form = NoForm /\ others = 0

BeginSave(f) ==
    /\ form = NoForm /\ others = 0
    /\ form' = f
    /\ UNCHANGED others

EndSave ==
    /\ form # NoForm
    /\ form' = NoForm
    /\ UNCHANGED others

BeginOther ==
    /\ others' = others + 1
    /\ UNCHANGED form

EndOther ==
    /\ others > 0
    /\ others' = others - 1
    /\ UNCHANGED form

Next ==
    \/ \E f \in Forms : BeginSave(f)
    \/ EndSave
    \/ BeginOther
    \/ EndOther

Spec == Init /\ [][Next]_vars
=============================================================================

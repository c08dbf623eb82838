------------------------------- MODULE Forms -------------------------------
(***************************************************************************)
(* "A Batch is many rows and no clock; a Schedule is one row and a clock": *)
(* the two screens with a value grid, and the dialogs that start one Run,  *)
(* over one Workflow whose published Version may move on under them.       *)
(***************************************************************************)
EXTENDS BatchForm, ScheduleForm, RunForm, Accounts

vars == <<published, left, batchVars, scheduleVars, runVars, accountVars>>

\* The shape of the screens' state and of what they share.
TypeOK == BaseTypeOK /\ BatchFormTypeOK /\ ScheduleFormTypeOK /\ RunFormTypeOK
          /\ AccountsTypeOK

Init == BaseInit /\ BatchFormInit /\ ScheduleFormInit /\ RunFormInit /\ AccountsInit

Next ==
    \/ Publish /\ UNCHANGED <<batchVars, scheduleVars, runVars, accountVars>>
    \/ BatchFormNext /\ UNCHANGED <<scheduleVars, runVars, accountVars>>
    \/ ScheduleFormNext /\ UNCHANGED <<batchVars, runVars, accountVars>>
    \/ RunFormNext /\ UNCHANGED <<batchVars, scheduleVars, accountVars>>
    \/ AccountsNext /\ UNCHANGED <<batchVars, scheduleVars, runVars>>

Spec == Init /\ [][Next]_vars

(* Requests under way are answered, and the page handles the answers.  A   *)
(* lapsed list that asks again and again does not always overtake the      *)
(* identity asked for with it.                                             *)
Fairness ==
    /\ WF_vars((fetchSchedulePage \/ ListArrives) /\ UNCHANGED <<batchVars, runVars, accountVars>>)
    /\ WF_vars((patchEnabled \/ ToggleAnswers) /\ UNCHANGED <<batchVars, runVars, accountVars>>)
    /\ WF_vars(getCurrentAccount /\ UNCHANGED <<batchVars, scheduleVars, runVars>>)
    /\ SF_vars(MeArrives /\ UNCHANGED <<batchVars, scheduleVars, runVars>>)
FairSpec == Spec /\ Fairness

(* A Batch is created as its form showed it: no value of a secret column   *)
(* is sent, no Variable of the Version that was checked is missing, and    *)
(* the rows counted as complete are queued (submit, create_batch).         *)
BatchAsShown == TypeOK /\ SecretsStay /\ DriftCaught /\ CompleteQueued

(* Every value that is stored was given for its Variable: a file lands     *)
(* without asking only where its headers leave no doubt, a Schedule is     *)
(* saved with no blank, a Run has the values of its own dialog, and none   *)
(* is kept for a Variable that is in the vault, though Versions are        *)
(* published under the forms.                                              *)
ValuesAsGiven == NeverGuessed /\ SavedComplete /\ [](OwnValues /\ VaultNotStored)

(* What is cached catches up with what the person did and was refused: the *)
(* list of Schedules after a toggle or a run-now, the identity after a     *)
(* change of Memberships, whatever older answers are on their way          *)
(* (invalidateQueries).                                                    *)
ScreensCatchUp == ListCatchesUp /\ IdentityCatchesUp
=============================================================================

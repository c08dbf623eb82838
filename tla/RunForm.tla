------------------------------ MODULE RunForm ------------------------------
(***************************************************************************)
(* Starting a Run by hand: the Run button of a Workflow (use-start-run),   *)
(* its dialog with a one-row grid, Run again on the page of a Run, and     *)
(* start_run of the API.                                                   *)
(*                                                                         *)
(* A dialog asks for the Variables of the Version it knows: the one the    *)
(* cached Workflow named, or the one the shown Run executed.  The Run      *)
(* executes the latest Version of the moment its request is handled.       *)
(***************************************************************************)
EXTENDS FormBase

CONSTANT MaxStarts     \* bound: Runs asked for

VARIABLES
    begins,     \* getWorkflowVersion in flight: the Versions asked for
    dialog,     \* the open dialog: [by, version], or None
    entry,      \* the values of its form; they stay when it is closed
    typedIn,    \* history: names typed since the dialog was opened
    starts,     \* every startRun request
    waits,      \* the request whose isPending disables the dialog's button, or 0
    shown,      \* the Run whose page is shown, or 0: the Workflow's page
    refusal     \* a callout tells of a refusal

runVars == <<begins, dialog, entry, typedIn, starts, waits, shown, refusal>>

RunFormTypeOK ==
    /\ Range(begins) \subseteq DOMAIN Versions
    /\ dialog # None => dialog.by \in {"start", "again"} /\ dialog.version \in DOMAIN Versions
    /\ \A k \in DOMAIN starts : starts[k].state \in {"sent", "stored", "refused"}
    /\ waits \in {0} \cup DOMAIN starts /\ shown \in {0} \cup DOMAIN starts
    /\ shown # 0 => starts[shown].state = "stored"
    /\ dialog # None /\ dialog.by = "again" => shown # 0

RunFormInit ==
    /\ begins = <<>> /\ dialog = None /\ entry = <<>> /\ typedIn = {}
    /\ starts = <<>> /\ waits = 0 /\ shown = 0 /\ refusal = FALSE

-----------------------------------------------------------------------------
(* The Run button.                                                         *)

\* The cached Workflow may name an older Version.
begin ==
    /\ Act("run") /\ shown = 0 /\ dialog = None
    /\ \E v \in 1 .. published : begins' = Append(begins, v)
    /\ refusal' = FALSE
    /\ UNCHANGED <<dialog, entry, typedIn, starts, waits, shown, published>>

needsValueGrid(v) == Versions[v] # <<>>

\* What a request carries, and what it was made of, for the properties.
startBody(by, v, values, typed, of) ==
    [by |-> by, version |-> v, body |-> submittedVariables(values, Versions[v]), typed |-> typed,
     of |-> of, state |-> "sent", runs |-> 0, values |-> <<>>]

\* Mutant: the form keeps what was typed when it is opened again.
KeepsRow(v) == [n \in PlainNames(Versions[v]) |-> Cell(entry, n)]

\* initialRows, each time the dialog opens or its Variables change.
initialRow(v) == emptyRow(Versions[v])

\* The Version arrives: the dialog opens, over one that is already open too, or
\* a Workflow without Variables is started at once.
BeginAnswers(k) ==
    LET v == begins[k] IN
    /\ shown = 0 /\ begins' = RemoveAt(begins, k)
    /\ IF needsValueGrid(v)
       THEN /\ dialog' = [by |-> "start", version |-> v]
            /\ entry' = initialRow(v) /\ typedIn' = {}
            /\ UNCHANGED <<starts, waits>>
       ELSE /\ Len(starts) < MaxStarts
            /\ starts' = Append(starts, startBody("start", v, <<>>, {}, 0))
            /\ waits' = Len(starts) + 1
            /\ UNCHANGED <<dialog, entry, typedIn>>
    /\ UNCHANGED <<shown, refusal, published, left>>

BeginFails(k) ==
    /\ shown = 0 /\ Trouble /\ begins' = RemoveAt(begins, k)
    /\ refusal' = TRUE
    /\ UNCHANGED <<dialog, entry, typedIn, starts, waits, shown, published>>

-----------------------------------------------------------------------------
(* The dialogs.                                                            *)

EnterValue ==
    /\ dialog # None /\ Act("run")
    /\ \E n \in PlainNames(Versions[dialog.version]), v \in Typed :
         entry' = setCell(entry, Versions[dialog.version], n, v) /\ typedIn' = typedIn \cup {n}
    /\ UNCHANGED <<begins, dialog, starts, waits, shown, refusal, published>>

\* The two dialogs submit alike: Run is not disabled by blank values.
SubmitRun ==
    /\ dialog # None /\ waits = 0 /\ Len(starts) < MaxStarts /\ Act("run")
    /\ starts' = Append(starts, startBody(dialog.by, dialog.version, entry, typedIn,
                                          IF dialog.by = "again" THEN shown ELSE 0))
    /\ waits' = Len(starts) + 1
    /\ UNCHANGED <<begins, dialog, entry, typedIn, shown, refusal, published>>

\* Cancel: useStartRun forgets a request under way (start.reset), Run again does not.
closeDialog ==
    /\ dialog # None /\ Act("run")
    /\ dialog' = None
    /\ waits' = IF dialog.by = "start" THEN 0 ELSE waits
    /\ refusal' = IF dialog.by = "start" THEN FALSE ELSE refusal
    /\ UNCHANGED <<begins, entry, typedIn, starts, shown, published>>

\* Values for the Variables of the shown Run's own Version, from that Run.
runAgainValues(k) == [n \in PlainNames(Versions[starts[k].runs]) |-> Cell(starts[k].values, n)]

RunAgainDialog ==
    /\ shown # 0 /\ dialog = None /\ Act("run")
    /\ dialog' = [by |-> "again", version |-> starts[shown].runs]
    /\ entry' = runAgainValues(shown) /\ typedIn' = {}
    /\ UNCHANGED <<begins, starts, waits, shown, refusal, published>>

-----------------------------------------------------------------------------
(* start_run.                                                              *)

\* Mutant: every declared Variable's value is stored.
KeepDeclared(asked) == [n \in DOMAIN asked \cap Names(Declared) |-> asked[n]]

\* The latest Version, and the values of its plain Variables; a value that is
\* missing is no refusal.
workflow_to_run(asked) == stored_variables(asked)

\* A start succeeds: its dialog, or whichever is open, is closed and the Run's
\* page is shown, where nothing of the Workflow's page is left.
Opened(k) ==
    /\ dialog' = None /\ begins' = <<>> /\ waits' = 0 /\ shown' = k /\ refusal' = FALSE
    /\ starts' = [starts EXCEPT ![k] = [@ EXCEPT !.state = "stored", !.runs = published,
                                                 !.values = workflow_to_run(starts[k].body)]]

\* The request fails or a Secret is missing, or its answer is lost.
Refused(k) ==
    /\ Trouble
    /\ refusal' = TRUE /\ waits' = (IF waits = k THEN 0 ELSE waits)
    /\ \E stored \in BOOLEAN :
         starts' = [starts EXCEPT ![k] = IF ~stored THEN [@ EXCEPT !.state = "refused"]
                                         ELSE [@ EXCEPT !.state = "stored", !.runs = published,
                                                        !.values = workflow_to_run(starts[k].body)]]
    /\ UNCHANGED <<begins, dialog, shown>>

start_run(k) ==
    /\ starts[k].state = "sent"
    /\ \/ Opened(k) /\ UNCHANGED left
       \/ Refused(k)
    /\ UNCHANGED <<entry, typedIn, published>>

RunFormNext ==
    \/ begin \/ EnterValue \/ SubmitRun \/ closeDialog \/ RunAgainDialog
    \/ \E k \in DOMAIN begins : BeginAnswers(k) \/ BeginFails(k)
    \/ \E k \in DOMAIN starts : start_run(k)

-----------------------------------------------------------------------------
(* Properties.                                                             *)

(* A Run is asked for with the values of its own dialog: what was typed    *)
(* since that dialog opened, or what Run again took from the shown Run,    *)
(* and nothing of a dialog that was closed or replaced by a late answer    *)
(* (the effect of StartRunDialog, runAgainValues).                         *)
OwnValues ==
    \A k \in DOMAIN starts : \A n \in DOMAIN starts[k].body \ starts[k].typed :
        starts[k].body[n] = IF starts[k].of = 0 THEN Blank ELSE Cell(starts[starts[k].of].values, n)

(* No Run stores a value for a Variable that its own Version keeps in the  *)
(* vault, though its dialog may have asked for it as a plain one of an     *)
(* older Version (workflow_to_run).                                        *)
VaultNotStored ==
    \A k \in DOMAIN starts : starts[k].state = "stored" =>
        DOMAIN starts[k].values \cap SecretNames(Versions[starts[k].runs]) = {}
=============================================================================

------------------------------ MODULE Document ------------------------------
(***************************************************************************)
(* A Workflow document and every change the editor can make to it: the     *)
(* Step tools (edits.ts, steps.ts, selectors.ts), the Step form            *)
(* (step-form.tsx, step-card.tsx, value-field.tsx, selector-panel.tsx),    *)
(* the Variables dialog (variables.ts, variables-dialog.tsx), and the      *)
(* contract the API holds a saved document to (workflows/document.py).     *)
(*                                                                         *)
(* A form is the set of what one change in it can make.  A value is a      *)
(* sequence of Variable names and pieces of literal Text.  A selector      *)
(* candidate is its kind.  Words nothing reads back (a label, a message,   *)
(* an option, an output name, an attribute) are one number, text.          *)
(***************************************************************************)
EXTENDS Integers, Sequences, FiniteSets, SequencesExt

CONSTANTS
    None,
    StepIds,         \* what crypto.randomUUID may return
    Names,           \* Variable names that fit VARIABLE_NAME
    Text,            \* a piece of literal text in a value
    Kinds,           \* the CANDIDATE_KINDS in use
    Vault,           \* ids of the organization's Secrets
    Typed,           \* what a person may leave in a value field
    MaxValue,        \* bound: pieces of a value
    MaxCandidates,   \* bound: candidates of a target
    MaxFields        \* bound: fields of a list extraction

ASSUME DocumentAssumption ==
    /\ Text \notin Names /\ None \notin Names
    /\ Typed \subseteq Seq(Names \cup {Text})

ADDABLE_STEP_TYPES ==
    {"navigate", "click", "type", "select", "download", "extract", "wait",
     "pause-for-takeover"}

Targeting == {"click", "type", "select", "download", "extract"}
Interpolated == {"navigate", "type"}

\* mode and fields are extract's and wait's; ms is wait's and the pause's.
Step ==
    [id : StepIds, type : ADDABLE_STEP_TYPES, value : Seq(Names \cup {Text}),
     target : Seq(Kinds) \cup {None}, mode : {"scalar", "list", "duration", "element", None},
     fields : Nat, ms : Nat \cup {None}, timeoutMs : Nat \cup {None},
     flags : SUBSET {"optional", "disabled", "screenshot", "assertedNavigation"},
     text : {0, 1}]

\* secretId and the secretName cached beside it travel together.
Variable == [name : Names, secret : BOOLEAN, secretId : Vault \cup {None}]

WorkflowDocument == [steps : Seq(Step), variables : Seq(Variable)]

EmptyDocument == [steps |-> <<>>, variables |-> <<>>]

-----------------------------------------------------------------------------
(* steps.ts and edits.ts.                                                  *)

blankStep(type, id) ==
    [id |-> id, type |-> type, value |-> <<>>,
     target |-> IF type \in Targeting THEN <<>> ELSE None,
     mode |-> CASE type = "extract" -> "scalar" [] type = "wait" -> "duration"
                [] OTHER -> None,
     fields |-> 0, ms |-> IF type = "wait" THEN 1000 ELSE None, timeoutMs |-> None,
     flags |-> {}, text |-> 0]

withWaitMode(step, mode) ==
    IF step.mode = mode THEN step
    ELSE [step EXCEPT !.mode = mode, !.target = IF mode = "element" THEN <<>> ELSE None,
                      !.ms = IF mode = "element" THEN None ELSE 1000]

idsOf(document) == {step.id : step \in ToSet(document.steps)}

withStepMoved(document, at, to) ==
    LET steps == document.steps IN
    IF to \notin DOMAIN steps THEN document
    ELSE [document EXCEPT !.steps = [@ EXCEPT ![at] = steps[to], ![to] = steps[at]]]

withStepDeleted(document, id) ==
    [document EXCEPT !.steps = SelectSeq(@, LAMBDA step : step.id # id)]

withStepAdded(document, step) == [document EXCEPT !.steps = Append(@, step)]

withStepReplaced(document, step) ==
    [document EXCEPT !.steps =
        [i \in DOMAIN @ |-> IF @[i].id = step.id THEN step ELSE @[i]]]

-----------------------------------------------------------------------------
(* selectors.ts and selector-panel.tsx.                                    *)

withCandidateMovedToTop(candidates, i) == <<candidates[i]>> \o RemoveAt(candidates, i)

withCandidateRemoved(candidates, i) == RemoveAt(candidates, i)

withCandidateAdded(candidates, kind) == Append(candidates, kind)

SelectorPanel(candidates) ==
    {withCandidateMovedToTop(candidates, i) : i \in DOMAIN candidates \ {1}}
    \cup {withCandidateRemoved(candidates, i) : i \in DOMAIN candidates}
    \cup {withCandidateAdded(candidates, kind) :
            kind \in IF Len(candidates) < MaxCandidates THEN Kinds ELSE {}}

-----------------------------------------------------------------------------
(* variables.ts.                                                           *)

referencesOf(step) == IF step.type \in Interpolated THEN ToSet(step.value) \ {Text} ELSE {}

declared(document) == {variable.name : variable \in ToSet(document.variables)}

usedBy(document, name) ==
    {step.id : step \in {s \in ToSet(document.steps) : name \in referencesOf(s)}}

undeclaredRows(document) ==
    (UNION {referencesOf(step) : step \in ToSet(document.steps)}) \ declared(document)

\* Mutant of declarationRefusal: a name already declared is taken again.
DeclareAgain(document, name) == FALSE

\* A name the pattern refuses is never in Names.
declarationRefusal(document, name) == name \in declared(document)

\* Mutant of deletionRefusal: a navigate Step's value is not looked at.
DeleteUsed(document, name) ==
    \E step \in ToSet(document.steps) : step.type = "type" /\ name \in referencesOf(step)

deletionRefusal(document, name) == usedBy(document, name) # {}

withVariable(document, name, fields) ==
    [document EXCEPT !.variables =
        [i \in DOMAIN @ |-> IF @[i].name = name THEN fields @@ @[i] ELSE @[i]]]

withVariableDeclared(document, variable) ==
    [document EXCEPT !.variables = Append(@, variable)]

withVariableDeleted(document, name) ==
    [document EXCEPT !.variables = SelectSeq(@, LAMBDA variable : variable.name # name)]

withVariableRenamed(document, from, to) ==
    LET renamed == withVariable(document, from, [name |-> to]) IN
    [renamed EXCEPT !.steps =
        [i \in DOMAIN @ |->
            IF from \notin referencesOf(@[i]) THEN @[i]
            ELSE [@[i] EXCEPT !.value = ReplaceAll(@, from, to)]]]

\* Unticking Secret keeps the name and nothing else: the pointer into the vault goes.
withVariableSecret(document, name, secret) ==
    withVariable(document, name,
        IF secret THEN [secret |-> TRUE] ELSE [secret |-> FALSE, secretId |-> None])

withSecretBound(document, name, id) ==
    withVariable(document, name, [secret |-> TRUE, secretId |-> id])

\* A caret or an end of a selection inside a piece leaves text of the piece on its
\* side: a reference cut in two is no longer one.
Rest(cut) == IF cut THEN <<Text>> ELSE <<>>

withReferenceInserted(value, name, at, cut) ==
    SubSeq(value, 1, at) \o Rest(cut) \o <<name>> \o Rest(cut)
    \o SubSeq(value, IF cut THEN at + 2 ELSE at + 1, Len(value))

Span(value) ==
    {s \in [from : 0..Len(value), to : 0..Len(value), left : BOOLEAN, right : BOOLEAN] :
        s.from < s.to}

withLiteralMadeVariable(document, id, variable, span) ==
    LET known == withVariableDeclared(document, variable) IN
    [known EXCEPT !.steps =
        [i \in DOMAIN @ |->
            IF @[i].id # id THEN @[i]
            ELSE [@[i] EXCEPT !.value =
                    SubSeq(@, 1, span.from) \o Rest(span.left) \o <<variable.name>>
                    \o Rest(span.right) \o SubSeq(@, span.to + 1, Len(@))]]]

-----------------------------------------------------------------------------
(* The forms, each as the set of what one change in it makes.              *)

Bounded(values) == {value \in values : Len(value) <= MaxValue}

\* Mutant of Milliseconds: a number that is not above zero is kept.
MillisecondsSigned == {None, -1, 0, 1}

\* Blank, not a number or not above zero is none; less than half a millisecond is 0.
Milliseconds == {None, 0, 1}

Fresh(name, secret) == [name |-> name, secret |-> secret, secretId |-> None]

ValueField(value, known) ==
    Bounded((Typed \ {value})
            \cup {withReferenceInserted(value, name, at, FALSE) :
                          name \in known, at \in 0..Len(value)}
            \cup {withReferenceInserted(value, name, at, TRUE) :
                          name \in known, at \in 0..Len(value) - 1})

ConvertForm(document, step) ==
    {withLiteralMadeVariable(document, step.id, Fresh(name, secret), span) :
        name \in {n \in Names : ~declarationRefusal(document, n)}, secret \in BOOLEAN,
        span \in {s \in Span(step.value) : Len(step.value) - (s.to - s.from) + 2 < MaxValue}}

Written(step) == {[step EXCEPT !.text = 1 - @]}

Toggled(step, flag) ==
    {[step EXCEPT !.flags = IF flag \in @ THEN @ \ {flag} ELSE @ \cup {flag}]}

Targeted(step) == {[step EXCEPT !.target = t] : t \in SelectorPanel(step.target)}

ExtractPayload(step) ==
    Targeted(step) \cup Written(step)
    \cup {IF step.mode = "list" THEN [step EXCEPT !.mode = "scalar", !.fields = 0]
          ELSE [step EXCEPT !.mode = "list", !.fields = 1]}
    \cup {[step EXCEPT !.fields = n] :
            n \in IF step.mode = "list" THEN {step.fields - 1, step.fields + 1} \cap 1..MaxFields
                  ELSE {}}

WaitPayload(step) ==
    {withWaitMode(step, mode) : mode \in {"duration", "element"} \ {step.mode}}
    \cup IF step.mode = "element" THEN Targeted(step)
         ELSE {[step EXCEPT !.ms = IF ms = None THEN 1 ELSE ms] : ms \in Milliseconds}

\* A success check can be changed or removed here, never given.
TakeoverPayload(step) ==
    Written(step) \cup {[step EXCEPT !.ms = ms] : ms \in Milliseconds}
    \cup IF step.target = None THEN {} ELSE Targeted(step) \cup {[step EXCEPT !.target = None]}

Payload(step, known) ==
    CASE step.type = "navigate" -> {[step EXCEPT !.value = v] : v \in ValueField(step.value, known)}
      [] step.type = "click"    -> Targeted(step) \cup Toggled(step, "assertedNavigation")
      [] step.type = "type"     -> Targeted(step) \cup
                                   {[step EXCEPT !.value = v] : v \in ValueField(step.value, known)}
      [] step.type = "select"   -> Targeted(step) \cup Written(step)
      [] step.type = "download" -> Targeted(step)
      [] step.type = "extract"  -> ExtractPayload(step)
      [] step.type = "wait"     -> WaitPayload(step)
      [] step.type = "pause-for-takeover" -> TakeoverPayload(step)

Envelope(step) ==
    {[step EXCEPT !.timeoutMs = ms] : ms \in Milliseconds}
    \cup Toggled(step, "optional") \cup Toggled(step, "disabled")

StepForm(step, known) == Payload(step, known) \cup Envelope(step)

StepCard(document, step) ==
    {withStepReplaced(document, s) : s \in StepForm(step, declared(document))
                                   \cup Written(step) \cup Toggled(step, "disabled")
                                   \cup Toggled(step, "screenshot")}
    \cup IF step.type \in Interpolated /\ step.value # <<>> THEN ConvertForm(document, step) ELSE {}

VaultPicker(document, variable) ==
    {withSecretBound(document, variable.name, id) : id \in IF variable.secret THEN Vault ELSE {}}

VariableRowItem(document, variable) ==
    {withVariableRenamed(document, variable.name, name) :
        name \in {n \in Names : ~declarationRefusal(document, n)}}
    \cup (IF deletionRefusal(document, variable.name) THEN {}
          ELSE {withVariableDeleted(document, variable.name)})
    \cup {withVariableSecret(document, variable.name, ~variable.secret)}
    \cup VaultPicker(document, variable)

UndeclaredRowItem(document, name) ==
    {withVariableDeclared(document, Fresh(name, secret)) : secret \in BOOLEAN}

DeclareForm(document) ==
    {withVariableDeclared(document, Fresh(name, secret)) :
        name \in {n \in Names : ~declarationRefusal(document, n)}, secret \in BOOLEAN}

VariablesDialog(document) ==
    UNION {VariableRowItem(document, variable) : variable \in ToSet(document.variables)}
    \cup UNION {UndeclaredRowItem(document, name) : name \in undeclaredRows(document)}
    \cup DeclareForm(document)

-----------------------------------------------------------------------------
(* The contract of a stored document.                                      *)

Unfilled(step) ==
    \/ step.type = "extract" /\ step.mode = "list" /\ step.fields = 0
    \/ step.ms = 0 \/ step.timeoutMs = 0

Malformed(document) ==
    \/ \E step \in ToSet(document.steps) : Unfilled(step)
    \/ \E variable \in ToSet(document.variables) : ~variable.secret /\ variable.secretId # None

Repeats(keys) == \E i, j \in DOMAIN keys : i # j /\ keys[i] = keys[j]

\* Why a document is refused, the first reason found.
refusal(document) ==
    IF Malformed(document) THEN "malformed_payload"
    ELSE IF Repeats([i \in DOMAIN document.variables |-> document.variables[i].name])
         THEN "duplicate_variable_name"
    ELSE IF Repeats([i \in DOMAIN document.steps |-> document.steps[i].id]) THEN "duplicate_step_id"
    ELSE IF undeclaredRows(document) # {} THEN "undeclared_variable"
    ELSE None

draft_state(document, versions) ==
    IF versions = <<>> THEN "never-published"
    ELSE IF document = Last(versions) THEN "in-sync" ELSE "unpublished-changes"
=============================================================================

----------------------------- MODULE BatchForm -----------------------------
(***************************************************************************)
(* The screen for a new Batch (workflows/[id]/batches/new) and create_batch *)
(* of the API.                                                             *)
(*                                                                         *)
(* The page compares the Variables it knows with the latest Version when   *)
(* the window gets the focus and again on Create.  Both checks, the read   *)
(* of a file and the load of a past Batch take time, and the person goes   *)
(* on meanwhile: a submit posts the rows and columns of its click, a file  *)
(* is matched against the Variables of the moment it was chosen.           *)
(***************************************************************************)
EXTENDS FormBase

CONSTANTS
    Files,           \* files that may be imported, parsed
    Tables,          \* tables that may be pasted
    PastRows,        \* the rows of a past Batch
    MaxRows,         \* bound: rows added or pasted
    MAX_BATCH_ROWS

\* A header is a text.
ASSUME FilesAssumption == \A f \in Files : f.headers \in Seq(DOMAIN Norm \ {None})

VARIABLES
    grid,       \* the page's state, or None before its document is loaded
    checks,     \* loadPublishedVariables in flight, in the order they began
    reading,    \* the file being read, with the columns of its choice, or None
    copying,    \* a past Batch is being loaded
    posts       \* every createBatch request

batchVars == <<grid, checks, reading, copying, posts>>

(* baseline: the names the page holds the Version to; added: Variables the *)
(* banner offers to fill; gone: a Batch was created and the page left.     *)
Grid(columns) ==
    [columns |-> columns, rows |-> blankRows(columns, 1), anyway |-> FALSE,
     added |-> <<>>, baseline |-> PlainNames(columns), panel |-> Idle,
     error |-> FALSE, gone |-> FALSE]

Shown == grid # None /\ ~grid.gone
Headers == UNION {Range(f.headers) : f \in Files}

BatchFormTypeOK ==
    /\ grid # None =>
         /\ Range(grid.columns) \subseteq UNION {Range(v) : v \in Range(Versions)}
         /\ \A i \in DOMAIN grid.rows : DOMAIN grid.rows[i] \subseteq PlainNames(grid.columns)
         /\ grid.baseline \cup Names(grid.added) \subseteq Names(grid.columns)
         /\ grid.panel.kind \in {"idle", "strip", "summary"}
         /\ grid.panel.kind # "idle" =>
              \A n \in DOMAIN grid.panel.assignment :
                  grid.panel.assignment[n] \in mappableHeaders(grid.panel) \cup {None}
    /\ \A k \in DOMAIN checks : checks[k].by \in {"focus", "create"}
    /\ \A k \in DOMAIN posts : posts[k].state \in {"sent", "stored", "refused"}
    /\ copying \in BOOLEAN

BatchFormInit == grid = None /\ checks = <<>> /\ reading = None /\ copying = FALSE /\ posts = <<>>

\* The document arrives; the cached Workflow may name an older Version.
OpenGrid ==
    /\ grid = None /\ left.ops \cap {"type", "import", "copy", "focus"} # {}
    /\ \E v \in 1 .. published : grid' = Grid(Versions[v])
    /\ UNCHANGED <<checks, reading, copying, posts, published, left>>

-----------------------------------------------------------------------------
(* The grid.                                                               *)

Edits(op) == Shown /\ Act(op) /\ UNCHANGED <<checks, reading, copying, posts, published>>

TypeCell == Edits("type") /\ \E i \in DOMAIN grid.rows, n \in PlainNames(grid.columns), v \in Typed :
    grid' = [grid EXCEPT !.rows[i] = setCell(@, grid.columns, n, v)]

AddRow == Edits("type") /\ Len(grid.rows) < MaxRows
    /\ grid' = [grid EXCEPT !.rows = Append(@, emptyRow(grid.columns))]

TickAnyway == Edits("type") /\ grid' = [grid EXCEPT !.anyway = ~@]

Paste == Edits("paste") /\ \E i \in DOMAIN grid.rows, j \in DOMAIN grid.columns, t \in Tables :
    /\ ~grid.columns[j].secret
    /\ i + Len(t) - 1 <= MaxRows
    /\ grid' = [grid EXCEPT !.rows = applyPaste(@, grid.columns, i, j, t, None)]

\* "Copy from a past Batch": the rows land when it is loaded.
Copy ==
    /\ Shown /\ Act("copy") /\ copying' = TRUE
    /\ UNCHANGED <<grid, checks, reading, posts, published>>

CopyAnswers ==
    /\ Shown /\ copying /\ copying' = FALSE
    /\ \/ /\ grid' = [grid EXCEPT !.rows = applyCopiedBatch(grid.columns, PastRows)]
          /\ UNCHANGED left
       \/ Trouble /\ grid' = [grid EXCEPT !.error = TRUE]
    /\ UNCHANGED <<checks, reading, posts, published>>

-----------------------------------------------------------------------------
(* Importing a file.                                                       *)

ChooseFile ==
    /\ Shown /\ reading = None /\ Act("import")
    /\ \E f \in Files : reading' = [file |-> f, columns |-> grid.columns]
    /\ UNCHANGED <<grid, checks, copying, posts, published>>

\* landCsv: a file whose headers match lands at once, another shows the strip.
landCsv ==
    /\ Shown /\ reading # None /\ reading' = None
    /\ LET outcome == beginImport(reading.file, reading.columns) IN
       grid' = [grid EXCEPT !.rows = IF outcome.landed THEN outcome.rows ELSE @,
                            !.panel = outcome.panel]
    /\ UNCHANGED <<checks, copying, posts, published, left>>

Assign == Edits("panel") /\ grid.panel.kind = "strip"
    /\ \E n \in DOMAIN grid.panel.assignment, h \in mappableHeaders(grid.panel) \cup {None} :
           grid' = [grid EXCEPT !.panel = assignHeader(@, n, h)]

confirmImport == Edits("panel") /\ grid.panel.kind = "strip"
    /\ LET confirmed == Confirmed(grid.panel, grid.columns) IN
       grid' = [grid EXCEPT !.rows = confirmed.rows, !.panel = confirmed.panel]

\* dismissSummary and reopenSummary.
FoldSummary == Edits("panel") /\ grid.panel.kind = "summary"
    /\ grid' = [grid EXCEPT !.panel.dismissed = ~@]

ChangeMapping == Edits("panel") /\ grid.panel.kind = "summary" /\ ~grid.panel.dismissed
    /\ grid' = [grid EXCEPT !.panel = stripFromSummary(@)]

-----------------------------------------------------------------------------
(* The Workflow changed: the checks, the banner and Create.                *)

\* got: the Version read; late: names filled since, for the properties only.
Check(by) == [by |-> by, rows |-> grid.rows, columns |-> grid.columns,
              anyway |-> grid.anyway, got |-> 0, late |-> {}]

Focus ==
    /\ Shown /\ Act("focus") /\ checks' = Append(checks, Check("focus"))
    /\ UNCHANGED <<grid, reading, copying, posts, published>>

Pending == \E k \in DOMAIN posts : posts[k].state = "sent"

ClickCreate ==
    /\ Shown /\ ~Pending /\ grid.rows # <<>> /\ Act("create")
    /\ checks' = Append(checks, Check("create"))
    /\ UNCHANGED <<grid, reading, copying, posts, published>>

loadPublishedVariables(k) ==
    /\ checks[k].got = 0 /\ checks' = [checks EXCEPT ![k].got = published]
    /\ UNCHANGED <<grid, reading, copying, posts, published, left>>

addedVariables(baseline, latest) ==
    SelectSeq(latest, LAMBDA v : ~v.secret /\ v.name \notin baseline)
\* Mutant: the columns stay those of the Version that was loaded.
keepColumns(current, added) == current
mergeVariables(current, added) ==
    current \o SelectSeq(added, LAMBDA v : v.name \notin Names(current))

createBody(c) ==
    [rows |-> [i \in DOMAIN c.rows |-> submittedVariables(c.rows[i], c.columns)],
     anyway |-> c.anyway, columns |-> c.columns, checked |-> c.got, late |-> c.late,
     state |-> "sent", queued |-> {}]

\* Mutant: a submit posts whatever the check found.
PostAnyway(k) ==
    /\ Shown /\ checks[k].got # 0 /\ checks' = RemoveAt(checks, k)
    /\ grid' = grid
    /\ posts' = IF checks[k].by = "create" THEN Append(posts, createBody(checks[k])) ELSE posts
    /\ UNCHANGED <<reading, copying, published, left>>

(* A check answers.  Variables it finds new are offered in the banner and  *)
(* become columns; a submit that found none posts the rows of its click.   *)
CheckAnswers(k) ==
    LET c == checks[k]
        next == addedVariables(grid.baseline, Versions[c.got])
        post == c.by = "create" /\ next = <<>>
    IN
    /\ Shown /\ c.got # 0 /\ checks' = RemoveAt(checks, k)
    /\ grid' = [grid EXCEPT !.added = IF next = <<>> THEN @ ELSE next,
                            !.columns = mergeVariables(@, next),
                            !.error = @ /\ ~post]
    /\ posts' = IF post THEN Append(posts, createBody(c)) ELSE posts
    /\ UNCHANGED <<reading, copying, published, left>>

\* A check fails: the one on focus is silent.
CheckFails(k) ==
    /\ Shown /\ Trouble /\ checks' = RemoveAt(checks, k)
    /\ grid' = [grid EXCEPT !.error = @ \/ checks[k].by = "create"]
    /\ UNCHANGED <<reading, copying, posts, published>>

\* The Variable the banner names, the first of those added.
creationDriftBanner == IF grid.added = <<>> THEN None ELSE Head(grid.added).name
FillValues == {v \in Typed : trim(v) # Blank}

\* "Give every row the same value".
fillAdded ==
    /\ Shown /\ creationDriftBanner # None /\ Act("focus")
    /\ \E v \in FillValues : LET n == creationDriftBanner IN
       /\ grid' = [grid EXCEPT !.rows = fillEveryRow(@, grid.columns, n, v),
                               !.baseline = @ \cup {n},
                               !.added = SelectSeq(@, LAMBDA a : a.name # n)]
       /\ checks' = [k \in DOMAIN checks |-> [checks[k] EXCEPT !.late = @ \cup {n}]]
    /\ UNCHANGED <<reading, copying, posts, published>>

-----------------------------------------------------------------------------
(* create_batch.                                                           *)

has_value(variables, n) == n \in DOMAIN variables /\ variables[n] # Blank
is_incomplete(variables) == \E n \in public_variable_names : ~has_value(variables, n)

\* Mutant: a secret Variable counts as one the row must fill.
queue_declared(body) ==
    {i \in DOMAIN body.rows :
        \/ body.anyway
        \/ \A n \in Names(Declared) : has_value(stored_variables(body.rows[i]), n)}
queued_rows(body) ==
    {i \in DOMAIN body.rows : body.anyway \/ ~is_incomplete(stored_variables(body.rows[i]))}

create_batch(k) ==
    LET body == posts[k]
        refused == \/ Len(body.rows) > MAX_BATCH_ROWS
                   \/ \E i \in DOMAIN body.rows : ~(DOMAIN body.rows[i] \subseteq Names(Declared))
    IN
    /\ body.state = "sent"
    /\ posts' = [posts EXCEPT ![k].state = IF refused THEN "refused" ELSE "stored",
                              ![k].queued = IF refused THEN {} ELSE queued_rows(body)]
    /\ \/ grid' = [grid EXCEPT !.error = refused, !.gone = @ \/ ~refused] /\ UNCHANGED left
       \/ Trouble /\ grid' = [grid EXCEPT !.error = TRUE]   \* the answer is lost
    /\ UNCHANGED <<checks, reading, copying, published>>

BatchFormNext ==
    \/ OpenGrid \/ TypeCell \/ AddRow \/ TickAnyway \/ Paste \/ Copy \/ CopyAnswers
    \/ ChooseFile \/ landCsv \/ Assign \/ confirmImport \/ FoldSummary \/ ChangeMapping
    \/ Focus \/ ClickCreate \/ fillAdded
    \/ \E k \in DOMAIN checks : loadPublishedVariables(k) \/ CheckAnswers(k) \/ CheckFails(k)
    \/ \E k \in DOMAIN posts : create_batch(k)

-----------------------------------------------------------------------------
(* Properties.                                                             *)

(* A file lands without asking only where its headers leave no doubt: each *)
(* value that landCsv puts under a Variable comes from the one column with *)
(* that Variable's name (reconcile: a suggestion is never applied).        *)
LandsSurely ==
    \A f \in Files : (reading # None /\ reading' = None /\ reading.file = f /\ grid'.rows # grid.rows) =>
        \A r \in DOMAIN grid'.rows : \A n \in DOMAIN grid'.rows[r] :
            LET own == {i \in DOMAIN f.headers : Norm[f.headers[i]] = Norm[n]} IN
            Cardinality(own) = 1 /\ grid'.rows[r][n] \in {f.rows[r][i] : i \in own}
NeverGuessed == [][LandsSurely]_<<batchVars, published, left>>

(* What a file holds under a secret Variable's name never leaves the page, *)
(* however the mapping is changed afterwards (droppedSecretHeaders).       *)
SecretValue == "vault"
SecretsStay ==
    \A k \in DOMAIN posts : \A i \in DOMAIN posts[k].rows :
        \A n \in DOMAIN posts[k].rows[i] : posts[k].rows[i][n] # SecretValue

(* No createBatch is sent while drift is unfilled: it has a column for     *)
(* every plain Variable of the Version its check read, but for one that    *)
(* was filled while the check was under way (submitBlockedByDrift).        *)
DriftCaught ==
    \A k \in DOMAIN posts :
        PlainNames(Versions[posts[k].checked]) \subseteq PlainNames(posts[k].columns) \cup posts[k].late

(* A row the footer counted as complete when Create was clicked is queued  *)
(* and not skipped, if no Version was published since its check            *)
(* (rowCounts against is_incomplete).                                      *)
CompleteQueued ==
    \A k \in DOMAIN posts :
        posts[k].state = "stored" /\ posts[k].checked = published /\ posts[k].late = {} =>
            \A i \in DOMAIN posts[k].rows :
                Complete(posts[k].rows[i], posts[k].columns) => i \in posts[k].queued
=============================================================================

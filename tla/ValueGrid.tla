----------------------------- MODULE ValueGrid -----------------------------
(***************************************************************************)
(* The value grid of the web app (components/value-grid) and the match of  *)
(* a file's columns to a Workflow's Variables (lib/reconcile.ts): what the *)
(* screens for a new Batch and for a Schedule do to rows of values.        *)
(*                                                                         *)
(* A text is a name.  How texts are spelt is in two parameters: Norm gives *)
(* each text what normalize leaves of it, and Near holds the pairs of      *)
(* normalized texts that isNearMatch accepts.  A file is parsed: headers   *)
(* and rows of cells.                                                      *)
(***************************************************************************)
EXTENDS Naturals, Sequences, FiniteSets, SequencesExt

CONSTANTS Norm, Near, None

(* A value is a string; these two are the ones without letters.            *)
Blank == ""
Space == " "
trim(v) == IF v = Space THEN Blank ELSE v

-----------------------------------------------------------------------------
(* Columns are Variables: a sequence of [name, secret].                    *)

Var(name, secret) == [name |-> name, secret |-> secret]
Names(columns) == {columns[i].name : i \in DOMAIN columns}
PlainNames(columns) == {columns[i].name : i \in {j \in DOMAIN columns : ~columns[j].secret}}
SecretNames(columns) == {columns[i].name : i \in {j \in DOMAIN columns : columns[j].secret}}

(* A row gives some names a value; a name it lacks reads as Blank.         *)
Cell(row, n) == IF n \in DOMAIN row THEN row[n] ELSE Blank

emptyRow(columns) == [n \in PlainNames(columns) |-> Blank]
blankRows(columns, count) == [i \in 1 .. count |-> emptyRow(columns)]

setCell(row, columns, n, v) ==
    IF n \in PlainNames(columns)
      THEN [m \in DOMAIN row \cup {n} |-> IF m = n THEN v ELSE row[m]] ELSE row

\* The cells a table puts into one row from column startCol on, left to right.
PasteRow(row, columns, startCol, cells) ==
    LET at == {k \in DOMAIN cells : startCol + k - 1 <= Len(columns)
                                    /\ ~columns[startCol + k - 1].secret}
    IN [n \in {columns[startCol + k - 1].name : k \in at} |->
           cells[CHOOSE k \in at : columns[startCol + k - 1].name = n]] @@ row

(* applyPaste: rows are added until the table fits, unless cap, the fixed  *)
(* number of rows, is given.                                               *)
applyPaste(rows, columns, startRow, startCol, table, cap) ==
    LET end == startRow + Len(table) - 1
        long == IF end > Len(rows) THEN end ELSE Len(rows)
        size == IF cap = None THEN long ELSE cap
    IN [i \in 1 .. size |->
           LET row == IF i <= Len(rows) THEN rows[i] ELSE emptyRow(columns) IN
           IF i \in startRow .. end
             THEN PasteRow(row, columns, startCol, table[i - startRow + 1]) ELSE row]

applyCopiedBatch(columns, pastRows) ==
    [i \in DOMAIN pastRows |-> [n \in PlainNames(columns) |-> Cell(pastRows[i], n)]]

fillEveryRow(rows, columns, n, v) ==
    [i \in DOMAIN rows |-> setCell(rows[i], columns, n, v)]

submittedVariables(row, columns) == [n \in PlainNames(columns) |-> Cell(row, n)]

\* rowCounts: whether a row counts as complete.
Complete(row, columns) == \A n \in PlainNames(columns) : trim(Cell(row, n)) # Blank

-----------------------------------------------------------------------------
(* reconcile: which header of a file fills which Variable.                 *)

\* The headers without those of secret Variables, each at its position.
Usable(headers, columns) ==
    LET secret == {Norm[n] : n \in SecretNames(columns)}
    IN [i \in {j \in DOMAIN headers : Norm[headers[j]] \notin secret} |-> headers[i]]
DroppedHeaders(headers, columns) == Range(headers) \ Range(Usable(headers, columns))

ClaimedBy(h, columns) == {n \in PlainNames(columns) : Norm[n] = Norm[h]}
Exact(n, usable) == {i \in DOMAIN usable : Norm[usable[i]] = Norm[n]}

\* The Variables with one header of their name, which is no other's.
UniqueExact(usable, columns) ==
    {n \in PlainNames(columns) :
        /\ Cardinality(Exact(n, usable)) = 1
        /\ \A i \in Exact(n, usable) : Cardinality(ClaimedBy(usable[i], columns)) = 1}

isNearMatch(h, n) == Norm[h] = Norm[n] \/ <<Norm[h], Norm[n]>> \in Near

\* The header suggested for a Variable that has none: the one near header
\* that is near to no other such Variable.
Suggested(n, usable, columns) ==
    LET sure == UniqueExact(usable, columns)
        taken == {usable[i] : i \in UNION {Exact(s, usable) : s \in sure}}
        claims == {c \in (PlainNames(columns) \ sure) \X DOMAIN usable :
                      usable[c[2]] \notin taken /\ isNearMatch(usable[c[2]], c[1])}
        once == {usable[c[2]] : c \in {d \in claims : d[1] = n /\
                    Cardinality({e \in claims : usable[e[2]] = usable[d[2]]}) = 1}}
    IN IF Cardinality(once) = 1 THEN CHOOSE h \in once : TRUE ELSE None

\* Mutant: a near match is as good as an exact one.
NearIsSure(headers, columns) ==
    LET usable == Usable(headers, columns)
        sure == UniqueExact(usable, columns)
        mapping == [n \in PlainNames(columns) |->
                       IF n \in sure THEN usable[CHOOSE i \in Exact(n, usable) : TRUE]
                       ELSE Suggested(n, usable, columns)]
    IN [confident |-> \A n \in PlainNames(columns) : mapping[n] # None,
        mapping |-> mapping, dropped |-> DroppedHeaders(headers, columns)]

reconcile(headers, columns) ==
    LET usable == Usable(headers, columns)
        sure == UniqueExact(usable, columns)
        confident == /\ sure = PlainNames(columns)
                     /\ \A h \in Range(usable) : Cardinality(ClaimedBy(h, columns)) <= 1
    IN [confident |-> confident,
        mapping |-> [n \in PlainNames(columns) |->
                       IF n \in sure THEN usable[CHOOSE i \in Exact(n, usable) : TRUE]
                       ELSE IF confident THEN None ELSE Suggested(n, usable, columns)],
        dropped |-> DroppedHeaders(headers, columns)]

-----------------------------------------------------------------------------
(* csv-import.ts: a file [headers, rows], and the panel over the grid.     *)

Idle == [kind |-> "idle"]
Strip(file, assignment, dropped) ==
    [kind |-> "strip", file |-> file, assignment |-> assignment, dropped |-> dropped]
Summary(file, assignment, dropped) ==
    [kind |-> "summary", dismissed |-> FALSE, file |-> file,
     assignment |-> assignment, dropped |-> dropped]

\* One row per row of the file: each mapped Variable from the first column of
\* its header, every other one blank.
applyImport(file, assignment, columns) ==
    LET index(h) == CHOOSE i \in DOMAIN file.headers :
                        file.headers[i] = h /\ \A j \in 1 .. i - 1 : file.headers[j] # h
        value(cells, n) == IF n \in DOMAIN assignment /\ assignment[n] # None
                             THEN cells[index(assignment[n])] ELSE Blank
    IN [r \in DOMAIN file.rows |-> [n \in PlainNames(columns) |-> value(file.rows[r], n)]]

\* beginImport: what lands at once, and the panel.
beginImport(file, columns) ==
    LET found == reconcile(file.headers, columns) IN
    IF found.confident
      THEN [landed |-> TRUE, rows |-> applyImport(file, found.mapping, columns),
            panel |-> Summary(file, found.mapping, found.dropped)]
      ELSE [landed |-> FALSE, rows |-> <<>>,
            panel |-> Strip(file, found.mapping, found.dropped)]

\* confirmImport: the strip as it stands, over the columns of now.
Confirmed(panel, columns) ==
    [rows |-> applyImport(panel.file, panel.assignment, columns),
     panel |-> Summary(panel.file, panel.assignment, panel.dropped)]

assignHeader(panel, n, h) == [panel EXCEPT !.assignment[n] = h]
stripFromSummary(panel) == Strip(panel.file, panel.assignment, panel.dropped)

\* Mutant: every header of the file is offered.
allHeaders(panel) == Range(panel.file.headers)
mappableHeaders(panel) == Range(panel.file.headers) \ panel.dropped
=============================================================================

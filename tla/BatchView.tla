----------------------------- MODULE BatchView -----------------------------
(***************************************************************************)
(* The screen of one Batch (apps/web batches/[id]) against the Batch it    *)
(* shows: its rows and their Runs, the handlers and the listener that move *)
(* it on and then tell of it, and the event stream that forwards the word. *)
(*                                                                         *)
(* The page has a snapshot, made by a load of getBatch and kept up to date *)
(* by batch.row events.  Events are emitted after the commit they tell of, *)
(* by several processes, in no common order, and are lost while nobody is  *)
(* subscribed.  A transaction reads, decides and commits in steps of its   *)
(* own: the listener, a re-run and the first cancel do so under the lock   *)
(* of the Batch, a skip and a cancel of a cancelled Batch without, so they *)
(* may write over what others settled meanwhile.  fill_batch_rows reads    *)
(* and then writes, getBatch reads rows and then attempts.                 *)
(***************************************************************************)
EXTENDS BatchBase, Sequences, FiniteSets, SequencesExt, FiniteSetsExt

CONSTANTS
    MaxInbox,      \* bound: events forwarded and not handled
    Budgets        \* bounds of a behaviour, one of these: see Budget

\* The handler of the page's request, one of somebody else's, and the listener
\* or the minute loop.
Emitters == {"page", "other", "listener"}

RunStatus == NON_TERMINAL \cup Terminal

VARIABLES
    batch,     \* the Batch and its rows in the database
    work,      \* [Emitters -> Work]: its transaction
    out,       \* [Emitters -> set of the last commit's events still to be emitted]
    over,      \* history: rows a transaction wrote that another had written since
               \* it read them
    page,      \* the tab
    stream,    \* listen() of useBatchStream
    inbox,     \* events forwarded to the page and not handled
    load,      \* the fetch of batchQuery in flight, or None
    left       \* what is left of the behaviour's budget

server == <<batch, run, work, out, over>>
tab == <<page, stream, inbox, load>>
viewVars == <<server, tab, left>>

(* ops: what may be asked for; asks: how often, by the page or elsewhere;  *)
(* kinds, troubles: what may fail and how often; ends: how a Run may end.  *)
Op == {"skip", "rerun", "fill", "cancel", "take"}
Kind == {"stream", "load", "answer", "emit"}
Budget == [ops : SUBSET Op, asks : Nat, kinds : SUBSET Kind, troubles : Nat,
           ends : SUBSET {"succeeded", "failed"}, parks : BOOLEAN, drifts : BOOLEAN]

\* wants: the latest Version declares the Variable the rows may have no value for.
Batch == [cancelled : BOOLEAN, status : [Rows -> BatchRowStatus],
          value : [Rows -> BOOLEAN], wants : BOOLEAN, stopping : SUBSET Runs]

AttemptRecord == [id : Runs, status : RunStatus]
BatchRowRecord == [status : BatchRowStatus, value : BOOLEAN, latest : Runs \cup {None},
                   runs : Seq(AttemptRecord)]
BatchSnapshot == [rows : [Rows -> BatchRowRecord], stats : [BatchRowStatus -> Nat]]
BatchEvent == [row : Rows, status : BatchRowStatus, run : Runs \cup {None}]

(* word: what is written to each row, and told of it after the commit;     *)
(* runs: those closed; start: the row a Run is started for; stale: rows    *)
(* committed by others since they were read.  A decided transaction has    *)
(* flushed word and runs.                                                  *)
Stages == {"idle", "called", "decided", "ok", "refused"}
Work == [stage : Stages, op : {"advance", "skip", "rerun", "cancel", None}, lock : BOOLEAN,
         word : [Rows -> BatchEvent \cup {None}], runs : SUBSET Runs,
         start : Rows \cup {None}, stale : SUBSET Rows]

(* seen: the runQuery of each Run, as it was loaded; knows: wants, as it   *)
(* was loaded; filled: a fill of this page was answered well; ask: the     *)
(* mutation in flight, the row it is about, what fill has read, and its    *)
(* answer.                                                                 *)
Mutation == [op : Op, row : Rows, read : (SUBSET Rows) \cup {None},
             answer : {"ok", "refused", None}]
Page == [shot : BatchSnapshot \cup {None}, cached : BatchSnapshot \cup {None},
         error : BOOLEAN, seen : [Runs -> RunStatus \cup {None}], knows : BOOLEAN,
         dismissed : BOOLEAN, filled : BOOLEAN, gone : BOOLEAN, ask : Mutation \cup {None}]

\* got: the rows as read; full: the attempts are read as well.
Load == [by : SUBSET {"reconnect", "mutation"}, got : BatchSnapshot \cup {None},
         full : BOOLEAN]

\* None is none of the values it stands in for.
ASSUME BatchViewAssumption ==
    /\ NRows \in Nat /\ MaxAttempts \in Nat \ {0} /\ MaxInbox \in Nat
    /\ Budgets \subseteq Budget
    /\ None \notin Rows /\ None \notin Runs \cup RunStatus \cup {"ok", "refused"}
    /\ None \notin BatchEvent /\ None \notin BatchSnapshot /\ None \notin Load /\ None \notin Mutation

ViewTypeOK ==
    /\ batch \in Batch
    /\ run \in [Runs -> RunStatus \cup {None}]
    /\ work \in [Emitters -> Work]
    /\ out \in [Emitters -> SUBSET BatchEvent]
    /\ over \subseteq Rows
    /\ page \in Page
    /\ stream \in {"off", "opening", "open", "broken", "refetching", "sleeping"}
    /\ inbox \in Seq(BatchEvent)
    /\ load \in Load \cup {None}
    /\ left \in Budget

May(op) == op \in left.ops /\ left.asks > 0 /\ left' = [left EXCEPT !.asks = @ - 1]
Trouble(k) == k \in left.kinds /\ left.troubles > 0 /\ left' = [left EXCEPT !.troubles = @ - 1]

-----------------------------------------------------------------------------
(* The Batch: each commit, then the events that tell of it.                *)

StillOpen == {r \in Runs : run[r] \in NON_TERMINAL}
attempts_by_row(i) == {k \in 1 .. MaxAttempts : run[<<i, k>>] # None}
LatestRun(i) == IF attempts_by_row(i) = {} THEN None ELSE <<i, Max(attempts_by_row(i))>>
NextRun(i) == <<i, Cardinality(attempts_by_row(i)) + 1>>
RoomAt(i) == Cardinality(attempts_by_row(i)) < MaxAttempts

Row(i, status, r) == [row |-> i, status |-> status, run |-> r]

\* start_next_queued, when rows S were settled and Runs ended just before.
NextStarted(S, ended) ==
    LET queued == {i \in Rows \ S : batch.status[i] = "queued"} IN
    IF batch.cancelled \/ StillOpen \ ended # {} \/ queued = {} THEN None ELSE Min(queued)

\* Rows whose latest Run has ended.
Ended == {i \in Rows : /\ batch.status[i] = "running"
                       /\ LatestRun(i) # None /\ run[LatestRun(i)] \in Terminal}

Accepts(op, i) ==
    CASE op = "skip"  -> LatestRun(i) # None /\ run[LatestRun(i)] = "waiting_for_human"
      [] op = "rerun" -> batch.status[i] \in {"failed", "skipped"}
      [] op = "take"  -> LatestRun(i) # None /\ run[LatestRun(i)] = "waiting_for_human"
      [] OTHER -> TRUE

Nothing == [word |-> [i \in Rows |-> None], runs |-> {}, start |-> None]

RowsReflected ==
    [Nothing EXCEPT !.word = [i \in Rows |->
        IF i \in Ended THEN Row(i, run[LatestRun(i)], LatestRun(i)) ELSE None]]

RowSkipped(i) ==
    [Nothing EXCEPT !.word[i] = Row(i, "skipped", LatestRun(i)), !.runs = {LatestRun(i)}]

\* cancel_batch: Runs no Worker executes are closed, one that is executed is asked
\* to stop, and a row whose Run had already ended is cancelled all the same.
Active == {i \in Rows : batch.status[i] = "running"}
Busy == {i \in Active : run[LatestRun(i)] = "running"}
BatchCancelled ==
    LET hit == {i \in Rows : batch.status[i] = "queued"} \cup (Active \ Busy) IN
    [word |-> [i \in Rows |-> IF i \notin hit THEN None
                              ELSE Row(i, "cancelled", IF i \in Active THEN LatestRun(i) ELSE None)],
     runs |-> {r \in Runs : /\ r[1] \in Active /\ r = LatestRun(r[1])
                            /\ run[r] \in {"queued", "waiting_for_human"}},
     start |-> None]

\* What a transaction means to do, by what it reads.
Reads(op, i) ==
    CASE op = "advance" -> RowsReflected
      [] op = "skip"    -> RowSkipped(i)
      [] op = "rerun"   -> [Nothing EXCEPT !.start = i]
      [] op = "cancel"  -> BatchCancelled

Unlocked == \A e \in Emitters : ~work[e].lock

\* A cancel locks the Batch by writing cancelled_at, unless it reads that it is set.
Locks(op) == CASE op = "advance" -> {TRUE}
               [] op = "cancel"  -> {TRUE} \cup IF batch.cancelled THEN {FALSE} ELSE {}
               [] OTHER -> {FALSE}

Begins(op, lock, does) ==
    [stage |-> "called", op |-> op, lock |-> lock, word |-> does.word,
     runs |-> does.runs, start |-> does.start, stale |-> {}]

\* The transaction begins.  A Run is asked to stop as its row is read.
Call(e, op, i) ==
    /\ work[e].stage = "idle" /\ out[e] = {}
    /\ \E lock \in Locks(op) :
         /\ lock => Unlocked
         /\ work' = [work EXCEPT ![e] = Begins(op, lock, Reads(op, i))]
    /\ batch' = [batch EXCEPT !.stopping =
                    @ \cup IF op = "cancel" THEN {LatestRun(j) : j \in Busy} ELSE {}]
    /\ UNCHANGED <<run, out, over>>

\* reflect_and_advance, when there is something to do.
Advance ==
    /\ Ended # {} \/ NextStarted({}, {}) # None
    /\ Call("listener", "advance", None)
    /\ UNCHANGED <<tab, left>>

\* Its end: only the page waits for an answer.
Rests(answer) ==
    [Begins(None, FALSE, Nothing) EXCEPT !.stage = answer]
Done(e, answer) == Rests(IF e = "page" THEN answer ELSE "idle")

Written(w) == {i \in Rows : w.word[i] # None}
Writes(w) == Written(w) \cup ({w.start} \ {None})

\* Rows, and Runs, that other transactions have flushed and not committed.
Flushed(e) == {d \in Emitters \ {e} : work[d].stage = "decided"}
Held(e) == UNION {Written(work[d]) : d \in Flushed(e)}

\* A re-run locks the Batch and looks for an open Run; the others flush their rows
\* and look for the row to start, which is read only now.
Resolves(e) ==
    LET w == work[e]
        start == NextStarted(Written(w), w.runs)
    IN  IF w.op = "rerun"
        THEN /\ Unlocked
             /\ work' = [work EXCEPT ![e] =
                           IF StillOpen = {} THEN [w EXCEPT !.stage = "decided", !.lock = TRUE]
                           ELSE Done(e, "refused")]
        ELSE /\ Written(w) \cap Held(e) = {}
             /\ work' = [work EXCEPT ![e] =
                           [w EXCEPT !.stage = "decided", !.start = start, !.stale = w.stale \ {start}]]

\* Mutant: the rows are told of before the commit.
TellsFirst(e) ==
    /\ work[e].stage = "called"
    /\ Resolves(e)
    /\ out' = [out EXCEPT ![e] = {work[e].word[i] : i \in Written(work[e])}]
    /\ UNCHANGED <<batch, run, over, tab, left>>

Resolve(e) ==
    /\ work[e].stage = "called"
    /\ Resolves(e)
    /\ UNCHANGED <<batch, run, out, over, tab, left>>

Commits(e) ==
    LET w == work[e]
        began == w.start # None
    IN
    /\ w.stage = "decided"
    /\ began => RoomAt(w.start) /\ w.start \notin Held(e)
    /\ batch' = [batch EXCEPT
                   !.cancelled = @ \/ w.op = "cancel",
                   !.status = [i \in Rows |-> CASE i = w.start -> "running"
                                              [] i \in Written(w) \ {w.start} -> w.word[i].status
                                              [] OTHER -> @[i]]]
    /\ run' = [r \in Runs |-> CASE began /\ r = NextRun(w.start) -> "queued"
                                [] r \in w.runs -> "cancelled"
                                [] OTHER -> run[r]]
    /\ out' = [out EXCEPT ![e] =
                 {w.word[i] : i \in Written(w)}
                 \cup IF began THEN {Row(w.start, "running", NextRun(w.start))} ELSE {}]
    /\ over' = over \cup (Writes(w) \cap w.stale)
    /\ work' = [d \in Emitters |-> IF d = e THEN Done(e, "ok")
                                   ELSE [work[d] EXCEPT !.stale = work[d].stale \cup Writes(w)]]
    /\ UNCHANGED <<tab, left>>

\* fill_batch_rows: the rows to fill are read, and written later.
Unfilled == {i \in Rows : batch.status[i] = "queued" /\ ~batch.value[i]}
fill_batch_rows(read) ==
    /\ batch' = [batch EXCEPT !.value = [i \in Rows |-> @[i] \/ i \in read]]
    /\ UNCHANGED <<run, work, out, over>>

\* A person elsewhere.
Elsewhere(op, i) ==
    /\ May(op)
    /\ \/ op = "fill" /\ fill_batch_rows(Unfilled)
       \/ op \in {"skip", "rerun", "cancel"} /\ Accepts(op, i) /\ Call("other", op, i)
    /\ UNCHANGED tab

\* Somebody publishes a Version that declares the Variable.
Drift ==
    /\ left.drifts
    /\ batch' = [batch EXCEPT !.wants = TRUE]
    /\ left' = [left EXCEPT !.drifts = FALSE]
    /\ UNCHANGED <<run, work, out, over, tab>>

\* The Run as RunPromise has it, unless a transaction has flushed its end.
RunMoves(r, status) ==
    /\ \A e \in Emitters : work[e].stage = "decided" => r \notin work[e].runs
    /\ \/ run[r] = "queued" /\ status = "running"
       \/ run[r] = "running" /\ status = "waiting_for_human" /\ left.parks
       \/ run[r] = "waiting_for_human" /\ status = "running"
       \/ run[r] = "running" /\ status = "cancelled" /\ r \in batch.stopping
       \/ run[r] \in {"running", "waiting_for_human"} /\ status \in left.ends
    /\ run' = [run EXCEPT ![r] = status]
    /\ UNCHANGED <<batch, work, out, over, tab, left>>

\* Events go out in the order of their rows, the one of the row that starts last.
Sooner(v, w) == v.status # "running" /\ (w.status = "running" \/ v.row < w.row)

\* An event goes to whoever is subscribed at that moment.
Publish(e) ==
    /\ Len(inbox) < MaxInbox
    /\ \E w \in out[e] :
         /\ \A v \in out[e] \ {w} : Sooner(w, v)
         /\ out' = [out EXCEPT ![e] = @ \ {w}]
         /\ inbox' = IF stream = "open" THEN Append(inbox, w) ELSE inbox
    /\ UNCHANGED <<batch, run, work, over, page, stream, load, left>>

\* The process dies between the commit and the word of it.
Unsaid(e) ==
    /\ out[e] # {}
    /\ Trouble("emit")
    /\ out' = [out EXCEPT ![e] = {}]
    /\ work' = [work EXCEPT ![e] = Done(e, "refused")]
    /\ UNCHANGED <<batch, run, over, tab>>

-----------------------------------------------------------------------------
(* The snapshot: events.ts and presentation.ts.                            *)

statsFromRows(rows) == [s \in BatchRowStatus |-> Cardinality({i \in Rows : rows[i].status = s})]

snapshotFromDetail(rows) == [rows |-> rows, stats |-> statsFromRows(rows)]

\* get_batch reads the rows, then attempts_by_row the attempts.
RowsRead ==
    snapshotFromDetail([i \in Rows |-> [status |-> batch.status[i], value |-> batch.value[i],
                                        latest |-> None, runs |-> <<>>]])
row_record(rec, i) ==
    [rec EXCEPT !.latest = LatestRun(i),
                !.runs = [k \in 1 .. Cardinality(attempts_by_row(i)) |->
                             [id |-> <<i, k>>, status |-> run[<<i, k>>]]]]
AttemptsRead(shot) == [shot EXCEPT !.rows = [i \in Rows |-> row_record(@[i], i)]]

\* Mutant: the row's status is taken for its Run's.
sameStatus(status) == status

runStatusOf(status) == IF status \in {"skipped", "cancelled"} THEN "cancelled" ELSE status

\* Mutant: every event adds an attempt.
AppendRow(rec, e) ==
    [rec EXCEPT !.status = e.status, !.latest = e.run,
                !.runs = Append(@, [id |-> e.run, status |-> runStatusOf(e.status)])]

\* The attempt the event names is replaced, or appended.
applyRow(rec, e) ==
    LET attempt == [id |-> e.run, status |-> runStatusOf(e.status)]
        at == {k \in DOMAIN rec.runs : rec.runs[k].id = e.run}
    IN  IF e.run = None THEN [rec EXCEPT !.status = e.status]
        ELSE [rec EXCEPT !.status = e.status, !.latest = e.run,
                         !.runs = IF at = {} THEN Append(@, attempt)
                                  ELSE [k \in DOMAIN @ |-> IF k \in at THEN attempt ELSE @[k]]]

\* Mutant: the stats stay those of the last load.
applyToRows(shot, e) == [shot EXCEPT !.rows[e.row] = applyRow(@, e)]

applyBatchEvent(shot, e) ==
    snapshotFromDetail([shot.rows EXCEPT ![e.row] = applyRow(@, e)])

batchIsLive(shot) == \E i \in Rows : shot.rows[i].status \in {"queued", "running"}

liveRowIndex(shot) ==
    LET live == {i \in Rows : shot.rows[i].status = "running"}
    IN  IF live = {} THEN None ELSE Min(live)

statsView(shot) ==
    LET Of(S) == Cardinality({i \in Rows : shot.rows[i].status \in S}) IN
    [succeeded |-> Of({"succeeded"}), failed |-> Of({"failed"}), queued |-> Of({"queued"}),
     skipped |-> Of({"skipped", "cancelled"}), running |-> Of({"running"})]

progressSegments(stats) ==
    [succeeded |-> stats["succeeded"], failed |-> stats["failed"], queued |-> stats["queued"],
     skipped |-> stats["skipped"] + stats["cancelled"], running |-> stats["running"]]

\* What the numbers say and what the bar shows.
StatsHeader(shot) == [numbers |-> statsView(shot), bar |-> progressSegments(shot.stats)]

\* The rows the banner counts; it is there when there is one.
runningDriftBanner(shot, knows, dismissed) ==
    IF ~knows \/ dismissed THEN {}
    ELSE {i \in Rows : shot.rows[i].status = "queued" /\ ~shot.rows[i].value}

applyQueuedFill(shot) ==
    [shot EXCEPT !.rows = [i \in Rows |->
        IF @[i].status = "queued" THEN [@[i] EXCEPT !.value = TRUE] ELSE @[i]]]

-----------------------------------------------------------------------------
(* The page's effects and its loads.                                       *)

Listens(p) == p.shot # None /\ ~p.gone /\ batchIsLive(p.shot)

\* useBatchStream's effect: listen() is started and stopped with Listens.
Renders(p, now, box) ==
    LET s == CASE ~Listens(p) -> "off"
               [] Listens(p) /\ now = "off" -> "opening"
               [] OTHER -> now
    IN  /\ page' = p
        /\ stream' = s
        /\ inbox' = IF s = "open" THEN box ELSE <<>>

Becomes(p) == Renders(p, stream, inbox)

Fetch(by) == [by |-> by, got |-> None, full |-> FALSE]

\* Mutant: whoever asks again joins the fetch in flight.
RefetchJoins(why) ==
    load' = IF load = None THEN Fetch({why}) ELSE [load EXCEPT !.by = @ \cup {why}]

\* loaded.refetch(): a fetch in flight is started over, for its callers too.
Refetch(why) == load' = Fetch({why} \cup IF load = None THEN {} ELSE load.by)

LoadRows ==
    /\ load # None /\ load.got = None
    /\ load' = [load EXCEPT !.got = RowsRead]
    /\ UNCHANGED <<server, page, stream, inbox, left>>

LoadAttempts ==
    /\ load # None /\ load.got # None /\ ~load.full
    /\ load' = [load EXCEPT !.got = AttemptsRead(@), !.full = TRUE]
    /\ UNCHANGED <<server, page, stream, inbox, left>>

\* Mutant: the answer of the refetch is only cached.
ShowsOnce(by, shot, got) == IF shot = None THEN got ELSE shot

\* What is shown once a load is over: the first load shows itself, and so does one
\* that a reconnect or a mutation asked for.
Shown(by, shot, got) == IF shot = None \/ by # {} THEN got ELSE shot

\* A failed refetch still carries the data of the last good one.
Takes(got, ok) ==
    /\ Renders([page EXCEPT !.cached = got, !.error = ~ok, !.shot = Shown(load.by, @, got)],
               IF "reconnect" \in load.by /\ stream = "refetching" THEN "sleeping" ELSE stream,
               inbox)
    /\ load' = None

LoadDone ==
    /\ load # None /\ load.full
    /\ Takes(load.got, TRUE)
    /\ UNCHANGED <<server, left>>

LoadFails ==
    /\ load # None
    /\ Trouble("load")
    /\ Takes(page.cached, FALSE)
    /\ UNCHANGED server

\* workflowQuery and versionDocumentQuery, at the first load or when the window has
\* the focus again.
Learn ==
    /\ page.knows # batch.wants
    /\ Becomes([page EXCEPT !.knows = batch.wants])
    /\ UNCHANGED <<server, load, left>>

-----------------------------------------------------------------------------
(* listen(): subscribe, handle events until the stream ends, refetch, sleep. *)

Subscribe ==
    /\ stream = "opening"
    /\ stream' = "open"
    /\ UNCHANGED <<server, page, inbox, load, left>>

Break ==
    /\ stream \in {"opening", "open"}
    /\ Trouble("stream")
    /\ stream' = "broken" /\ inbox' = <<>>
    /\ UNCHANGED <<server, page, load>>

\* Mutant: the loop ends with its stream.
GiveUp ==
    /\ stream = "broken"
    /\ stream' = "off"
    /\ UNCHANGED <<server, page, inbox, load, left>>

Reconnect ==
    /\ stream = "broken"
    /\ stream' = "refetching"
    /\ Refetch("reconnect")
    /\ UNCHANGED <<server, page, inbox, left>>

Wake ==
    /\ stream = "sleeping"
    /\ stream' = "opening"
    /\ UNCHANGED <<server, page, inbox, load, left>>

Receive ==
    /\ inbox # <<>>
    /\ Renders([page EXCEPT !.shot = applyBatchEvent(@, Head(inbox))], stream, Tail(inbox))
    /\ UNCHANGED <<server, load, left>>

-----------------------------------------------------------------------------
(* The person at the page.                                                 *)

Screen == page.shot # None /\ ~page.error /\ ~page.gone

Live == IF page.shot = None THEN None ELSE liveRowIndex(page.shot)
LiveRun == IF Live = None THEN None ELSE page.shot.rows[Live].latest

\* What a row expands into.
Expansion(i) ==
    LET rec == page.shot.rows[i] IN
    CASE i = Live /\ rec.latest # None -> "live"
      [] i # Live /\ rec.status \in {"failed", "succeeded"} -> rec.status
      [] OTHER -> None

\* The Run of the live row is loaded when it becomes that, and again when
\* the row's LiveExpansion is mounted; LiveExpansion follows it as the cockpit does.
LoadRun ==
    /\ Screen /\ Live # None /\ Expansion(Live) = "live" /\ left.parks
    /\ page.seen[LiveRun] # run[LiveRun]
    /\ Becomes([page EXCEPT !.seen[LiveRun] = run[LiveRun]])
    /\ UNCHANGED <<server, load, left>>

\* The buttons: what each part of the screen lets a person ask for.
Banner == IF runningDriftBanner(page.shot, page.knows, page.dismissed) = {} THEN {}
          ELSE {"fill", "cancel"} \X {0}
Callout == IF LiveRun # None /\ page.seen[LiveRun] = "waiting_for_human"
           THEN {"take", "skip"} \X {Live} ELSE {}
FailedExpansion == {"rerun"} \X {i \in Rows : Expansion(i) = "failed"}

\* A mutation is sent.  Bound: one at a time.
Click(op, i) ==
    /\ Screen /\ page.ask = None
    /\ <<op, i>> \in Banner \cup Callout \cup FailedExpansion
    /\ May(op)
    /\ Becomes([page EXCEPT !.ask = [op |-> op, row |-> i, read |-> None, answer |-> None]])
    /\ UNCHANGED <<server, load>>

\* "Run them as they are".
Dismiss ==
    /\ Screen /\ Banner # {} /\ "fill" \in left.ops
    /\ Becomes([page EXCEPT !.dismissed = TRUE])
    /\ UNCHANGED <<server, load, left>>

\* fill_batch_rows has read which rows to fill.
ReadFill ==
    /\ page.ask # None /\ page.ask.op = "fill" /\ page.ask.read = None
    /\ page' = [page EXCEPT !.ask.read = Unfilled]
    /\ UNCHANGED <<server, stream, inbox, load, left>>

Answer(a) == page' = [page EXCEPT !.ask.answer = a]

\* The request reaches its handler, or is lost.
Serve ==
    /\ page.ask # None /\ page.ask.answer = None /\ work["page"].stage = "idle"
    /\ LET op == page.ask.op
           i == page.ask.row
       IN  \/ /\ op = "fill" /\ page.ask.read # None
              /\ fill_batch_rows(page.ask.read) /\ Answer("ok")
              /\ UNCHANGED left
           \/ /\ op \in {"skip", "rerun", "cancel"} /\ Accepts(op, i)
              /\ Call("page", op, i)
              /\ UNCHANGED <<page, left>>
           \/ /\ op = "take" /\ Accepts(op, i) /\ Answer("ok")
              /\ UNCHANGED <<server, left>>
           \/ /\ ~Accepts(op, i) /\ Answer("refused")
              /\ UNCHANGED <<server, left>>
           \/ /\ Trouble("answer") /\ Answer("refused")
              /\ UNCHANGED server
    /\ UNCHANGED <<stream, inbox, load>>

\* The handler emits before it answers.
Reply ==
    /\ work["page"].stage \in {"ok", "refused"} /\ out["page"] = {}
    /\ page.ask # None /\ page.ask.op # "fill"
    /\ Answer(work["page"].stage)
    /\ work' = [work EXCEPT !["page"] = Rests("idle")]
    /\ UNCHANGED <<batch, run, out, over, stream, inbox, load, left>>

\* The answer is lost: the page takes the request for refused.
LoseAnswer ==
    /\ page.ask # None /\ page.ask.answer = "ok"
    /\ Trouble("answer") /\ Answer("refused")
    /\ UNCHANGED <<server, stream, inbox, load>>

\* onSuccess: a refetch, for a fill the rows at once as well; a takeover
\* goes to the Run's own page.
Answered ==
    /\ page.ask # None /\ page.ask.answer # None
    /\ LET op == page.ask.op
           p == [page EXCEPT !.ask = None]
       IN  /\ Becomes(IF page.ask.answer = "refused" THEN p
                      ELSE CASE op = "fill" -> [p EXCEPT !.shot = applyQueuedFill(@), !.filled = TRUE]
                             [] op = "take" -> [p EXCEPT !.gone = TRUE]
                             [] OTHER -> p)
           /\ IF page.ask.answer = "ok" /\ op # "take" THEN Refetch("mutation")
              ELSE UNCHANGED load
    /\ UNCHANGED <<server, left>>

-----------------------------------------------------------------------------

\* create_batch has started the first row; the page is opened then or later.
ViewInit ==
    /\ batch = [cancelled |-> FALSE, status |-> [i \in Rows |-> IF i = 0 THEN "running" ELSE "queued"],
                value |-> [i \in Rows |-> FALSE], wants |-> FALSE, stopping |-> {}]
    /\ run = [r \in Runs |-> IF r = <<0, 1>> THEN "queued" ELSE None]
    /\ work = [e \in Emitters |-> Rests("idle")]
    /\ out = [e \in Emitters |-> {}] /\ over = {}
    /\ page = [shot |-> None, cached |-> None, error |-> FALSE,
               seen |-> [r \in Runs |-> None], knows |-> FALSE, dismissed |-> FALSE,
               filled |-> FALSE, gone |-> FALSE, ask |-> None]
    /\ stream = "off" /\ inbox = <<>> /\ load = Fetch({})
    /\ left \in Budgets

Loading == LoadRows \/ LoadAttempts \/ LoadDone
Listening == Subscribe \/ Reconnect \/ Wake

ViewNext ==
    \/ Advance \/ Drift
    \/ \E op \in Op, i \in Rows : Elsewhere(op, i) \/ Click(op, i)
    \/ \E r \in Runs, s \in RunStatus : RunMoves(r, s)
    \/ \E e \in Emitters : Resolve(e) \/ Commits(e) \/ Publish(e) \/ Unsaid(e)
    \/ Loading \/ LoadFails \/ Learn \/ LoadRun
    \/ Listening \/ Break \/ Receive
    \/ Dismiss \/ ReadFill \/ Serve \/ Reply \/ LoseAnswer \/ Answered

ViewSpec == ViewInit /\ [][ViewNext]_viewVars

(* Requests are answered and the page's loop runs on.  Nothing is assumed  *)
(* of people, of the Runs or of the events.                                *)
ViewFairness == WF_viewVars(Loading) /\ WF_viewVars(Listening)

FairViewSpec == ViewSpec /\ ViewFairness

-----------------------------------------------------------------------------
(* Properties.                                                             *)

(* A row the page shows as succeeded or cancelled is so in the database,   *)
(* in whatever order the word of it came: those two are final, and nothing *)
(* is said before it is committed.  The one way to lose them is a          *)
(* transaction that writes a row others have written since it read it, as  *)
(* a skip or a second cancel may (cancel_batch, skip_batch_row).           *)
DoneIsTrue ==
    page.shot # None =>
        \A i \in Rows \ over : page.shot.rows[i].status \in {"succeeded", "cancelled"} =>
                                   batch.status[i] = page.shot.rows[i].status

(* Loads and events bring the same attempts: a row lists each of its Runs  *)
(* at most once, only Runs there are, and the latest it names is listed.   *)
AttemptsReal ==
    page.shot # None =>
        \A i \in Rows :
            LET rec == page.shot.rows[i]
                ids == {rec.runs[k].id : k \in DOMAIN rec.runs}
            IN  /\ Cardinality(ids) = Len(rec.runs)
                /\ \A r \in ids : r[1] = i /\ run[r] # None
                /\ rec.latest # None => rec.latest \in ids

(* The header counts rows and the bar shows the snapshot's stats: the two  *)
(* agree whether a load, an event or a fill made the snapshot.             *)
HeaderAgrees ==
    page.shot # None => StatsHeader(page.shot).numbers = StatsHeader(page.shot).bar

(* "the banner clears with the rows updated": once a fill was answered no  *)
(* later load or event brings a queued row without a value back.           *)
BannerClears ==
    Screen /\ page.filled => runningDriftBanner(page.shot, page.knows, page.dismissed) = {}

(* "the REST detail fetch carries everything missed": a page whose stream  *)
(* broke shows every row as it is once the Batch no longer moves, or says  *)
(* that it could not be loaded, or the Batch moved on.  A row written over *)
(* after it was settled may come too late for a page that then listens no  *)
(* more.                                                                   *)
Still == \A i \in Rows : batch.status[i] \notin {"queued", "running"}
Truth == page.shot # None /\ \A i \in Rows \ over : page.shot.rows[i].status = batch.status[i]
CatchesUp == (Still /\ stream = "broken") ~> (Truth \/ page.error \/ page.gone \/ ~Still)

(* A page that shows a row queued or running goes on listening, whatever   *)
(* breaks.                                                                 *)
KeepsListening == Listens(page) ~> stream = "open" \/ ~Listens(page)

(* What the page of a Batch shows is true: final rows are final, attempts  *)
(* are the Runs there are, the counts of header and bar agree, and a fill  *)
(* that was answered is not undone on the screen by an older load or event *)
(* (applyBatchEvent, batchQuery).                                          *)
RowsTrue == ViewTypeOK /\ DoneIsTrue /\ AttemptsReal /\ HeaderAgrees /\ BannerClears

(* The page stays current: while a row may still move it comes back to an  *)
(* open stream, and after a break it ends with every row as it is          *)
(* (useBatchStream).                                                       *)
StaysCurrent == CatchesUp /\ KeepsListening
=============================================================================

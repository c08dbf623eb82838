---------------------------- MODULE BatchAdvance ----------------------------
(***************************************************************************)
(* One Batch: its rows, the Runs that are attempts at them, and everyone   *)
(* who moves it on (batches/advance.py, batches/routes.py, listen.py and   *)
(* the minute loop).  A Run is what RunPromise promises of it.             *)
(*                                                                         *)
(* Every operation is one PostgreSQL transaction at READ COMMITTED: it     *)
(* reads what is committed, blocks on rows another transaction has already *)
(* updated, and its own writes show when it commits.  Batch is locked FOR  *)
(* UPDATE by reflect_and_advance and by rerun_batch_row; the UPDATE of     *)
(* cancelled_at locks it as well.  skip_batch_row never locks it.          *)
(***************************************************************************)
EXTENDS BatchBase, FiniteSetsExt

CONSTANTS
    Users,         \* request handlers that can be at work at once
    Operations,    \* what they are asked for
    MaxAsks,       \* bound: requests
    MaxCrashes     \* bound: restarts of the API

ASSUME BatchAssumption ==
    /\ NRows \in Nat /\ MaxAttempts \in Nat /\ MaxAsks \in Nat /\ MaxCrashes \in Nat
    /\ Operations \subseteq {"skip", "cancel", "rerun", "end", "delete"}
    /\ Users \cap {"listener", "loop"} = {}

ASSUME NoneAssumption ==
    None \notin Users \cup {"listener", "loop", "queued", "running", "waiting_for_human",
                            "succeeded", "failed", "cancelled", "deleted"}

Actors == Users \cup {"listener", "loop"}

\* The status of a Run may be "deleted" too.
VARIABLES
    cancelled,   \* Batch.cancelled_at is set
    row,         \* [Rows -> BatchRow.status]
    was,         \* the verdicts each Run has had: a history, nothing reads it
    txn,         \* [Actors -> the transaction at work]
    signals,     \* Runs whose terminal event is on its way to the listener
    asks, crashes

vars == <<cancelled, row, was, run, txn, signals, asks, crashes>>

(* lock: holds the Batch.  i, k: the row and attempt a request is about.   *)
(* seen, ran: the status of row i, and of its Run k, as first loaded, which *)
(* the ORM does not load again.  stop: start nothing, as cancelled_at was  *)
(* when loaded.  rows, runs: statuses to write; start: the row to start a  *)
(* Run for.                                                                *)
Txn == [op    : {"advance", "skip", "cancel", "rerun", "end"},
        stage : {"called", "read", "decided", "ended"},
        lock  : BOOLEAN,
        i     : Rows \cup {None},
        k     : 1 .. MaxAttempts \cup {None},
        seen  : BatchRowStatus \cup {None},
        ran   : NON_TERMINAL \cup Terminal \cup {"deleted", None},
        stop  : BOOLEAN,
        rows  : UNION {[S -> BatchRowStatus] : S \in SUBSET Rows},
        runs  : UNION {[S -> Terminal] : S \in SUBSET Runs},
        start : Rows \cup {None}]

Called(op, i, k) ==
    [op |-> op, stage |-> "called", lock |-> FALSE, i |-> i, k |-> k,
     seen |-> IF i = None THEN None ELSE row[i],
     ran |-> IF k = None THEN None ELSE run[<<i, k>>], stop |-> cancelled,
     rows |-> << >>, runs |-> << >>, start |-> None]

TypeOK ==
    /\ cancelled \in BOOLEAN
    /\ row \in [Rows -> BatchRowStatus]
    /\ was \in SUBSET (Runs \X Terminal)
    /\ run \in [Runs -> NON_TERMINAL \cup Terminal \cup {"deleted", None}]
    /\ txn \in [Actors -> Txn \cup {None}]
    /\ signals \in SUBSET Runs
    /\ asks \in Nat /\ crashes \in Nat

-----------------------------------------------------------------------------
(* Reading.  A transaction sees the committed Runs under its own writes.   *)

Seen(t) == [r \in Runs |-> IF r \in DOMAIN t.runs THEN t.runs[r] ELSE run[r]]

OpenRuns(view) == {r \in Runs : view[r] \in NON_TERMINAL}

AttemptsAt(i) == {k \in 1 .. MaxAttempts : run[<<i, k>>] \notin {None, "deleted"}}

\* latest_run: by queued_at.
HasRun(i) == AttemptsAt(i) # {}
latest_run(i) == <<i, Max(AttemptsAt(i))>>

\* Where the next attempt at a row is recorded; a deleted Run's place stays.
Unused(i) == {k \in 1 .. MaxAttempts : run[<<i, k>>] = None}
Fresh(i) == <<i, Min(Unused(i))>>

Queued(t) == {i \in Rows \ DOMAIN t.rows : row[i] = "queued"}

\* Nothing while the Batch is cancelled or a Run of it is open; else the first
\* queued row.
start_next_queued(t) ==
    IF t.stop \/ OpenRuns(Seen(t)) # {} \/ Queued(t) = {} THEN None ELSE Min(Queued(t))

\* The status a row, and a Run, has for the transaction that loaded it before.
Current(t, i) == IF t.i = i THEN t.seen ELSE row[i]
Loaded(t, r) == IF t.k # None /\ r = <<t.i, t.k>> THEN t.ran ELSE Seen(t)[r]

\* Mutant: the row keeps its status until a user looks at it.
ReflectNothing(t) == << >>

\* Mutant: the first attempt is looked at instead of the latest.
ReflectFirst(t) ==
    [i \in {j \in Rows : row[j] = "running" /\ Seen(t)[<<j, 1>>] \in Terminal} |->
        Seen(t)[<<i, 1>>]]

\* RUNNING rows whose latest Run has ended take its status.
reflect_running_rows(t) ==
    LET ended == {i \in Rows : /\ row[i] = "running" /\ HasRun(i)
                               /\ Loaded(t, latest_run(i)) \in Terminal
                               /\ Current(t, i) # "skipped"
                               /\ Current(t, i) # Loaded(t, latest_run(i))}
    IN [i \in ended |-> Loaded(t, latest_run(i))]

-----------------------------------------------------------------------------
(* Transactions.                                                           *)

Others(a) == {b \in Actors \ {a} : txn[b] # None}

LockFree(a) == \A b \in Others(a) : ~txn[b].lock

\* Rows and Runs an open transaction has updated are blocked for the others.
\* Updates are flushed in Decide; the reaper's Runs already were before.
RowsFree(a, S) ==
    \A b \in Others(a) : txn[b].stage = "decided" => S \cap DOMAIN txn[b].rows = {}
RunsFree(a, S) ==
    \A b \in Others(a) :
       txn[b].stage = "decided" \/ txn[b].op = "advance" => S \cap DOMAIN txn[b].runs = {}

Put(a, t) == txn' = [txn EXCEPT ![a] = t]

\* A start for which the bound on attempts leaves no place is not explored.
Room(start) == start # None => Unused(start) # {}

\* commit: the writes show; a started row gets its Run and is RUNNING.
Commit(a) ==
    LET t == txn[a]
        begun == {t.start} \ {None}
        started == {Fresh(i) : i \in begun}
    IN
    /\ t # None
    /\ t.stage = "decided"
    /\ Room(t.start)
    /\ RowsFree(a, DOMAIN t.rows \cup begun)
    /\ RunsFree(a, DOMAIN t.runs)
    /\ row' = [i \in Rows |-> IF i \in begun THEN "running"
                              ELSE IF i \in DOMAIN t.rows THEN t.rows[i] ELSE row[i]]
    /\ run' = [r \in Runs |-> IF r \in started THEN "queued"
                              ELSE Seen(t)[r]]
    /\ was' = was \cup {<<r, t.runs[r]>> : r \in DOMAIN t.runs}
    /\ cancelled' = (cancelled \/ t.op = "cancel")
    /\ Put(a, None)
    /\ UNCHANGED <<signals, asks, crashes>>

-----------------------------------------------------------------------------
(* reflect_and_advance.                                                    *)

\* listen_forever hands a terminal event to on_terminal_run.
OnTerminal(r) ==
    /\ r \in signals
    /\ txn["listener"] = None
    /\ signals' = signals \ {r}
    /\ IF run[r] \in Terminal
       THEN Put("listener", Called("advance", r[1], r[2]))
       ELSE UNCHANGED txn
    /\ UNCHANGED <<cancelled, row, was, run, asks, crashes>>

\* The lock, then reflect_running_rows.
Reflect(a) ==
    /\ txn[a] # None
    /\ txn[a].op = "advance" /\ txn[a].stage = "called"
    /\ LockFree(a)
    /\ LET t == [txn[a] EXCEPT !.stop = cancelled]
       IN Put(a, [t EXCEPT !.stage = "read", !.lock = TRUE, !.rows = reflect_running_rows(t)])
    /\ UNCHANGED <<cancelled, row, was, run, signals, asks, crashes>>

\* tick: reap_and_backstop fails Runs and advance_stalled_batches follows in
\* the same transaction, if a row is not settled.
Tick(reaped) ==
    LET t == [Called("advance", None, None) EXCEPT !.stage = "read", !.lock = TRUE,
                                                   !.runs = [r \in reaped |-> "failed"]]
    IN
    /\ txn["loop"] = None
    /\ LockFree("loop")
    /\ reaped # {} \/ \E i \in Rows : row[i] \in {"queued", "running"}
    /\ \A r \in reaped : run[r] \in {"running", "waiting_for_human"}
    /\ RunsFree("loop", reaped)
    /\ Put("loop", [t EXCEPT !.rows = reflect_running_rows(t)])
    /\ UNCHANGED <<cancelled, row, was, run, signals, asks, crashes>>

\* The statuses to write are flushed, then start_next_queued.  A Run deleted
\* meanwhile is not there to write to: the transaction fails.
Decide(a) ==
    /\ txn[a] # None
    /\ txn[a].stage = "read"
    /\ RowsFree(a, DOMAIN txn[a].rows)
    /\ RunsFree(a, DOMAIN txn[a].runs)
    /\ LET start == start_next_queued(txn[a])
       IN IF \E r \in DOMAIN txn[a].runs : run[r] = "deleted" THEN Put(a, None)
          ELSE Room(start) /\ Put(a, [txn[a] EXCEPT !.stage = "decided", !.start = start])
    /\ UNCHANGED <<cancelled, row, was, run, signals, asks, crashes>>

-----------------------------------------------------------------------------
(* The requests.                                                           *)

Ask(u, op) ==
    /\ op \in Operations
    /\ txn[u] = None
    /\ asks < MaxAsks
    /\ asks' = asks + 1

\* skip_batch_row reads; Decide and Commit follow, with no lock on the Batch.
skip_batch_row(u, i) ==
    /\ Ask(u, "skip")
    /\ HasRun(i)
    /\ run[latest_run(i)] = "waiting_for_human"
    /\ Put(u, [Called("skip", i, latest_run(i)[2]) EXCEPT
                 !.stage = "read",
                 !.rows = [j \in {i} |-> "skipped"],
                 !.runs = [r \in {latest_run(i)} |-> "cancelled"]])
    /\ UNCHANGED <<cancelled, row, was, run, signals, crashes>>

\* cancel_current: a Run that is not being executed is closed, one that is
\* is asked to stop.
Cancels(i) == IF HasRun(i) /\ run[latest_run(i)] \in {"queued", "waiting_for_human"}
              THEN {latest_run(i)} ELSE {}

cancel_batch(u) ==
    LET active == {i \in Rows : row[i] = "running"}
        gone == {i \in active : ~HasRun(i) \/ run[latest_run(i)] # "running"}
        queued == {i \in Rows : row[i] = "queued"}
    IN
    /\ Ask(u, "cancel")
    /\ ~cancelled => LockFree(u)
    /\ Put(u, [Called("cancel", None, None) EXCEPT
                 !.stage = "read", !.lock = ~cancelled, !.stop = TRUE,
                 !.rows = [i \in queued \cup gone |-> "cancelled"],
                 !.runs = [r \in UNION {Cancels(i) : i \in active} |-> "cancelled"]])
    /\ UNCHANGED <<cancelled, row, was, run, signals, crashes>>

rerun_batch_row(u, i) ==
    /\ Ask(u, "rerun")
    /\ row[i] \in {"failed", "skipped"}
    /\ Put(u, Called("rerun", i, None))
    /\ UNCHANGED <<cancelled, row, was, run, signals, crashes>>

\* Mutant: the check made before the lock is taken for the one under it.
RerunUnlocked(u) ==
    /\ txn[u] # None
    /\ txn[u].op = "rerun" /\ txn[u].stage = "called"
    /\ Room(txn[u].i)
    /\ Put(u, IF OpenRuns(run) # {} THEN None
              ELSE [txn[u] EXCEPT !.stage = "decided", !.start = txn[u].i])
    /\ UNCHANGED <<cancelled, row, was, run, signals, asks, crashes>>

\* The rest of it under the lock: 409 while a Run of the Batch is open.
RerunLocked(u) ==
    /\ txn[u] # None
    /\ txn[u].op = "rerun" /\ txn[u].stage = "called"
    /\ LockFree(u)
    /\ Room(txn[u].i)
    /\ Put(u, IF OpenRuns(run) # {} THEN None
              ELSE [txn[u] EXCEPT !.stage = "decided", !.lock = TRUE, !.start = txn[u].i])
    /\ UNCHANGED <<cancelled, row, was, run, signals, asks, crashes>>

\* cancel_run of a Run no Worker executes, or abandon_takeover: the Run is
\* read, without a lock on it ...
EndRun(u, r, status) ==
    /\ Ask(u, "end")
    /\ \/ run[r] \in {"queued", "waiting_for_human"} /\ status = "cancelled"
       \/ run[r] = "waiting_for_human" /\ status = "failed"
    /\ Put(u, [Called("end", r[1], r[2]) EXCEPT !.runs = [q \in {r} |-> status]])
    /\ UNCHANGED <<cancelled, row, was, run, signals, crashes>>

\* ... and written by its key, whatever became of it: a Worker may have
\* claimed it, and it may have its verdict already.
EndCommit(u) ==
    LET t == txn[u]
        r == <<t.i, t.k>>
    IN
    /\ t # None
    /\ t.op = "end" /\ t.stage = "called"
    /\ RunsFree(u, {r})
    /\ IF run[r] = "deleted" THEN Put(u, None) /\ UNCHANGED <<was, run>>
       ELSE /\ run' = [run EXCEPT ![r] = t.runs[r]]
            /\ was' = was \cup {<<r, t.runs[r]>>}
            /\ Put(u, [t EXCEPT !.stage = "ended", !.runs = << >>])
    /\ UNCHANGED <<cancelled, row, signals, asks, crashes>>

\* advance_batch_after reads the Run anew and calls on_terminal_run.
advance_batch_after(u) ==
    LET t == txn[u] IN
    /\ t # None
    /\ t.op = "end" /\ t.stage = "ended"
    /\ Put(u, IF run[<<t.i, t.k>>] \in Terminal THEN Called("advance", t.i, t.k) ELSE None)
    /\ UNCHANGED <<cancelled, row, was, run, signals, asks, crashes>>

delete_run(u, r) ==
    /\ Ask(u, "delete")
    /\ run[r] \in Terminal
    /\ RunsFree(u, {r})
    /\ run' = [run EXCEPT ![r] = "deleted"]
    /\ UNCHANGED <<cancelled, row, was, txn, signals, crashes>>

-----------------------------------------------------------------------------
(* The Runs as RunPromise has them, and the API's process.                 *)

\* The terminal event is published once; it may be lost.
WorkerMoves(r, status) ==
    /\ RunsFree(None, {r})
    /\ \/ run[r] = "queued" /\ status = "running"
       \/ run[r] = "running" /\ status \in {"waiting_for_human"} \cup Terminal
       \/ run[r] = "waiting_for_human" /\ status = "running"
    /\ run' = [run EXCEPT ![r] = status]
    /\ was' = was \cup ({<<r, status>>} \cap (Runs \X Terminal))
    /\ signals' \in (IF status \in Terminal THEN {signals, signals \cup {r}} ELSE {signals})
    /\ UNCHANGED <<cancelled, row, txn, asks, crashes>>

\* A restart rolls every transaction back; nobody hears what is published.
ApiCrash ==
    /\ crashes < MaxCrashes
    /\ crashes' = crashes + 1
    /\ txn' = [a \in Actors |-> None]
    /\ signals' = {}
    /\ UNCHANGED <<cancelled, row, was, run, asks>>

-----------------------------------------------------------------------------

\* create_batch: incomplete rows are skipped, the first of the others has
\* its Run.
Init ==
    \E incomplete \in SUBSET Rows :
       LET first == {i \in Rows \ incomplete : \A j \in Rows \ incomplete : i <= j} IN
       /\ row = [i \in Rows |-> IF i \in incomplete THEN "skipped"
                                ELSE IF i \in first THEN "running" ELSE "queued"]
       /\ run = [r \in Runs |-> IF r[1] \in first /\ r[2] = 1 THEN "queued" ELSE None]
       /\ cancelled = FALSE /\ was = {}
       /\ txn = [a \in Actors |-> None]
       /\ signals = {}
       /\ asks = 0 /\ crashes = 0

Next ==
    \/ \E r \in Runs : OnTerminal(r)
    \/ \E a \in Actors : Reflect(a) \/ Decide(a) \/ Commit(a)
    \/ \E S \in SUBSET Runs : Tick(S)
    \/ \E u \in Users :
          \/ \E i \in Rows : skip_batch_row(u, i) \/ rerun_batch_row(u, i)
          \/ cancel_batch(u)
          \/ RerunLocked(u) \/ EndCommit(u) \/ advance_batch_after(u)
          \/ \E r \in Runs : delete_run(u, r) \/ \E s \in Terminal : EndRun(u, r, s)
    \/ \E r \in Runs : \E s \in NON_TERMINAL \cup Terminal : WorkerMoves(r, s)
    \/ ApiCrash

Spec == Init /\ [][Next]_vars

(* Transactions end, the minute loop ticks, and a Run ends however often   *)
(* it waits for a person (RunLifecycle's EveryRunEnds).  No terminal event *)
(* need ever arrive.                                                       *)
Ends(r) == \E s \in Terminal : WorkerMoves(r, s)
Settle == Tick({})
Fairness ==
    /\ \A a \in Actors : WF_vars(Reflect(a)) /\ WF_vars(Decide(a)) /\ WF_vars(Commit(a))
    /\ \A u \in Users : /\ WF_vars(RerunLocked(u))
                      /\ WF_vars(EndCommit(u)) /\ WF_vars(advance_batch_after(u))
    /\ WF_vars(Settle)
    /\ \A r \in Runs : WF_vars(WorkerMoves(r, "running")) /\ SF_vars(Ends(r))

FairSpec == Spec /\ Fairness

-----------------------------------------------------------------------------
(* Properties.                                                             *)

(* "at no point are two of the Batch's Runs non-terminal".                 *)
OneOpenRun == \A r, s \in OpenRuns(run) : r = s

(* "Row status follows the latest attempt": a row says succeeded or failed *)
(* only of its newest attempt, deleted ones aside, which is closed and had *)
(* that verdict.  It need not have it still: that Run may be deleted, and  *)
(* a cancel or an abandon that read it before it ended is written over its *)
(* verdict (EndCommit), which no row follows.                              *)
RowFollowsLatest ==
    \A i \in Rows : row[i] \in {"succeeded", "failed"} =>
       \E k \in 1 .. MaxAttempts :
          /\ <<<<i, k>>, row[i]>> \in was
          /\ run[<<i, k>>] \in Terminal \cup {"deleted"}
          /\ \A j \in 1 .. MaxAttempts : j > k => run[<<i, j>>] \in {None, "deleted"}

(* Rows are settled one after the other, whatever terminal events are lost *)
(* and however often the API restarts: in the end no row is left queued or *)
(* running.                                                                *)
Settled == \A i \in Rows : row[i] \notin {"queued", "running"}
BatchDrains == <>[]Settled
=============================================================================

------------------------------- MODULE RunRow -------------------------------
(***************************************************************************)
(* One row of the `runs` table together with its Step Results, and every   *)
(* statement the system executes on it, each as a function from the row    *)
(* before to the row after.                                                *)
(*                                                                         *)
(* Two kinds of writer share the row.  The Worker (apps/worker store.py)   *)
(* issues conditional SQL: an UPDATE whose WHERE names the status it       *)
(* expects, so it changes nothing when the status has moved on.  The API   *)
(* (apps/api runs/routes.py) loads the row through the ORM without a lock, *)
(* decides, and later flushes an UPDATE by primary key that names only the *)
(* columns whose value differs from the one it loaded.  Such an operator   *)
(* takes `seen', the row as loaded, next to `x', the row as it is when the *)
(* UPDATE reaches it.                                                      *)
(*                                                                         *)
(* Timestamps are reduced to what the code asks of them: whether a request *)
(* column is set, whether the sign of life that counts in the row's status *)
(* is too old (quiet), whether the takeover deadline has passed (overdue). *)
(***************************************************************************)
EXTENDS Naturals

CONSTANTS
    Workers,      \* Worker identities
    Sessions,     \* browser sessions of signed-in users
    NSteps,       \* Steps of the executed document
    None          \* SQL NULL

ASSUME NStepsAssumption == NSteps \in Nat

Steps == 0 .. NSteps - 1

Live == {"running", "waiting_for_human"}
NON_TERMINAL == {"queued"} \cup Live
Terminal == {"succeeded", "failed", "cancelled"}
RunStatus == NON_TERMINAL \cup Terminal

\* "absent": not inserted yet; "deleted": removed by delete_run.
RowStatus == RunStatus \cup {"absent", "deleted"}

\* "step_failed" also stands for auth_challenge, which failure_reason_for picks
\* from the same outcome.
FailureReason ==
    {"step_failed", "missing_secret", "startup_failed", "run_timeout",
     "worker_lost", "takeover_timeout", "takeover_abandoned"}

StepResultStatus == {"passed", "failed", "skipped"}

ASSUME NoneAssumption ==
    None \notin Workers /\ None \notin Sessions /\ None \notin StepResultStatus

Results == [Steps -> StepResultStatus \cup {None}]

Row == [status   : RowStatus,
        worker   : Workers \cup {None},
        reason   : FailureReason \cup {None},
        cancel   : BOOLEAN,                     \* cancel_requested_at is set
        pause    : BOOLEAN,                     \* pause_requested_at is set
        holder   : Sessions \cup {None},        \* takeover_holder_session_id
        handback : BOOLEAN,                     \* handback_requested_at is set
        auto     : BOOLEAN,                     \* not auto_handback_disabled
        quiet    : BOOLEAN,
        overdue  : BOOLEAN,
        results  : Results]

NoResults == [p \in Steps |-> None]

(* The row workflow_to_run builds; Absent and Deleted are the two ways of  *)
(* not having one.                                                         *)
NewRow ==
    [status |-> "queued", worker |-> None, reason |-> None,
     cancel |-> FALSE, pause |-> FALSE, holder |-> None, handback |-> FALSE,
     auto |-> TRUE, quiet |-> FALSE, overdue |-> FALSE, results |-> NoResults]

Absent == [NewRow EXCEPT !.status = "absent"]
Deleted == [NewRow EXCEPT !.status = "deleted"]

-----------------------------------------------------------------------------
(* The Worker's conditional statements.                                    *)

\* Mutant: the claim's WHERE forgets that a Worker already has the Run.
ClaimableTwice(x) == x.status \in {"queued", "running"}

Claimable(x) == x.status = "queued"

claim(x, w) ==
    IF Claimable(x)
    THEN [x EXCEPT !.status = "running", !.worker = w, !.quiet = FALSE]
    ELSE x

\* takeover_holder_session_id is not among the columns park resets.
park(x) ==
    IF x.status = "running"
    THEN [x EXCEPT !.status = "waiting_for_human", !.overdue = FALSE,
                   !.pause = FALSE, !.handback = FALSE, !.auto = TRUE,
                   !.quiet = FALSE]
    ELSE x

\* Mutant: the UPDATE without its WHERE status.
ResumeAnyway(x) == [x EXCEPT !.status = "running", !.holder = None]

\* Mutant: the Run goes on and the holder stays.
ResumeHeld(x) ==
    IF x.status = "waiting_for_human"
    THEN [x EXCEPT !.status = "running", !.handback = FALSE, !.auto = TRUE, !.quiet = FALSE]
    ELSE x

resume(x) ==
    IF x.status = "waiting_for_human"
    THEN [x EXCEPT !.status = "running", !.holder = None, !.handback = FALSE,
                   !.auto = TRUE, !.quiet = FALSE]
    ELSE x

release_holder(x) ==
    IF x.status = "waiting_for_human"
    THEN [x EXCEPT !.holder = None, !.handback = FALSE, !.auto = TRUE,
                   !.quiet = FALSE]
    ELSE x

finish_run(x, status, reason) ==
    IF x.status = "running"
    THEN [x EXCEPT !.status = status, !.reason = reason, !.quiet = FALSE]
    ELSE x

\* INSERT INTO step_results: fails on the foreign key when the Run is gone and
\* on UNIQUE (run_id, position) when the position already has a result.
CanInsert(x, p) == x.status \in RunStatus /\ x.results[p] = None
add_result(x, p, status) == [x EXCEPT !.results[p] = status]

\* POST /internal/runs/{id}/heartbeat answers 409 unless the Run is live.
IsLive(x) == x.status \in Live /\ x.worker # None
heartbeat(x) == [x EXCEPT !.quiet = FALSE]

-----------------------------------------------------------------------------
(* Closing a Run from the API side (runs/reap.py).                         *)

\* Mutant: one position too many.
SkipPastEnd(x) ==
    [x EXCEPT !.results =
        [p \in 0 .. NSteps |-> IF p = NSteps \/ x.results[p] = None THEN "skipped"
                                                                 ELSE x.results[p]]]

skip_unreached(x) ==
    [x EXCEPT !.results =
        [p \in Steps |-> IF x.results[p] = None THEN "skipped"
                                                 ELSE x.results[p]]]

fail_paused_and_skip_rest(x) ==
    [x EXCEPT !.results =
        [p \in Steps |->
            IF x.results[p] # None THEN x.results[p]
            ELSE IF \A q \in Steps : q < p => x.results[q] # None
                 THEN "failed" ELSE "skipped"]]

close_waiting_run(seen, x, status, reason, fail_paused) ==
    LET closed == [x EXCEPT !.status = status,
                            !.reason = IF reason = seen.reason THEN @ ELSE reason,
                            !.holder = IF seen.holder = None THEN @ ELSE None]
    IN  IF fail_paused THEN fail_paused_and_skip_rest(closed)
                       ELSE skip_unreached(closed)

\* Mutant: the unreached Steps are forgotten.
FailOnly(x) == [x EXCEPT !.status = "failed", !.reason = "worker_lost"]

fail_worker_lost(x) ==
    skip_unreached([x EXCEPT !.status = "failed", !.reason = "worker_lost"])

reap_lost_workers(x) ==
    IF x.status \in Live /\ x.quiet THEN fail_worker_lost(x) ELSE x

\* Mutant: nobody watches the deadline.
NoDeadline(x) == x

reap_takeover_deadlines(x) ==
    IF x.status = "waiting_for_human" /\ x.overdue
    THEN close_waiting_run(x, x, "failed", "takeover_timeout", TRUE)
    ELSE x

\* One tick's transaction on one row: both reapers, in this order.
reap(x) == reap_takeover_deadlines(reap_lost_workers(x))

\* Mutant: no backstop.
NoBackstop(x) == FALSE

queued_without_a_worker(x) == x.status = "queued" /\ x.worker = None /\ x.quiet

-----------------------------------------------------------------------------
(* The API handlers of runs/routes.py: whether the loaded row lets the     *)
(* handler go on, and what its UPDATE does to the row it finds.            *)

Ops == {"cancel", "pause", "take", "hold", "unhold", "handback", "abandon", "delete"}

\* What a handler keeps of the row it loaded: the columns it later compares with.
Loaded(x) == [x EXCEPT !.worker = None, !.cancel = FALSE, !.quiet = FALSE,
                       !.overdue = FALSE, !.results = NoResults]

Accepts(op, seen, s) ==
    CASE op \in {"cancel", "pause"} -> seen.status \in NON_TERMINAL
      [] op = "take"     -> seen.status = "waiting_for_human"
                            /\ seen.holder \in {None, s}
      [] op \in {"hold", "unhold", "handback"} -> seen.status = "waiting_for_human"
                                                  /\ seen.holder = s
      [] op = "abandon"  -> seen.status = "waiting_for_human"
      [] op = "delete"   -> seen.status \in Terminal

cancel_run(seen, x) ==
    CASE seen.status = "queued" -> [x EXCEPT !.status = "cancelled"]
      [] seen.status = "waiting_for_human" ->
            close_waiting_run(seen, x, "cancelled", None, FALSE)
      [] OTHER -> [x EXCEPT !.cancel = TRUE]

pause_run(seen, x) == IF seen.pause THEN x ELSE [x EXCEPT !.pause = TRUE]

take_over_run(seen, x, s) ==
    IF seen.holder = s THEN x ELSE [x EXCEPT !.holder = s]

\* "hold" asks for auto_handback = false, "unhold" for true.
hold_takeover(seen, x, op) ==
    CASE op = "hold" /\ seen.auto -> [x EXCEPT !.auto = FALSE]
      [] op = "unhold" /\ ~seen.auto -> [x EXCEPT !.auto = TRUE]
      [] OTHER -> x

\* Mutant: control is given up before the Worker has verified.
HandBackReleases(seen, x) == [x EXCEPT !.handback = TRUE, !.holder = None]

hand_back_run(seen, x) ==
    IF seen.handback THEN x ELSE [x EXCEPT !.handback = TRUE]

abandon_takeover(seen, x) ==
    close_waiting_run(seen, x, "failed", "takeover_abandoned", TRUE)

\* An UPDATE of a row another handler deleted matches nothing; the ORM raises.
Write(op, seen, x, s) ==
    IF x.status \notin RunStatus THEN x
    ELSE CASE op = "cancel"   -> cancel_run(seen, x)
           [] op = "pause"    -> pause_run(seen, x)
           [] op = "take"     -> take_over_run(seen, x, s)
           [] op \in {"hold", "unhold"} -> hold_takeover(seen, x, op)
           [] op = "handback" -> hand_back_run(seen, x)
           [] op = "abandon"  -> abandon_takeover(seen, x)
           [] op = "delete"   -> Deleted

-----------------------------------------------------------------------------
(* What a row looks like once it ended, and what any write may do to it.   *)

\* A verdict is backed by the Step Results.
Backed(x) ==
    /\ x.status \in {"succeeded", "failed"} => \A p \in Steps : x.results[p] # None
    /\ x.status = "succeeded" => \A p \in Steps : x.results[p] # "failed"

\* No write takes a Run back to queued or reopens an ended one, and short of
\* deleting the Run none changes a Step Result that is there.
Grows(x, y) ==
    /\ x.status \notin {"absent", "queued"} => y.status \notin {"absent", "queued"}
    /\ x.status \in Terminal \cup {"deleted"} => y.status \in Terminal \cup {"deleted"}
    /\ y.status # "deleted" /\ x.status # "absent" =>
         /\ x.status # "deleted"
         /\ \A p \in Steps : x.results[p] # None => y.results[p] = x.results[p]
=============================================================================

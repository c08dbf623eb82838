----------------------------- MODULE BatchBase -----------------------------
(***************************************************************************)
(* What BatchAdvance and BatchView share of a Batch: its rows, the Runs    *)
(* that are attempts at them (batches/models.py), and the statuses of      *)
(* both.                                                                   *)
(***************************************************************************)
EXTENDS Naturals

CONSTANTS
    NRows,         \* rows of the Batch
    MaxAttempts,   \* bound: Runs of one row
    None

Rows == 0 .. NRows - 1
Runs == Rows \X (1 .. MaxAttempts)

BatchRowStatus == {"queued", "running", "succeeded", "failed", "skipped", "cancelled"}
NON_TERMINAL == {"queued", "running", "waiting_for_human"}
Terminal == {"succeeded", "failed", "cancelled"}

VARIABLE
    run          \* [Runs -> Run.status, or None before the Run is queued]
=============================================================================

---------------------------- MODULE MCBatchView ----------------------------
(* Instances of BatchView for TLC: what may happen is split over several   *)
(* budgets, so that their state spaces add up instead of multiplying.      *)
EXTENDS BatchView

B(ops, asks, kinds, troubles, ends, parks, drifts) ==
    [ops |-> ops, asks |-> asks, kinds |-> kinds, troubles |-> troubles,
     ends |-> ends, parks |-> parks, drifts |-> drifts]

\* A row that waits for a person; a failed row run again; a Batch cancelled, also
\* twice; rows filled after a Version was published; a stream and loads that fail.
MCBudgets ==
    {B({"skip", "take"}, 1, {"emit"}, 1, {"succeeded"}, TRUE, FALSE),
     B({"rerun"}, 1, {"answer"}, 1, {"failed"}, FALSE, FALSE),
     B({"cancel"}, 2, {}, 0, {"succeeded"}, FALSE, FALSE),
     B({"cancel", "fill"}, 1, {}, 0, {"succeeded"}, FALSE, TRUE),
     B({"fill"}, 1, {"stream"}, 1, {"succeeded"}, FALSE, TRUE),
     B({"cancel"}, 1, {"stream", "load"}, 2, {"failed"}, FALSE, FALSE)}
=============================================================================

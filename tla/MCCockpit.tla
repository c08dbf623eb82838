----------------------------- MODULE MCCockpit -----------------------------
(* Instances of Cockpit for TLC: what may happen is split over several     *)
(* budgets, so that their state spaces add up instead of multiplying.      *)
EXTENDS Cockpit

B(ops, asks, kinds, troubles, visits, vnc) ==
    [ops |-> ops, asks |-> asks, kinds |-> kinds, troubles |-> troubles,
     visits |-> visits, vnc |-> vnc]

\* Control and its pane; control and its choices; a stream and loads that fail; a
\* Worker that falls silent; a page that is opened again; a cancel; a pause asked
\* for over a challenge.
MCBudgets ==
    {B({"take"}, 1, {"answer", "ticket"}, 1, 1, TRUE),
     B({"take", "handback", "hold", "abandon"}, 2, {}, 0, 1, FALSE),
     B({}, 0, {"stream", "load"}, 2, 1, FALSE),
     B({}, 0, {"worker"}, 1, 1, FALSE),
     B({}, 0, {}, 0, 2, FALSE),
     B({"cancel"}, 1, {}, 0, 1, FALSE),
     B({"pause"}, 1, {}, 0, 1, FALSE)}
=============================================================================

----------------------------- MODULE RunEvents -----------------------------
(***************************************************************************)
(* What the cockpit of one Run keeps and shows: the events a Worker        *)
(* publishes, how a snapshot is made of a REST answer and reduced by each  *)
(* event (apps/web runs/[id]/events.ts), and which pane, card, bar and     *)
(* buttons a snapshot yields (pane.ts, pane-panel.tsx, presentation.ts).   *)
(*                                                                         *)
(* Times are left out: an interval is its kind, a log line its seq.        *)
(* "artifact" events, which the reducer ignores, are left out too.         *)
(***************************************************************************)
EXTENDS RunRow, Sequences

Phase == {"automation", "waiting", "human", "verifying"}

RunEvent ==
    [type : {"step.started"}, step : Steps]
    \cup [type : {"step.finished"}, step : Steps, status : StepResultStatus]
    \cup [type : {"run.status"}, status : Terminal]
    \cup [type : {"control"}, phase : Phase]
    \cup [type : {"log"}, seq : Nat]
    \cup [type : {"predicate"}, met : BOOLEAN, grace : BOOLEAN]
    \cup [type : {"diagnostic"}, step : Steps]

\* phase: kind of the last control interval; met and grace: predicate.
CockpitSnapshot ==
    [status      : RunStatus,
     cancel      : BOOLEAN,
     pause       : BOOLEAN,
     auto        : BOOLEAN,
     results     : Results,
     phase       : Phase \cup {None},
     logs        : Seq(Nat),
     inFlight    : Steps \cup {None},
     met         : BOOLEAN \cup {None},
     grace       : BOOLEAN,
     diagnostics : SUBSET Steps]

isTerminal(status) == status \in Terminal

\* getRun's answer x, with the kind of its last interval, and listRunLogs'.
snapshotFromDetail(x, phase, logs) ==
    [status |-> x.status, cancel |-> x.cancel, pause |-> x.pause, auto |-> x.auto,
     results |-> x.results, phase |-> phase, logs |-> logs,
     inFlight |-> None, met |-> None, grace |-> FALSE, diagnostics |-> {}]

appendDiagnostic(s, e) == [s EXCEPT !.diagnostics = @ \cup {e.step}]

\* Mutant: a step without an error code counts as passed; the event has none.
FinishPassed(s, e) ==
    [s EXCEPT !.inFlight = IF @ = e.step THEN None ELSE @,
              !.results[e.step] = IF e.status = "failed" THEN "passed" ELSE e.status]

finishStep(s, e) ==
    [s EXCEPT !.inFlight = IF @ = e.step THEN None ELSE @,
              !.results[e.step] = e.status]

\* Mutant: the phase is taken for the status.
PhaseAsStatus(s, e) == [s EXCEPT !.status = e.phase, !.phase = e.phase]

\* status stays what it was.
shiftControl(s, e) ==
    [s EXCEPT !.phase = e.phase,
              !.met = IF e.phase = "automation" THEN None ELSE @,
              !.grace = IF e.phase = "automation" THEN FALSE ELSE @]

\* Mutant: the line is not looked for.
AppendAgain(s, e) == [s EXCEPT !.logs = Append(@, e.seq)]

appendLog(s, e) ==
    IF \E i \in DOMAIN s.logs : s.logs[i] = e.seq THEN s
    ELSE [s EXCEPT !.logs = Append(@, e.seq)]

applyRunEvent(s, e) ==
    CASE e.type = "step.started"  -> [s EXCEPT !.inFlight = e.step]
      [] e.type = "step.finished" -> finishStep(s, e)
      [] e.type = "run.status"    -> [s EXCEPT !.inFlight = None, !.status = e.status]
      [] e.type = "control"       -> shiftControl(s, e)
      [] e.type = "log"           -> appendLog(s, e)
      [] e.type = "predicate"     -> [s EXCEPT !.met = e.met, !.grace = e.grace]
      [] e.type = "diagnostic"    -> appendDiagnostic(s, e)

-----------------------------------------------------------------------------
(* What a snapshot s shows, with the page's flags: hold (weHoldControl),   *)
(* unmet (unmetHandback) and elsewhere (heldElsewhere).                    *)

chipState(s) == IF s.cancel /\ ~isTerminal(s.status) THEN "cancelling" ELSE s.status

Cancelling(s) == chipState(s) = "cancelling"

currentPhase(s) == s.phase

\* show: what stands above the pane.
paneView(s, hold, unmet, elsewhere) ==
    IF Cancelling(s) \/ s.status = "queued" THEN [frame |-> "none", show |-> None]
    ELSE IF isTerminal(s.status) THEN [frame |-> "ended", show |-> None]
    ELSE IF s.status = "running" THEN [frame |-> "view_only", show |-> None]
    ELSE [frame |-> IF hold /\ ~unmet THEN "interactive" ELSE "view_only",
          show  |-> IF unmet THEN "unmet choice" ELSE IF hold THEN "control bar"
                    ELSE IF elsewhere THEN "held note"
                    ELSE IF currentPhase(s) = "verifying" THEN None ELSE "waiting card"]

\* PredicateLine: only of a pause Step with a success check.
predicateLine(s, hasCheck, controlling) ==
    LET met == hasCheck /\ s.met = TRUE
        open == met /\ controlling /\ s.auto /\ s.grace
    IN  [offerStay |-> open, offerHandBackNow |-> met /\ controlling]

\* The pause Step the Run waits at: the one in flight, else the next one left.
waitingStep(s, pauses) ==
    IF s.inFlight # None THEN IF s.inFlight \in pauses THEN s.inFlight ELSE None
    ELSE LET left == {p \in pauses : s.results[p] = None}
         IN  IF left = {} THEN None ELSE CHOOSE p \in left : \A q \in left : p <= q

\* Banners of challenge diagnostics the person has not dismissed.
challengeBanners(s, dismissed) ==
    IF s.status = "running" /\ ~Cancelling(s) THEN s.diagnostics \ dismissed ELSE {}
=============================================================================

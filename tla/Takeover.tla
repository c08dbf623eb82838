------------------------------ MODULE Takeover ------------------------------
(***************************************************************************)
(* One Run between automation and people: the executor's Step loop and its *)
(* parking loop (executor.py), the ControlWatch that merges the row with   *)
(* pub/sub hints (control.py), and the request handlers that write the row *)
(* and then publish the hint (runs/routes.py).                             *)
(*                                                                         *)
(* The row is the one of RunRow.  A hint is published after the commit and *)
(* may be late or lost.  What the executor writes to the row, to the       *)
(* timeline of control intervals and to its clock are steps of their own.  *)
(* Step Results are left to RunLifecycle; here a Step either goes on or is *)
(* interrupted.                                                            *)
(***************************************************************************)
EXTENDS RunRow

CONSTANTS
    TakeoverSteps,   \* positions of enabled pause-for-takeover Steps
    CheckedSteps,    \* those of them whose payload has a success check
    MaxAsks          \* bound: requests made of the API

ASSUME TakeoverStepsAssumption ==
    TakeoverSteps \subseteq Steps /\ CheckedSteps \subseteq TakeoverSteps

\* NULL is none of the kinds of control interval.
ASSUME KindsAssumption == None \notin {"automation", "waiting", "human", "verifying"}

VARIABLES
    x,         \* the Run's row
    exec,      \* the executor
    heard,     \* hints ControlWatch remembers: _heard_cancel, _pause, _handback
    hints,     \* hints published and not delivered
    handler,   \* [Sessions -> the request of that session in flight]
    late,      \* the holder was written when the Run did not wait any more
    asks

vars == <<x, exec, heard, hints, handler, late, asks>>

Hints == {"cancel", "pause", "handback"}
Asks == Ops \ {"delete"}

(* pc as in RunLifecycle, with parking in detail: "leaving" and "entering" *)
(* automation; "releasing" and "reopening" after a verdict that is unmet,  *)
(* "resuming" after one that is met; "closing" before the Run is finished. *)
(* phase, grace: locals of park_for_human; grace says that grace_ends_at   *)
(* is set.  open: kind of the open control interval; clock: in_automation; *)
(* lost: the Event that the heartbeat thread sets.                         *)
Working == {"head", "ready", "act", "retry", "tail", "finish"}
Parking == {"parked", "verifying", "releasing", "reopening", "resuming"}

Exec == [pc    : Working \cup Parking
                   \cup {"leaving", "entering", "closing", "gone", "dead"},
         pos   : Nat,
         back  : {"ready", "retry", "next", "takeover", None},
         phase : {"waiting", "human", None},
         grace : BOOLEAN,
         open  : {"automation", "waiting", "human", "verifying", None},
         clock : BOOLEAN,
         lost  : BOOLEAN,
         status : {"succeeded", "cancelled"}]

Request == [op : Asks, seen : Row, stage : {"read", "publish"}]

TypeOK ==
    /\ x \in Row
    /\ exec \in Exec
    /\ heard \in SUBSET Hints
    /\ hints \in SUBSET Hints
    /\ handler \in [Sessions -> Request \cup {None}]
    /\ late \in BOOLEAN
    /\ asks \in Nat

\* A Worker has just claimed the Run and begins to execute.
Init ==
    /\ \E w \in Workers : x = claim(NewRow, w)
    /\ exec = [pc |-> "head", pos |-> 0, back |-> None, phase |-> None,
               grace |-> FALSE, open |-> "automation", clock |-> TRUE,
               lost |-> FALSE, status |-> "succeeded"]
    /\ heard = {}
    /\ hints = {}
    /\ handler = [s \in Sessions |-> None]
    /\ late = FALSE
    /\ asks = 0

-----------------------------------------------------------------------------
(* The API's side.                                                         *)

Read(s, op) ==
    /\ handler[s] = None
    /\ asks < MaxAsks
    /\ x.status \in RunStatus
    /\ Accepts(op, x, s)
    /\ handler' = [handler EXCEPT ![s] = [op |-> op, seen |-> Loaded(x), stage |-> "read"]]
    /\ asks' = asks + 1
    /\ UNCHANGED <<x, exec, heard, hints, late>>

\* A cancel that closes the Run itself publishes nothing.
Publishes(h) ==
    \/ h.op \in {"pause", "handback"}
    \/ h.op = "cancel" /\ h.seen.status = "running"

\* take_over_run does not look again whether the Run still waits.
Commit(s) ==
    /\ handler[s] # None
    /\ handler[s].stage = "read"
    /\ x' = Write(handler[s].op, handler[s].seen, x, s)
    /\ late' = IF x'.holder = x.holder THEN late
               ELSE x'.holder # None /\ x.status # "waiting_for_human"
    /\ handler' = [handler EXCEPT ![s] =
          IF Publishes(handler[s]) THEN [handler[s] EXCEPT !.stage = "publish"] ELSE None]
    /\ UNCHANGED <<exec, heard, hints, asks>>

Publish(s) ==
    /\ handler[s] # None
    /\ handler[s].stage = "publish"
    /\ hints' = hints \cup {handler[s].op}
    /\ handler' = [handler EXCEPT ![s] = None]
    /\ UNCHANGED <<x, exec, heard, late, asks>>

\* takeover_deadline_at passes; a tick of the minute loop sees it.
GoesOverdue ==
    /\ x.status = "waiting_for_human" /\ ~x.overdue
    /\ x' = [x EXCEPT !.overdue = TRUE]
    /\ UNCHANGED <<exec, heard, hints, handler, late, asks>>

\* The tick; a dead Worker's row has gone quiet by then.
Tick ==
    LET y == IF exec.pc = "dead" THEN [x EXCEPT !.quiet = TRUE] ELSE x IN
    /\ reap(y) # y
    /\ x' = reap(y)
    /\ UNCHANGED <<exec, heard, hints, handler, late, asks>>

-----------------------------------------------------------------------------
(* ControlWatch.                                                           *)

\* The listening thread gets a message while execute runs.
Deliver(h) ==
    /\ h \in hints
    /\ hints' = hints \ {h}
    /\ heard' = IF exec.pc \in {"gone", "dead"} THEN heard ELSE heard \cup {h}
    /\ UNCHANGED <<x, exec, handler, late, asks>>

Drop(h) ==
    /\ h \in hints
    /\ hints' = hints \ {h}
    /\ UNCHANGED <<x, exec, heard, handler, late, asks>>

\* Mutant: the hint alone is believed.
PollHints(kind, column) == kind \in heard

\* poll: what is set in the row or was heard.
Asked(kind, column) == column \/ kind \in heard

\* poll forgets a heard hand-back when the row has one, or has no holder.
Polled == heard' = IF x.handback \/ x.holder = None THEN heard \ {"handback"} ELSE heard

\* Mutant: a hand-back whose hint was lost is not seen.
HandBackHinted == "handback" \in heard /\ x.holder # None

HandBackAsked ==
    Asked("handback", x.handback) /\ (x.handback \/ x.holder # None)

-----------------------------------------------------------------------------
(* The executor's Step loop.                                               *)

\* The row does not say any more that the Run is this Worker's to go on with.
Ended == x.status \notin Live

\* The heartbeat is answered 409; until then the executor goes on.
Beat ==
    /\ exec.pc \notin {"gone", "dead"}
    /\ Ended /\ ~exec.lost
    /\ exec' = [exec EXCEPT !.lost = TRUE]
    /\ UNCHANGED <<x, heard, hints, handler, late, asks>>

\* lost is looked at between Steps, after a Step, by each turn of the parking loop
\* and before the verdict.
LetGo ==
    /\ exec.pc \in {"head", "act", "retry", "tail", "parked", "finish"}
    /\ exec.lost
    /\ exec' = [exec EXCEPT !.pc = "gone", !.open = None]
    /\ UNCHANGED <<x, heard, hints, handler, late, asks>>

\* check_control: at the top of the loop, in a Step, after a Step.
Checks ==
    /\ exec.pc \in {"act", "retry", "tail"} \/ (exec.pc = "head" /\ exec.pos < NSteps)
    /\ ~exec.lost
    /\ Polled

CancelSeen ==
    /\ Checks
    /\ Asked("cancel", x.cancel)
    /\ exec' = [exec EXCEPT !.pc = "finish", !.status = "cancelled"]
    /\ UNCHANGED <<x, hints, handler, late, asks>>

\* park_for_human begins: leave_automation stops the clock and ends its interval,
\* and the waiting interval is opened.
Leave(back) ==
    /\ exec' = [exec EXCEPT !.pc = "leaving", !.back = back, !.open = "waiting",
                            !.clock = FALSE]
    /\ UNCHANGED x

PauseSeen ==
    /\ Checks
    /\ ~Asked("cancel", x.cancel)
    /\ Asked("pause", x.pause)
    /\ CASE exec.pc = "head"  -> Leave("ready")
         [] exec.pc = "act"   -> Leave("retry")
         [] exec.pc = "tail"  -> Leave("next")
         \* the retried execute_step has no except RunPaused around it
         [] exec.pc = "retry" -> exec' = [exec EXCEPT !.pc = "dead"] /\ UNCHANGED x
    /\ UNCHANGED <<hints, handler, late, asks>>

\* Nothing is asked for: the Step begins, or the next one is looked at.
GoOn ==
    /\ Checks
    /\ ~Asked("cancel", x.cancel) /\ ~Asked("pause", x.pause)
    /\ exec.pc \in {"head", "tail"}
    /\ exec' = IF exec.pc = "head" THEN [exec EXCEPT !.pc = "ready"]
               ELSE [exec EXCEPT !.pc = "head", !.pos = @ + 1]
    /\ UNCHANGED <<x, hints, handler, late, asks>>

\* The Step itself: a takeover Step parks first, any other acts.
BeginStep ==
    /\ exec.pc = "ready"
    /\ IF exec.pos \in TakeoverSteps
       THEN Leave("takeover")
       ELSE exec' = [exec EXCEPT !.pc = "act"] /\ UNCHANGED x
    /\ UNCHANGED <<heard, hints, handler, late, asks>>

EndStep ==
    /\ exec.pc \in {"act", "retry"}
    /\ exec' = [exec EXCEPT !.pc = "tail"]
    /\ UNCHANGED <<x, heard, hints, handler, late, asks>>

EndLoop ==
    /\ exec.pc = "head" /\ exec.pos >= NSteps
    /\ exec' = [exec EXCEPT !.pc = "finish"]
    /\ UNCHANGED <<x, heard, hints, handler, late, asks>>

\* The clock stops and the last interval ends; then the verdict is written.
Close ==
    /\ exec.pc = "finish"
    /\ ~exec.lost
    /\ exec' = [exec EXCEPT !.pc = "closing", !.open = None, !.clock = FALSE]
    /\ UNCHANGED <<x, heard, hints, handler, late, asks>>

Finish ==
    /\ exec.pc = "closing"
    /\ x' = finish_run(x, exec.status, None)
    /\ exec' = [exec EXCEPT !.pc = "gone"]
    /\ UNCHANGED <<heard, hints, handler, late, asks>>

-----------------------------------------------------------------------------
(* The parking loop.                                                       *)

\* Mutant: the row is not told.
ParkSilently ==
    /\ exec.pc = "leaving"
    /\ exec' = [exec EXCEPT !.pc = "parked", !.phase = "waiting", !.grace = FALSE]
    /\ UNCHANGED <<x, heard, hints, handler, late, asks>>

\* store.park, and the loop begins.
Park ==
    /\ exec.pc = "leaving"
    /\ x' = park(x)
    /\ exec' = [exec EXCEPT !.pc = "parked", !.phase = "waiting", !.grace = FALSE]
    /\ UNCHANGED <<heard, hints, handler, late, asks>>

HasCheck == exec.back = "takeover" /\ exec.pos \in CheckedSteps

\* One turn.  met: the success check resolves on the page right now; due: the
\* grace that an earlier turn started is over.
ParkTurn(met, due) ==
    LET phase == IF x.holder # None THEN "human" ELSE exec.phase
        running == exec.grace /\ phase = exec.phase /\ met
        grace == phase = "human" /\ met /\ x.auto
        verify == phase = "human" /\ (HandBackAsked \/ (running /\ x.auto /\ due))
    IN
    /\ exec.pc = "parked"
    /\ ~exec.lost
    /\ met => HasCheck
    /\ Polled
    /\ exec' = [exec EXCEPT !.phase = phase, !.grace = grace,
                            !.pc = IF verify THEN "verifying" ELSE "parked",
                            !.open = IF verify THEN "verifying" ELSE phase]
    /\ UNCHANGED <<x, hints, handler, late, asks>>

\* The verdict ends the verifying interval: unmet only where there is a check.
Verdict(met) ==
    /\ exec.pc = "verifying"
    /\ ~met => HasCheck
    /\ exec' = [exec EXCEPT !.pc = IF met THEN "resuming" ELSE "releasing", !.open = None]
    /\ UNCHANGED <<x, heard, hints, handler, late, asks>>

\* Whose holder is nobody is nobody's too late.
Frees == late' = (late /\ x'.holder # None)

\* Unmet: store.release_holder, then the waiting interval and the loop again.
Release ==
    /\ exec.pc = "releasing"
    /\ x' = release_holder(x)
    /\ Frees
    /\ exec' = [exec EXCEPT !.pc = "reopening"]
    /\ UNCHANGED <<heard, hints, handler, asks>>

Reopen ==
    /\ exec.pc = "reopening"
    /\ exec' = [exec EXCEPT !.pc = "parked", !.phase = "waiting", !.grace = FALSE,
                            !.open = "waiting"]
    /\ UNCHANGED <<x, heard, hints, handler, late, asks>>

\* Met, or nothing to check: store.resume, then enter_automation.
Resume ==
    /\ exec.pc = "resuming"
    /\ x' = resume(x)
    /\ Frees
    /\ exec' = [exec EXCEPT !.pc = "entering"]
    /\ UNCHANGED <<heard, hints, handler, asks>>

\* A Step a person completed is not performed.
Enter ==
    LET over == HasCheck \/ exec.back = "next" IN
    /\ exec.pc = "entering"
    /\ exec' = [exec EXCEPT
          !.pc = IF over THEN "head" ELSE IF exec.back = "takeover" THEN "act" ELSE exec.back,
          !.pos = IF over THEN @ + 1 ELSE @,
          !.back = None, !.phase = None, !.grace = FALSE,
          !.open = "automation", !.clock = TRUE]
    /\ UNCHANGED <<x, heard, hints, handler, late, asks>>

\* What the executor does of itself, its Steps and turns apart.
Progress ==
    \/ LetGo \/ CancelSeen \/ PauseSeen \/ GoOn \/ BeginStep \/ EndLoop \/ Close \/ Finish
    \/ Park \/ Release \/ Reopen \/ Resume \/ Enter
    \/ \E met \in BOOLEAN : Verdict(met)

Next ==
    \/ Progress \/ EndStep \/ Beat
    \/ \E met, due \in BOOLEAN : ParkTurn(met, due)
    \/ \E s \in Sessions : Commit(s) \/ Publish(s) \/ \E op \in Asks : Read(s, op)
    \/ \E h \in Hints : Deliver(h) \/ Drop(h)
    \/ GoesOverdue
    \/ Tick

Spec == Init /\ [][Next]_vars

(* The executor and the handlers run on while their process lives, its     *)
(* heartbeat beats, the minute loop ticks, and a Worker that died goes     *)
(* quiet.  Nothing is assumed of people, of the delivery of a hint, of the *)
(* deadline or of how long a Step takes.                                   *)
Fairness ==
    /\ WF_vars(Progress) /\ WF_vars(Beat)
    /\ WF_vars(\E met, due \in BOOLEAN : ParkTurn(met, due))
    /\ \A s \in Sessions : WF_vars(Commit(s)) /\ WF_vars(Publish(s))
    /\ WF_vars(Tick)

FairSpec == Spec /\ Fairness

-----------------------------------------------------------------------------
(* Properties.                                                             *)

(* The timeline tells who has control although row, interval and clock are *)
(* written one after the other: an automation interval is open, and the    *)
(* clock runs, exactly while the executor works, and never while the row   *)
(* says waiting; a parked executor's interval is that of its phase, and a  *)
(* human one is open only while a session holds control, unless the Run    *)
(* was ended from outside.                                                 *)
TimelineIsTrue ==
    /\ exec.pc \in Working => exec.open = "automation" /\ exec.clock
    /\ exec.pc \notin Working \cup {"dead", "gone"} => exec.open # "automation" /\ ~exec.clock
    /\ x.status = "waiting_for_human" => exec.open # "automation"
    /\ exec.pc = "parked" => exec.open = exec.phase
    /\ exec.open = "human" => x.holder # None \/ Ended

(* The executor works only while the row does not say waiting and parks    *)
(* only while it does not say running, also between its statement to the   *)
(* row and the next.  While it works a running Run has no holder, but one  *)
(* whose take_over_run had read the Run waiting and was committed when it  *)
(* waited no more: every holder of the park itself has lost control before *)
(* automation goes on.                                                     *)
RowFollowsExecutor ==
    /\ exec.pc \in Working \cup {"leaving", "entering", "closing"}
         => /\ x.status # "waiting_for_human"
            /\ x.status = "running" => x.holder = None \/ late
    /\ exec.pc \in Parking => x.status # "running"

(* A holder's hand-back written to the row is acted on although its hint   *)
(* may be lost, without waiting for the takeover deadline: "A dropped      *)
(* pub/sub message costs latency, never correctness."                      *)
HandsBack == x.status = "waiting_for_human" /\ x.handback /\ x.holder # None

HandBackHeard == HandsBack ~> ~HandsBack

(* A cancel written to the row of a running Run ends it although its hint  *)
(* may be lost and however long its current Step would take.               *)
CancelHeard == x.status = "running" /\ x.cancel ~> x.status # "running"

(* What the row asks for is done although every hint may be lost: the row  *)
(* is read again on every poll, and hints only save time                   *)
(* (ControlWatch.poll).                                                    *)
RowIsHeard == HandBackHeard /\ CancelHeard
=============================================================================

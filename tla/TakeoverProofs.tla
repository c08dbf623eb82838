--------------------------- MODULE TakeoverProofs ---------------------------
(***************************************************************************)
(* Proofs about Takeover for any Sessions, Workers, Steps, takeover Steps  *)
(* and number of requests: the timeline tells who has control, and the     *)
(* executor works only while the row does not say waiting and, but for one *)
(* who came late, nobody has control.                                      *)
(*                                                                         *)
(* The invariant is one relation, Fits, between the executor and the row.  *)
(* Those who are not the executor write the row in a way, Outside, that    *)
(* keeps it; each step of the executor is shown to lead from a pair that   *)
(* fits to another.                                                        *)
(***************************************************************************)
EXTENDS Takeover, RunRowProofs

USE NoneAssumption DEF RowStatus, RunStatus, NON_TERMINAL, Live, Terminal

Backs == {"ready", "retry", "next", "takeover"}
Between == {"releasing", "reopening", "resuming", "entering", "closing"}

(* TimelineIsTrue and RowFollowsExecutor of an executor e, a row y and the *)
(* word l that the holder came late, and that one that parks knows where   *)
(* to go on and in which phase it is.                                      *)
Fits(e, y, l) ==
    /\ e.pc \in Working => e.open = "automation" /\ e.clock
    /\ e.pc \notin Working \cup {"dead", "gone"} => e.open # "automation" /\ ~e.clock
    /\ e.pc \in Working \cup {"leaving", "entering", "closing"} =>
         /\ y.status # "waiting_for_human"
         /\ y.status = "running" => y.holder = None \/ l
    /\ e.pc \in Parking => y.status # "running"
    /\ e.pc \in Parking \cup {"leaving", "entering"} => e.back \in Backs
    /\ e.pc = "parked" => e.phase \in {"waiting", "human"} /\ e.open = e.phase
    /\ e.pc = "leaving" => e.open = "waiting"
    /\ e.pc \in Between => e.open = None
    /\ y.status = "waiting_for_human" => e.open # "automation"
    /\ e.open = "human" => y.holder # None \/ y.status \notin Live

\* Only what Publishes lets through waits to be published.
ToPublish ==
    \A s \in Sessions :
        handler[s] # None /\ handler[s].stage = "publish" => handler[s].op \in Hints

Inv == TypeOK /\ ToPublish /\ Fits(exec, x, late)

\* What anybody but the executor may do to the row; a holder who comes when
\* the Run does not wait comes late.
Outside(y, z) ==
    /\ z \in Row
    /\ z.status = y.status \/ z.status \in Terminal
    /\ y.holder # None => z.holder # None \/ z.status \in Terminal

Lately(y, z, l, m) ==
    z.status = "running" => z.holder = None \/ m \/ (z.holder = y.holder /\ (l => m))

(* The invariant says what the two properties say.                         *)
LEMMA FitsSays == Inv => TimelineIsTrue /\ RowFollowsExecutor
  BY DEF Inv, Fits, TimelineIsTrue, RowFollowsExecutor, Ended, Working, Parking

(* A write from outside leaves what fitted fitting.                        *)
LEMMA OutsideFits ==
    ASSUME NEW e \in Exec, NEW y \in Row, NEW z \in Row, NEW l \in BOOLEAN, NEW m \in BOOLEAN,
           Fits(e, y, l), Outside(y, z), Lately(y, z, l, m)
    PROVE  Fits(e, z, m)
  BY DEF Fits, Outside, Lately

(* Any handler's UPDATE but a deletion: it ends the Run, or leaves its     *)
(* status and takes control from nobody (routes.py).                       *)
LEMMA WriteOutside ==
    ASSUME NEW op \in Asks, NEW seen \in Row, NEW y \in Row, NEW s \in Sessions
    PROVE  Outside(y, Write(op, seen, y, s))
  <1> DEFINE z == Write(op, seen, y, s)
  <1>0. op \in Ops /\ op # "delete"
    BY DEF Asks
  <1>1. CASE y.status \notin RunStatus
    BY <1>1 DEF Write, Outside
  <1>2. CASE y.status \in RunStatus /\ op = "cancel"
    <2>0. z = cancel_run(seen, y)
      BY <1>2 DEF Write
    <2>1. CASE seen.status = "queued"
      <3>1. z = [y EXCEPT !.status = "cancelled"]
        BY <2>0, <2>1 DEF cancel_run
      <3> HIDE DEF z
      <3>2. z \in Row /\ z.status = "cancelled"
        BY <3>1 DEF Row
      <3>3. Outside(y, z)
        BY <3>2 DEF Outside
      <3> QED BY <3>3 DEF z
    <2>2. CASE seen.status = "waiting_for_human"
      <3> DEFINE v == close_waiting_run(seen, y, "cancelled", None, FALSE)
      <3>1. z = v
        BY <2>0, <2>2 DEF cancel_run
      <3>2. v \in {close_waiting_run(seen, y, "cancelled", None, TRUE), v}
        OBVIOUS
      <3>3. v \in Row /\ v.status = "cancelled"
        BY <1>2, <3>2, CloseKeeps
      <3> HIDE DEF v
      <3>4. Outside(y, v)
        BY <3>3 DEF Outside
      <3> QED BY <3>1, <3>4
    <2>3. CASE seen.status \notin {"queued", "waiting_for_human"}
      <3>1. z = [y EXCEPT !.cancel = TRUE]
        BY <2>0, <2>3 DEF cancel_run
      <3> HIDE DEF z
      <3>2. z \in Row /\ z.status = y.status /\ z.holder = y.holder
        BY <3>1 DEF Row
      <3>3. Outside(y, z)
        BY <3>2 DEF Outside
      <3> QED BY <3>3 DEF z
    <2> QED BY <2>1, <2>2, <2>3
  <1>3. CASE y.status \in RunStatus /\ op \in {"pause", "hold", "unhold", "handback"}
    <2>1. \/ z = pause_run(seen, y)
          \/ z = hold_takeover(seen, y, "hold")
          \/ z = hold_takeover(seen, y, "unhold")
          \/ z = hand_back_run(seen, y)
      BY <1>3 DEF Write
    <2>2. \/ z = y
          \/ z = [y EXCEPT !.pause = TRUE]
          \/ \E b \in BOOLEAN : z = [y EXCEPT !.auto = b]
          \/ z = [y EXCEPT !.handback = TRUE]
      <3>1. CASE z = pause_run(seen, y)
        BY <3>1 DEF pause_run
      <3>2. CASE z \in {hold_takeover(seen, y, "hold"), hold_takeover(seen, y, "unhold")}
        BY <3>2 DEF hold_takeover
      <3>3. CASE z = hand_back_run(seen, y)
        BY <3>3 DEF hand_back_run
      <3> QED BY <2>1, <3>1, <3>2, <3>3
    <2> HIDE DEF z
    <2>3. z \in Row /\ z.status = y.status /\ z.holder = y.holder
      BY <2>2 DEF Row
    <2>4. Outside(y, z)
      BY <2>3 DEF Outside
    <2> QED BY <2>4 DEF z
  <1>4. CASE y.status \in RunStatus /\ op = "take"
    <2>1. z = take_over_run(seen, y, s)
      BY <1>4 DEF Write
    <2> HIDE DEF z
    <2>2. z \in Row /\ z.status = y.status /\ z.holder \in {y.holder, s}
      BY <2>1 DEF take_over_run, Row
    <2>3. Outside(y, z)
      BY <2>2 DEF Outside
    <2> QED BY <2>3 DEF z
  <1>5. CASE y.status \in RunStatus /\ op = "abandon"
    <2> DEFINE v == close_waiting_run(seen, y, "failed", "takeover_abandoned", TRUE)
    <2>1. z = v
      BY <1>5 DEF Write, abandon_takeover
    <2>2. v \in {v, close_waiting_run(seen, y, "failed", "takeover_abandoned", FALSE)}
      OBVIOUS
    <2>3. v \in Row /\ v.status = "failed"
      BY <1>5, <2>2, CloseKeeps DEF FailureReason
    <2> HIDE DEF v
    <2>4. Outside(y, v)
      BY <2>3 DEF Outside
    <2> QED BY <2>1, <2>4
  <1> QED BY <1>0, <1>1, <1>2, <1>3, <1>4, <1>5 DEF Ops

(* The minute loop: reap_and_backstop.                                     *)
LEMMA ReapOutside ==
    ASSUME NEW y \in Row
    PROVE  Outside(y, reap(y)) /\ (reap(y).status \notin Terminal => reap(y) = y)
  <1>1. /\ reap(y) \in Row
        /\ reap(y).status = y.status \/ reap(y).status \in Terminal
    BY ReapKeeps
  <1>2. reap(y).status \notin Terminal => reap(y) = y
    <2>1. CASE y.status \in Live /\ y.quiet
      <3> DEFINE z == [y EXCEPT !.status = "failed", !.reason = "worker_lost"]
      <3>1. z \in Row /\ z.status = "failed"
        BY DEF Row, FailureReason
      <3>2. reap_lost_workers(y) = skip_unreached(z)
        BY <2>1 DEF reap_lost_workers, fail_worker_lost
      <3> HIDE DEF z
      <3>3. skip_unreached(z).status = "failed"
        BY <3>1, FillingKeeps
      <3>4. reap(y).status = "failed"
        BY <3>2, <3>3 DEF reap, reap_takeover_deadlines
      <3> QED BY <3>4
    <2>2. CASE ~(y.status \in Live /\ y.quiet)
      <3>1. reap(y) = reap_takeover_deadlines(y)
        BY <2>2 DEF reap, reap_lost_workers
      <3>2. CASE y.status = "waiting_for_human" /\ y.overdue
        <4> DEFINE z == close_waiting_run(y, y, "failed", "takeover_timeout", TRUE)
        <4>1. reap(y) = z
          BY <3>1, <3>2 DEF reap_takeover_deadlines
        <4>2. z \in {z, close_waiting_run(y, y, "failed", "takeover_timeout", FALSE)}
          OBVIOUS
        <4>3. z.status = "failed"
          BY <3>2, <4>2, CloseKeeps DEF FailureReason
        <4> QED BY <4>1, <4>3
      <3>3. CASE ~(y.status = "waiting_for_human" /\ y.overdue)
        BY <3>1, <3>3 DEF reap_takeover_deadlines
      <3> QED BY <3>2, <3>3
    <2> QED BY <2>1, <2>2
  <1> QED BY <1>1, <1>2 DEF Outside

-----------------------------------------------------------------------------
(* The steps of everybody but the executor.                                *)
LEMMA OutsideStep ==
    ASSUME Inv, Outside(x, x'), Lately(x, x', late, late'), UNCHANGED exec, late' \in BOOLEAN,
           heard' \in SUBSET Hints, hints' \in SUBSET Hints,
           handler' \in [Sessions -> Request \cup {None}], ToPublish', asks' \in Nat
    PROVE  Inv'
  <1>1. TypeOK'
    BY DEF Inv, TypeOK, Outside
  <1>2. Fits(exec, x', late')
    BY OutsideFits DEF Inv, TypeOK, Outside
  <1> QED BY <1>1, <1>2 DEF Inv

LEMMA SameOutside == \A y \in Row, l \in BOOLEAN : Outside(y, y) /\ Lately(y, y, l, l)
  BY DEF Outside, Lately

LEMMA ReadKeeps ==
    ASSUME Inv, NEW s \in Sessions, NEW op \in Asks, Read(s, op)
    PROVE  Inv'
  <1> DEFINE q == [op |-> op, seen |-> Loaded(x), stage |-> "read"]
  <1>1. Loaded(x) \in Row
    BY BlankRows DEF Inv, TypeOK
  <1>2. q \in Request
    BY <1>1 DEF Request
  <1>3. handler' \in [Sessions -> Request \cup {None}]
    BY <1>2 DEF Inv, TypeOK, Read
  <1>4. Outside(x, x') /\ Lately(x, x', late, late') /\ late' \in BOOLEAN
    BY SameOutside DEF Inv, TypeOK, Read
  <1>5. asks' \in Nat /\ heard' \in SUBSET Hints /\ hints' \in SUBSET Hints /\ UNCHANGED exec
    BY DEF Inv, TypeOK, Read
  <1>6. ToPublish'
    BY DEF Inv, TypeOK, ToPublish, Read
  <1> QED BY <1>3, <1>4, <1>5, <1>6, OutsideStep

(* A holder who takes a Run that does not wait is marked late.             *)
LEMMA CommitKeeps ==
    ASSUME Inv, NEW s \in Sessions, Commit(s)
    PROVE  Inv'
  <1>1. handler[s] \in Request /\ x \in Row /\ late \in BOOLEAN
    BY DEF Inv, TypeOK, Commit
  <1>2. handler[s].op \in Asks /\ handler[s].seen \in Row
    BY <1>1 DEF Request
  <1>3. [handler[s] EXCEPT !.stage = "publish"] \in Request
    BY <1>1 DEF Request
  <1>4. handler' \in [Sessions -> Request \cup {None}]
    BY <1>3 DEF Inv, TypeOK, Commit
  <1>5. Outside(x, x')
    BY <1>1, <1>2, WriteOutside DEF Commit
  <1>6. late' = IF x'.holder = x.holder THEN late
                ELSE x'.holder # None /\ x.status # "waiting_for_human"
    BY DEF Commit
  <1>7. late' \in BOOLEAN /\ Lately(x, x', late, late')
    BY <1>1, <1>5, <1>6 DEF Lately, Outside
  <1>8. asks' \in Nat /\ heard' \in SUBSET Hints /\ hints' \in SUBSET Hints /\ UNCHANGED exec
    BY DEF Inv, TypeOK, Commit
  <1>9. ToPublish'
    BY <1>1 DEF Inv, TypeOK, ToPublish, Commit, Publishes, Request, Hints
  <1> QED BY <1>4, <1>5, <1>7, <1>8, <1>9, OutsideStep

LEMMA PublishKeeps ==
    ASSUME Inv, NEW s \in Sessions, Publish(s)
    PROVE  Inv'
  <1>1. handler[s].op \in Hints
    BY DEF Inv, ToPublish, Publish
  <1>2. /\ handler' \in [Sessions -> Request \cup {None}] /\ asks' \in Nat
        /\ heard' \in SUBSET Hints /\ hints' \in SUBSET Hints /\ UNCHANGED exec
    BY <1>1 DEF Inv, TypeOK, Publish
  <1>3. Outside(x, x') /\ Lately(x, x', late, late') /\ late' \in BOOLEAN
    BY SameOutside DEF Inv, TypeOK, Publish
  <1>4. ToPublish'
    BY DEF Inv, TypeOK, ToPublish, Publish
  <1> QED BY <1>2, <1>3, <1>4, OutsideStep

(* Hints that arrive or are lost, the deadline and the minute loop.        *)
LEMMA EnvironmentKeeps ==
    ASSUME Inv, (\E h \in Hints : Deliver(h) \/ Drop(h)) \/ GoesOverdue \/ Tick
    PROVE  Inv'
  <1>1. /\ handler' \in [Sessions -> Request \cup {None}] /\ asks' \in Nat
        /\ heard' \in SUBSET Hints /\ hints' \in SUBSET Hints /\ UNCHANGED <<exec, late>>
    BY DEF Inv, TypeOK, Deliver, Drop, GoesOverdue, Tick
  <1>2. ToPublish'
    BY DEF Inv, ToPublish, Deliver, Drop, GoesOverdue, Tick
  <1>3. Outside(x, x') /\ Lately(x, x', late, late)
    <2>1. x \in Row /\ late \in BOOLEAN
      BY DEF Inv, TypeOK
    <2>2. CASE \E h \in Hints : Deliver(h) \/ Drop(h)
      BY <2>1, <2>2, SameOutside DEF Deliver, Drop
    <2>3. CASE GoesOverdue
      <3>1. x' \in Row /\ x'.status = x.status /\ x'.holder = x.holder
        BY <2>1, <2>3 DEF GoesOverdue, Row
      <3> QED BY <3>1 DEF Outside, Lately
    <2>4. CASE Tick
      <3> DEFINE y == IF exec.pc = "dead" THEN [x EXCEPT !.quiet = TRUE] ELSE x
      <3>1. y \in Row /\ y.status = x.status /\ y.holder = x.holder
        BY <2>1 DEF Row
      <3>2. x' = reap(y)
        BY <2>4 DEF Tick
      <3> HIDE DEF y
      <3>3. Outside(y, x') /\ (x'.status \notin Terminal => x' = y)
        BY <3>1, <3>2, ReapOutside
      <3> QED BY <3>1, <3>3 DEF Outside, Lately
    <2> QED BY <2>2, <2>3, <2>4
  <1>4. late' \in BOOLEAN /\ Lately(x, x', late, late')
    BY <1>1, <1>3 DEF Inv, TypeOK
  <1> QED BY <1>1, <1>2, <1>3, <1>4, OutsideStep

-----------------------------------------------------------------------------
(* The steps of the executor.                                              *)
LEMMA ExecutorStep ==
    ASSUME Inv, NEW e \in Exec, NEW y \in Row, NEW l \in BOOLEAN,
           exec' = e, x' = y, late' = l, Fits(e, y, l),
           heard' \in SUBSET Hints, UNCHANGED <<hints, handler, asks>>
    PROVE  Inv'
  <1>1. TypeOK'
    BY DEF Inv, TypeOK
  <1>2. ToPublish'
    BY DEF Inv, ToPublish
  <1> QED BY <1>1, <1>2 DEF Inv

LEMMA PolledKeeps == Inv /\ (Polled \/ UNCHANGED heard) => heard' \in SUBSET Hints
  BY DEF Inv, TypeOK, Polled

(* What is not about the row: an executor that fits the row as it is.      *)
LEMMA OwnStep ==
    ASSUME Inv, NEW e \in Exec, exec' = e, Fits(e, x, late), UNCHANGED <<x, late>>,
           Polled \/ UNCHANGED heard, UNCHANGED <<hints, handler, asks>>
    PROVE  Inv'
  <1>1. x \in Row /\ late \in BOOLEAN
    BY DEF Inv, TypeOK
  <1> QED BY <1>1, PolledKeeps, ExecutorStep

(* Between parks the executor leaves interval, clock and row alone.        *)
LEMMA WorkKeeps ==
    ASSUME Inv, exec.pc \in Working, UNCHANGED <<x, late>>, Polled \/ UNCHANGED heard,
           UNCHANGED <<hints, handler, asks>>,
           NEW pc \in Working \cup {"dead"}, NEW pos \in Nat,
           NEW status \in {"succeeded", "cancelled"},
           exec' = [exec EXCEPT !.pc = pc, !.pos = pos, !.status = status]
    PROVE  Inv'
  <1> DEFINE e == [exec EXCEPT !.pc = pc, !.pos = pos, !.status = status]
  <1>1. exec \in Exec /\ Fits(exec, x, late)
    BY DEF Inv, TypeOK
  <1>2. /\ e \in Exec /\ e.pc = pc /\ e.open = exec.open /\ e.clock = exec.clock
    BY <1>1 DEF Exec, Working
  <1> HIDE DEF e
  <1>3. Fits(e, x, late)
    BY <1>1, <1>2 DEF Fits, Working, Parking, Between
  <1>4. exec' = e
    BY DEF e
  <1> QED BY <1>2, <1>3, <1>4, OwnStep

(* The steps that only move on in the Step loop.                           *)
LEMMA LoopKeeps ==
    ASSUME Inv, CancelSeen \/ EndStep \/ GoOn \/ EndLoop
    PROVE  Inv'
  <1>1. exec \in Exec
    BY DEF Inv, TypeOK
  <1>2. exec.pos \in Nat /\ exec.status \in {"succeeded", "cancelled"}
    BY <1>1 DEF Exec
  <1>3. /\ exec.pc \in Working /\ UNCHANGED <<x, late>> /\ (Polled \/ UNCHANGED heard)
        /\ UNCHANGED <<hints, handler, asks>>
    BY DEF CancelSeen, EndStep, GoOn, EndLoop, Checks, Working
  <1>4. PICK pc \in Working, pos \in Nat, status \in {"succeeded", "cancelled"} :
           exec' = [exec EXCEPT !.pc = pc, !.pos = pos, !.status = status]
    <2>1. CASE CancelSeen
      <3>1. exec' = [exec EXCEPT !.pc = "finish", !.pos = exec.pos, !.status = "cancelled"]
        BY <1>1, <2>1 DEF CancelSeen, Exec
      <3> QED BY <1>2, <3>1 DEF Working
    <2>2. CASE EndStep
      <3>1. exec' = [exec EXCEPT !.pc = "tail", !.pos = exec.pos, !.status = exec.status]
        BY <1>1, <2>2 DEF EndStep, Exec
      <3> QED BY <1>2, <3>1 DEF Working
    <2>3. CASE GoOn /\ exec.pc = "head"
      <3>1. exec' = [exec EXCEPT !.pc = "ready", !.pos = exec.pos, !.status = exec.status]
        BY <1>1, <2>3 DEF GoOn, Exec
      <3> QED BY <1>2, <3>1 DEF Working
    <2>4. CASE GoOn /\ exec.pc # "head"
      <3>1. exec' = [exec EXCEPT !.pc = "head", !.pos = exec.pos + 1, !.status = exec.status]
        BY <1>1, <2>4 DEF GoOn, Exec
      <3>2. exec.pos + 1 \in Nat
        BY <1>2
      <3> QED BY <1>2, <3>1, <3>2 DEF Working
    <2>5. CASE EndLoop
      <3>1. exec' = [exec EXCEPT !.pc = "finish", !.pos = exec.pos, !.status = exec.status]
        BY <1>1, <2>5 DEF EndLoop, Exec
      <3> QED BY <1>2, <3>1 DEF Working
    <2> QED BY <2>1, <2>2, <2>3, <2>4, <2>5
  <1>5. pc \in Working \cup {"dead"}
    OBVIOUS
  <1> QED BY <1>3, <1>4, <1>5, WorkKeeps

(* leave_automation: the clock has stopped and the waiting interval is     *)
(* open before the row says so.                                            *)
LEMMA LeaveKeeps ==
    ASSUME Inv, exec.pc \in Working, NEW back \in Backs, Leave(back),
           Polled \/ UNCHANGED heard, UNCHANGED <<late, hints, handler, asks>>
    PROVE  Inv'
  <1> DEFINE e == [exec EXCEPT !.pc = "leaving", !.back = back, !.open = "waiting",
                               !.clock = FALSE]
  <1>1. exec \in Exec /\ Fits(exec, x, late)
    BY DEF Inv, TypeOK
  <1>2. /\ e \in Exec /\ e.pc = "leaving" /\ e.back = back /\ e.open = "waiting"
        /\ e.clock = FALSE
    BY <1>1 DEF Exec, Backs
  <1>3. exec' = e /\ UNCHANGED x
    BY DEF Leave
  <1> HIDE DEF e
  <1>4. Fits(e, x, late)
    BY <1>1, <1>2 DEF Fits, Working, Parking, Between
  <1> QED BY <1>2, <1>3, <1>4, OwnStep

(* A pause parks wherever it is seen, but in a Step that is retried.       *)
LEMMA PauseKeeps ==
    ASSUME Inv, PauseSeen
    PROVE  Inv'
  <1>1. exec \in Exec
    BY DEF Inv, TypeOK
  <1>2. exec.pos \in Nat /\ exec.status \in {"succeeded", "cancelled"}
    BY <1>1 DEF Exec
  <1>3. /\ exec.pc \in {"head", "act", "tail", "retry"} /\ exec.pc \in Working
        /\ Polled /\ UNCHANGED <<late, hints, handler, asks>>
    BY DEF PauseSeen, Checks, Working
  <1>4. CASE exec.pc # "retry"
    <2>1. Leave("ready") \/ Leave("retry") \/ Leave("next")
      BY <1>3, <1>4 DEF PauseSeen
    <2> QED BY <1>3, <2>1, LeaveKeeps DEF Backs
  <1>5. CASE exec.pc = "retry"
    <2>1. exec' = [exec EXCEPT !.pc = "dead"] /\ UNCHANGED x
      BY <1>5 DEF PauseSeen
    <2>2. exec' = [exec EXCEPT !.pc = "dead", !.pos = exec.pos, !.status = exec.status]
      BY <1>1, <2>1 DEF Exec
    <2> QED BY <1>2, <1>3, <2>1, <2>2, WorkKeeps
  <1> QED BY <1>4, <1>5

LEMMA BeginKeeps ==
    ASSUME Inv, BeginStep
    PROVE  Inv'
  <1>1. exec \in Exec
    BY DEF Inv, TypeOK
  <1>2. exec.pos \in Nat /\ exec.status \in {"succeeded", "cancelled"}
    BY <1>1 DEF Exec
  <1>3. exec.pc \in Working /\ UNCHANGED <<heard, late, hints, handler, asks>>
    BY DEF BeginStep, Working
  <1>4. CASE exec.pos \in TakeoverSteps
    <2>1. Leave("takeover")
      BY <1>4 DEF BeginStep
    <2> QED BY <1>3, <2>1, LeaveKeeps DEF Backs
  <1>5. CASE exec.pos \notin TakeoverSteps
    <2>1. exec' = [exec EXCEPT !.pc = "act"] /\ UNCHANGED x
      BY <1>5 DEF BeginStep
    <2>2. exec' = [exec EXCEPT !.pc = "act", !.pos = exec.pos, !.status = exec.status]
      BY <1>1, <2>1 DEF Exec
    <2> QED BY <1>2, <1>3, <2>1, <2>2, WorkKeeps DEF Working
  <1> QED BY <1>4, <1>5

(* An executor that ends: the last interval first, the verdict then.       *)
LEMMA EndKeeps ==
    ASSUME Inv, Beat \/ LetGo \/ Close
    PROVE  Inv'
  <1>1. exec \in Exec /\ Fits(exec, x, late)
    BY DEF Inv, TypeOK
  <1>2. UNCHANGED <<x, late, heard, hints, handler, asks>>
    BY DEF Beat, LetGo, Close
  <1>3. CASE Beat
    <2> DEFINE e == [exec EXCEPT !.lost = TRUE]
    <2>1. /\ e \in Exec /\ e.pc = exec.pc /\ e.open = exec.open /\ e.clock = exec.clock
          /\ e.back = exec.back /\ e.phase = exec.phase
      BY <1>1 DEF Exec
    <2>2. exec' = e
      BY <1>3 DEF Beat
    <2> HIDE DEF e
    <2>3. Fits(e, x, late)
      BY <1>1, <2>1 DEF Fits
    <2> QED BY <1>2, <2>1, <2>2, <2>3, OwnStep
  <1>4. CASE LetGo
    <2> DEFINE e == [exec EXCEPT !.pc = "gone", !.open = None]
    <2>1. e \in Exec /\ e.pc = "gone" /\ e.open = None
      BY <1>1 DEF Exec
    <2>2. exec' = e
      BY <1>4 DEF LetGo
    <2> HIDE DEF e
    <2>3. Fits(e, x, late)
      BY <2>1, KindsAssumption DEF Fits, Working, Parking, Between
    <2> QED BY <1>2, <2>1, <2>2, <2>3, OwnStep
  <1>5. CASE Close
    <2> DEFINE e == [exec EXCEPT !.pc = "closing", !.open = None, !.clock = FALSE]
    <2>1. e \in Exec /\ e.pc = "closing" /\ e.open = None /\ e.clock = FALSE
      BY <1>1 DEF Exec
    <2>2. exec' = e /\ exec.pc = "finish"
      BY <1>5 DEF Close
    <2> HIDE DEF e
    <2>3. Fits(e, x, late)
      BY <1>1, <2>1, <2>2, KindsAssumption DEF Fits, Working, Parking, Between
    <2> QED BY <1>2, <2>1, <2>2, <2>3, OwnStep
  <1> QED BY <1>3, <1>4, <1>5

LEMMA FinishActKeeps ==
    ASSUME Inv, Finish
    PROVE  Inv'
  <1> DEFINE e == [exec EXCEPT !.pc = "gone"]
             y == finish_run(x, exec.status, None)
  <1>1. exec \in Exec /\ x \in Row /\ late \in BOOLEAN /\ Fits(exec, x, late)
        /\ exec.pc = "closing"
    BY DEF Inv, TypeOK, Finish
  <1>2. e \in Exec /\ e.pc = "gone" /\ e.open = None
    BY <1>1 DEF Exec, Fits, Between
  <1>3. y \in Row
    <2>1. CASE x.status = "running"
      <3>1. exec.status \in Terminal
        BY <1>1 DEF Exec
      <3> QED BY <1>1, <2>1, <3>1, FinishKeeps
    <2>2. CASE x.status # "running"
      BY <1>1, <2>2 DEF finish_run
    <2> QED BY <2>1, <2>2
  <1>4. exec' = e /\ x' = y /\ UNCHANGED <<late, heard, hints, handler, asks>>
    BY DEF Finish
  <1> HIDE DEF e, y
  <1>5. Fits(e, y, late)
    BY <1>2, KindsAssumption DEF Fits, Working, Parking, Between
  <1> QED BY <1>1, <1>2, <1>3, <1>4, <1>5, PolledKeeps, ExecutorStep

(* store.park: the row says waiting before the executor's first turn,      *)
(* unless the Run was ended.                                               *)
LEMMA ParkKeeps ==
    ASSUME Inv, Park
    PROVE  Inv'
  <1> DEFINE e == [exec EXCEPT !.pc = "parked", !.phase = "waiting", !.grace = FALSE]
  <1>1. exec \in Exec /\ x \in Row /\ late \in BOOLEAN /\ Fits(exec, x, late)
        /\ exec.pc = "leaving"
    BY DEF Inv, TypeOK, Park
  <1>2. exec.back \in Backs /\ exec.open = "waiting" /\ ~exec.clock
    BY <1>1 DEF Fits, Working
  <1>3. /\ e \in Exec /\ e.pc = "parked" /\ e.back = exec.back /\ e.phase = "waiting"
        /\ e.open = exec.open /\ e.clock = exec.clock
    BY <1>1 DEF Exec, Parking
  <1>4. exec' = e /\ x' = park(x) /\ UNCHANGED <<late, heard, hints, handler, asks>>
    BY DEF Park
  <1>5. park(x) \in Row /\ park(x).status # "running"
    BY <1>1 DEF park, Row
  <1> HIDE DEF e
  <1>6. Fits(e, park(x), late)
    BY <1>2, <1>3, <1>5 DEF Fits, Working, Parking, Between
  <1> QED BY <1>1, <1>3, <1>4, <1>5, <1>6, PolledKeeps, ExecutorStep

(* One turn of the parking loop: the human interval opens when a holder is *)
(* seen.                                                                   *)
LEMMA ParkTurnKeeps ==
    ASSUME Inv, NEW met \in BOOLEAN, NEW due \in BOOLEAN, ParkTurn(met, due)
    PROVE  Inv'
  <1>1. exec \in Exec /\ x \in Row /\ Fits(exec, x, late) /\ exec.pc = "parked"
    BY DEF Inv, TypeOK, ParkTurn
  <1> DEFINE phase == IF x.holder # None THEN "human" ELSE exec.phase
  <1>2. PICK grace \in BOOLEAN, verify \in BOOLEAN :
           exec' = [exec EXCEPT !.phase = phase, !.grace = grace,
                                !.pc = IF verify THEN "verifying" ELSE "parked",
                                !.open = IF verify THEN "verifying" ELSE phase]
    <2> DEFINE g == phase = "human" /\ met /\ x.auto
               r == exec.grace /\ phase = exec.phase /\ met
               v == phase = "human" /\ (HandBackAsked \/ (r /\ x.auto /\ due))
    <2>1. g \in BOOLEAN /\ v \in BOOLEAN
      OBVIOUS
    <2>2. exec' = [exec EXCEPT !.phase = phase, !.grace = g,
                                !.pc = IF v THEN "verifying" ELSE "parked",
                                !.open = IF v THEN "verifying" ELSE phase]
      BY DEF ParkTurn
    <2> QED BY <2>1, <2>2
  <1> DEFINE pc == IF verify THEN "verifying" ELSE "parked"
             open == IF verify THEN "verifying" ELSE phase
             e == [exec EXCEPT !.phase = phase, !.grace = grace, !.pc = pc, !.open = open]
  <1>3. /\ phase \in {"waiting", "human"}
        /\ pc \in {"parked", "verifying"} /\ open \in {phase, "verifying"}
        /\ pc = "parked" => open = phase
    BY <1>1 DEF Exec, Fits, Parking
  <1>4. open = "human" => x.holder # None \/ x.status \notin Live
    BY <1>1 DEF Fits
  <1>5. exec' = e
    BY <1>2
  <1> HIDE DEF phase, pc, open
  <1>6. /\ e \in Exec /\ e.pc = pc /\ e.open = open /\ e.phase = phase
        /\ e.clock = exec.clock /\ e.back = exec.back
    BY <1>1, <1>3 DEF Exec, Parking
  <1> HIDE DEF e
  <1>7. Fits(e, x, late)
    BY <1>1, <1>3, <1>4, <1>6 DEF Fits, Working, Parking, Between, Backs
  <1>8. UNCHANGED <<x, late, hints, handler, asks>> /\ Polled
    BY DEF ParkTurn
  <1> QED BY <1>5, <1>6, <1>7, <1>8, OwnStep

LEMMA VerdictKeeps ==
    ASSUME Inv, NEW met \in BOOLEAN, Verdict(met)
    PROVE  Inv'
  <1> DEFINE pc == IF met THEN "resuming" ELSE "releasing"
             e == [exec EXCEPT !.pc = pc, !.open = None]
  <1>1. exec \in Exec /\ Fits(exec, x, late) /\ exec.pc = "verifying"
    BY DEF Inv, TypeOK, Verdict
  <1>2. pc \in {"resuming", "releasing"}
    OBVIOUS
  <1>3. exec' = e /\ UNCHANGED <<x, late, heard, hints, handler, asks>>
    BY DEF Verdict
  <1> HIDE DEF pc
  <1>4. /\ e \in Exec /\ e.pc = pc /\ e.open = None /\ e.back = exec.back
        /\ e.clock = exec.clock
    BY <1>1, <1>2 DEF Exec, Parking
  <1> HIDE DEF e
  <1>5. Fits(e, x, late)
    BY <1>1, <1>2, <1>4, KindsAssumption DEF Fits, Working, Parking, Between
  <1> QED BY <1>3, <1>4, <1>5, OwnStep

(* Unmet: control is taken away before the waiting interval opens.         *)
LEMMA ReleaseKeeps ==
    ASSUME Inv, Release
    PROVE  Inv'
  <1> DEFINE e == [exec EXCEPT !.pc = "reopening"]
             y == release_holder(x)
             l == late /\ y.holder # None
  <1>1. exec \in Exec /\ x \in Row /\ Fits(exec, x, late) /\ exec.pc = "releasing"
    BY DEF Inv, TypeOK, Release
  <1>2. /\ e \in Exec /\ e.pc = "reopening" /\ e.back = exec.back
        /\ e.open = exec.open /\ e.clock = exec.clock
    BY <1>1 DEF Exec, Parking
  <1>3. exec' = e /\ x' = y /\ late' = l /\ UNCHANGED <<heard, hints, handler, asks>>
    BY DEF Release, Frees
  <1>4. y \in Row /\ y.status = x.status /\ l \in BOOLEAN
    BY <1>1 DEF release_holder, Row, Inv, TypeOK
  <1> HIDE DEF e, y, l
  <1>5. Fits(e, y, l)
    BY <1>1, <1>2, <1>4, KindsAssumption DEF Fits, Working, Parking, Between
  <1> QED BY <1>2, <1>3, <1>4, <1>5, PolledKeeps, ExecutorStep

LEMMA ReopenKeeps ==
    ASSUME Inv, Reopen
    PROVE  Inv'
  <1> DEFINE e == [exec EXCEPT !.pc = "parked", !.phase = "waiting", !.grace = FALSE,
                               !.open = "waiting"]
  <1>1. exec \in Exec /\ Fits(exec, x, late) /\ exec.pc = "reopening"
    BY DEF Inv, TypeOK, Reopen
  <1>2. /\ e \in Exec /\ e.pc = "parked" /\ e.back = exec.back /\ e.phase = "waiting"
        /\ e.open = "waiting" /\ e.clock = exec.clock
    BY <1>1 DEF Exec, Parking
  <1>3. exec' = e /\ UNCHANGED <<x, late, heard, hints, handler, asks>>
    BY DEF Reopen
  <1> HIDE DEF e
  <1>4. Fits(e, x, late)
    BY <1>1, <1>2 DEF Fits, Working, Parking, Between
  <1> QED BY <1>2, <1>3, <1>4, OwnStep

(* Automation again: the row says running, and nobody has control, before  *)
(* the interval opens, unless the Run was ended.                           *)
LEMMA ResumeActKeeps ==
    ASSUME Inv, Resume
    PROVE  Inv'
  <1> DEFINE e == [exec EXCEPT !.pc = "entering"]
             y == resume(x)
             l == late /\ y.holder # None
  <1>1. exec \in Exec /\ x \in Row /\ Fits(exec, x, late) /\ exec.pc = "resuming"
    BY DEF Inv, TypeOK, Resume
  <1>2. /\ e \in Exec /\ e.pc = "entering" /\ e.back = exec.back
        /\ e.open = exec.open /\ e.clock = exec.clock
    BY <1>1 DEF Exec
  <1>3. exec' = e /\ x' = y /\ late' = l /\ UNCHANGED <<heard, hints, handler, asks>>
    BY DEF Resume, Frees
  <1>4. x.status # "running"
    BY <1>1 DEF Fits, Parking
  <1>5. /\ y \in Row /\ l \in BOOLEAN /\ y.status # "waiting_for_human"
        /\ y.status = "running" => y.holder = None
    BY <1>1, <1>4 DEF resume, Row, Inv, TypeOK
  <1> HIDE DEF e, y, l
  <1>6. Fits(e, y, l)
    BY <1>1, <1>2, <1>5, KindsAssumption DEF Fits, Working, Parking, Between
  <1> QED BY <1>2, <1>3, <1>5, <1>6, PolledKeeps, ExecutorStep

LEMMA EnterKeeps ==
    ASSUME Inv, Enter
    PROVE  Inv'
  <1>1. exec \in Exec /\ Fits(exec, x, late) /\ exec.pc = "entering"
    BY DEF Inv, TypeOK, Enter
  <1> DEFINE over == HasCheck \/ exec.back = "next"
             pc == IF over THEN "head" ELSE IF exec.back = "takeover" THEN "act" ELSE exec.back
             pos == IF over THEN exec.pos + 1 ELSE exec.pos
             e == [exec EXCEPT !.pc = pc, !.pos = pos, !.back = None, !.phase = None,
                               !.grace = FALSE, !.open = "automation", !.clock = TRUE]
  <1>2. exec.back \in Backs /\ exec.pos \in Nat
    BY <1>1 DEF Fits, Exec
  <1>3. pc \in {"head", "ready", "act", "retry"}
    BY <1>2 DEF Backs
  <1>4. pos \in Nat
    BY <1>2
  <1>5. exec' = e /\ UNCHANGED <<x, late, heard, hints, handler, asks>>
    BY DEF Enter
  <1> HIDE DEF pc, pos
  <1>6. e \in Exec /\ e.pc = pc /\ e.open = "automation" /\ e.clock = TRUE
    BY <1>1, <1>3, <1>4 DEF Exec, Working
  <1> HIDE DEF e
  <1>7. Fits(e, x, late)
    BY <1>1, <1>3, <1>6 DEF Fits, Working, Parking, Between
  <1> QED BY <1>5, <1>6, <1>7, OwnStep

-----------------------------------------------------------------------------

LEMMA InitHolds == Init => Inv
  <1> SUFFICES ASSUME Init PROVE Inv
    OBVIOUS
  <1>1. PICK w \in Workers : x = claim(NewRow, w)
    BY DEF Init
  <1>2. x \in Row /\ x.status = "running"
    BY <1>1, BlankRows, ClaimKeeps
  <1>3. exec \in Exec
    BY DEF Init, Exec, Working
  <1>4. TypeOK
    BY <1>2, <1>3 DEF Init, TypeOK
  <1>5. Fits(exec, x, late)
    <2>1. x.holder = None
      BY <1>1 DEF claim, Claimable, NewRow
    <2> QED BY <1>2, <2>1 DEF Init, Fits, Working, Parking, Between
  <1>6. ToPublish
    BY DEF Init, ToPublish
  <1> QED BY <1>4, <1>5, <1>6 DEF Inv

LEMMA StepKeeps == Inv /\ [Next]_vars => Inv'
  <1> SUFFICES ASSUME Inv, [Next]_vars PROVE Inv'
    OBVIOUS
  <1>1. CASE Progress \/ EndStep \/ Beat \/ \E met, due \in BOOLEAN : ParkTurn(met, due)
    <2>1. \A met, due \in BOOLEAN : ParkTurn(met, due) => Inv'
      BY ParkTurnKeeps
    <2> QED BY <1>1, <2>1, EndKeeps, LoopKeeps, PauseKeeps, BeginKeeps, FinishActKeeps, ParkKeeps,
               VerdictKeeps, ReleaseKeeps, ReopenKeeps, ResumeActKeeps, EnterKeeps DEF Progress
  <1>2. CASE \E s \in Sessions : Commit(s) \/ Publish(s) \/ \E op \in Asks : Read(s, op)
    BY <1>2, CommitKeeps, PublishKeeps, ReadKeeps
  <1>3. CASE (\E h \in Hints : Deliver(h) \/ Drop(h)) \/ GoesOverdue \/ Tick
    BY <1>3, EnvironmentKeeps
  <1>4. CASE UNCHANGED vars
    BY <1>4 DEF Inv, TypeOK, ToPublish, vars
  <1> QED BY <1>1, <1>2, <1>3, <1>4 DEF Next

LEMMA Invariance == Spec => []Inv
  BY InitHolds, StepKeeps, PTL DEF Spec

(* The variables of Takeover keep their types; only what ControlWatch      *)
(* knows is ever published or remembered as a hint.                        *)
THEOREM TypeCorrect == Spec => []TypeOK
  <1>1. Inv => TypeOK
    BY DEF Inv
  <1> QED BY <1>1, Invariance, PTL

(* Whatever requests, hints, deadlines and ticks come in between, the      *)
(* timeline of control intervals tells who has control (executor.py:       *)
(* park_for_human and its parking loop).                                   *)
THEOREM TimelineTrue == Spec => []TimelineIsTrue
  BY FitsSays, Invariance, PTL

(* The executor works only while the row does not say waiting and, of a    *)
(* running Run, names no holder but one whose take_over_run was committed  *)
(* late; it parks only while the row does not say running.  So it is       *)
(* between any two statements of the executor, although handlers write the *)
(* row from what they loaded earlier (store.py: park, resume).             *)
THEOREM RowFollows == Spec => []RowFollowsExecutor
  BY FitsSays, Invariance, PTL
=============================================================================

---------------------------- MODULE RunRowProofs ----------------------------
(***************************************************************************)
(* What each statement on a `runs` row keeps true, proved once for the     *)
(* modules whose actions use it: the row's type, Grows, and Backed.        *)
(***************************************************************************)
EXTENDS RunRow, TLAPS

USE NoneAssumption DEF RowStatus, RunStatus, NON_TERMINAL, Live, Terminal

(* The rows nobody wrote to yet, the one delete_run leaves, and what a     *)
(* handler keeps of the row it loaded.                                     *)
LEMMA BlankRows ==
    /\ NewRow \in Row /\ NewRow.status = "queued" /\ NewRow.worker = None
    /\ Absent \in Row /\ Absent.status = "absent" /\ Absent.worker = None
    /\ Deleted \in Row /\ Deleted.status = "deleted" /\ Deleted.worker = None
    /\ \A x \in Row : Loaded(x) \in Row /\ Loaded(x).status = x.status
  <1>1. NoResults \in Results
    BY DEF NoResults, Results, Row
  <1>2. NewRow \in Row /\ NewRow.status = "queued" /\ NewRow.worker = None
    BY <1>1 DEF NewRow, Row
  <1>3. Absent \in Row /\ Absent.status = "absent" /\ Absent.worker = None
    BY <1>2 DEF Absent, Row
  <1>4. Deleted \in Row /\ Deleted.status = "deleted" /\ Deleted.worker = None
    BY <1>2 DEF Deleted, Row
  <1>5. \A x \in Row : Loaded(x) \in Row /\ Loaded(x).status = x.status
    BY <1>1 DEF Loaded, Row
  <1> QED BY <1>2, <1>3, <1>4, <1>5

(* A statement that leaves the Step Results alone and moves the status     *)
(* forward, or not at all.                                                 *)
LEMMA SameResults ==
    ASSUME NEW x \in Row, NEW y \in Row, y.results = x.results,
           \/ y.status = x.status
           \/ x.status = "queued" /\ y.status = "running"
           \/ x.status \in Live /\ y.status \in Live
    PROVE  Grows(x, y) /\ (Backed(x) => Backed(y))
  <1>1. Grows(x, y)
    BY DEF Grows, Row
  <1>2. Backed(x) => Backed(y)
    BY DEF Backed, Row
  <1> QED BY <1>1, <1>2

(* claim in store.py.                                                      *)
LEMMA ClaimKeeps ==
    ASSUME NEW x \in Row, NEW w \in Workers
    PROVE  /\ claim(x, w) \in Row
           /\ Grows(x, claim(x, w))
           /\ Backed(x) => Backed(claim(x, w))
           /\ claim(x, w).status = IF x.status = "queued" THEN "running" ELSE x.status
           /\ claim(x, w).worker = IF x.status = "queued" THEN w ELSE x.worker
           /\ claim(x, w).results = x.results
  <1>1. claim(x, w) \in Row
    BY DEF claim, Claimable, Row
  <1>2. claim(x, w).results = x.results
    BY DEF claim, Claimable, Row
  <1>3. claim(x, w).status = IF x.status = "queued" THEN "running" ELSE x.status
    BY DEF claim, Claimable, Row
  <1>4. claim(x, w).worker = IF x.status = "queued" THEN w ELSE x.worker
    BY DEF claim, Claimable, Row
  <1>5. Grows(x, claim(x, w)) /\ (Backed(x) => Backed(claim(x, w)))
    BY <1>1, <1>2, <1>3, SameResults
  <1> QED BY <1>1, <1>2, <1>3, <1>4, <1>5

(* park, resume and release_holder in store.py.                            *)
LEMMA ParkingKeeps ==
    ASSUME NEW x \in Row, NEW y \in {park(x), resume(x), release_holder(x)}
    PROVE  /\ y \in Row /\ y.results = x.results /\ y.worker = x.worker
           /\ y.status = x.status \/ {x.status, y.status} = Live
           /\ Grows(x, y)
           /\ Backed(x) => Backed(y)
  <1>1. CASE y = park(x)
    <2>1. y \in Row /\ y.results = x.results /\ y.worker = x.worker
      BY <1>1 DEF park, Row
    <2>2. y.status = x.status \/ {x.status, y.status} = Live
      BY <1>1 DEF park, Row
    <2> QED BY <2>1, <2>2, SameResults
  <1>2. CASE y = resume(x)
    <2>1. y \in Row /\ y.results = x.results /\ y.worker = x.worker
      BY <1>2 DEF resume, Row
    <2>2. y.status = x.status \/ {x.status, y.status} = Live
      BY <1>2 DEF resume, Row
    <2> QED BY <2>1, <2>2, SameResults
  <1>3. CASE y = release_holder(x)
    <2>1. y \in Row /\ y.results = x.results /\ y.worker = x.worker
      BY <1>3 DEF release_holder, Row
    <2>2. y.status = x.status
      BY <1>3 DEF release_holder, Row
    <2> QED BY <2>1, <2>2, SameResults
  <1> QED BY <1>1, <1>2, <1>3

(* finish_run in store.py: the verdict is backed when the results are.     *)
LEMMA FinishKeeps ==
    ASSUME NEW x \in Row, NEW status \in Terminal,
           NEW reason \in FailureReason \cup {None}
    PROVE  /\ finish_run(x, status, reason) \in Row
           /\ finish_run(x, status, reason).worker = x.worker
           /\ finish_run(x, status, reason).status
                = IF x.status = "running" THEN status ELSE x.status
           /\ Grows(x, finish_run(x, status, reason))
           /\ /\ Backed(x)
              /\ \A p \in Steps : x.results[p] # None
              /\ status = "succeeded" => \A p \in Steps : x.results[p] # "failed"
              => Backed(finish_run(x, status, reason))
  <1> DEFINE y == finish_run(x, status, reason)
  <1>1. y \in Row /\ y.worker = x.worker
    BY DEF finish_run, Row
  <1>2. y.results = x.results
    BY DEF finish_run, Row
  <1>3. y.status = IF x.status = "running" THEN status ELSE x.status
    BY DEF finish_run, Row
  <1> HIDE DEF y
  <1>4. Grows(x, y)
    BY <1>1, <1>2, <1>3 DEF Grows, Row
  <1>5. /\ Backed(x)
        /\ \A p \in Steps : x.results[p] # None
        /\ status = "succeeded" => \A p \in Steps : x.results[p] # "failed"
        => Backed(y)
    BY <1>2, <1>3 DEF Backed, Row
  <1> QED BY <1>1, <1>3, <1>4, <1>5 DEF y

(* add_result in store.py, where the INSERT can succeed.                   *)
LEMMA InsertKeeps ==
    ASSUME NEW x \in Row, NEW p \in Steps, NEW status \in StepResultStatus,
           CanInsert(x, p)
    PROVE  /\ add_result(x, p, status) \in Row
           /\ add_result(x, p, status).status = x.status
           /\ add_result(x, p, status).worker = x.worker
           /\ add_result(x, p, status).results = [x.results EXCEPT ![p] = status]
           /\ Grows(x, add_result(x, p, status))
           /\ Backed(x) => Backed(add_result(x, p, status))
  <1> DEFINE y == add_result(x, p, status)
  <1>1. /\ y \in Row /\ y.status = x.status /\ y.worker = x.worker
        /\ y.results = [x.results EXCEPT ![p] = status]
    BY DEF add_result, Results, Row
  <1>2. x.results \in Results
    BY DEF Row
  <1>3. \A q \in Steps : y.results[q] = IF q = p THEN status ELSE x.results[q]
    BY <1>1, <1>2 DEF Results, Row
  <1> HIDE DEF y
  <1>4. Grows(x, y)
    BY <1>1, <1>3 DEF Grows, CanInsert, Row
  <1>5. Backed(x) => Backed(y)
    BY <1>1, <1>3 DEF Backed, CanInsert, Row
  <1> QED BY <1>1, <1>4, <1>5 DEF y

(* skip_unreached and fail_paused_and_skip_rest in reap.py fill what is    *)
(* missing and touch nothing else.                                         *)
LEMMA FillingKeeps ==
    ASSUME NEW x \in Row, NEW y \in {skip_unreached(x), fail_paused_and_skip_rest(x)}
    PROVE  /\ y \in Row /\ y.status = x.status /\ y.worker = x.worker
           /\ \A p \in Steps : y.results[p] # None
           /\ \A p \in Steps : x.results[p] # None => y.results[p] = x.results[p]
  <1>0. x.results \in Results
    BY DEF Row
  <1>1. CASE y = skip_unreached(x)
    <2> DEFINE f == [p \in Steps |-> IF x.results[p] = None THEN "skipped"
                                                           ELSE x.results[p]]
    <2>1. f \in Results
      BY <1>0 DEF Results, StepResultStatus, Row
    <2>2. /\ \A p \in Steps : f[p] # None
          /\ \A p \in Steps : x.results[p] # None => f[p] = x.results[p]
      BY DEF StepResultStatus, Row
    <2>3. y = [x EXCEPT !.results = f]
      BY <1>1 DEF skip_unreached, Row
    <2> HIDE DEF f
    <2>4. y \in Row /\ y.status = x.status /\ y.worker = x.worker /\ y.results = f
      BY <2>1, <2>3 DEF Row
    <2> QED BY <2>2, <2>4
  <1>2. CASE y = fail_paused_and_skip_rest(x)
    <2> DEFINE f == [p \in Steps |->
                       IF x.results[p] # None THEN x.results[p]
                       ELSE IF \A q \in Steps : q < p => x.results[q] # None
                            THEN "failed" ELSE "skipped"]
    <2>1. f \in Results
      BY <1>0 DEF Results, StepResultStatus, Row
    <2>2. /\ \A p \in Steps : f[p] # None
          /\ \A p \in Steps : x.results[p] # None => f[p] = x.results[p]
      BY DEF StepResultStatus, Row
    <2>3. y = [x EXCEPT !.results = f]
      BY <1>2 DEF fail_paused_and_skip_rest, Row
    <2> HIDE DEF f
    <2>4. y \in Row /\ y.status = x.status /\ y.worker = x.worker /\ y.results = f
      BY <2>1, <2>3 DEF Row
    <2> QED BY <2>2, <2>4
  <1> QED BY <1>1, <1>2

(* Ending a Run from outside its Worker: the row keeps its owner and gets  *)
(* a terminal status and all its Step Results.                             *)
LEMMA EndingKeeps ==
    ASSUME NEW x \in Row, NEW z \in Row, NEW y \in Row,
           x.status \in RunStatus, z.results = x.results, z.worker = x.worker,
           z.status \in {"failed", "cancelled"},
           y \in {skip_unreached(z), fail_paused_and_skip_rest(z)}
    PROVE  /\ y.status = z.status /\ y.worker = x.worker
           /\ Grows(x, y) /\ Backed(y)
  <1>1. /\ y.status = z.status /\ y.worker = x.worker
        /\ \A p \in Steps : y.results[p] # None
        /\ \A p \in Steps : x.results[p] # None => y.results[p] = x.results[p]
    BY FillingKeeps
  <1>2. Grows(x, y)
    BY <1>1 DEF Grows, Row
  <1>3. Backed(y)
    BY <1>1 DEF Backed, Row
  <1> QED BY <1>1, <1>2, <1>3

(* close_waiting_run in reap.py, on whatever row its UPDATE finds.         *)
LEMMA CloseKeeps ==
    ASSUME NEW seen \in Row, NEW x \in Row, x.status \in RunStatus,
           NEW status \in {"failed", "cancelled"},
           NEW reason \in FailureReason \cup {None},
           NEW y \in {close_waiting_run(seen, x, status, reason, TRUE),
                      close_waiting_run(seen, x, status, reason, FALSE)}
    PROVE  /\ y \in Row /\ y.status = status /\ y.worker = x.worker
           /\ Grows(x, y) /\ Backed(y)
  <1> DEFINE z == [x EXCEPT !.status = status,
                            !.reason = IF reason = seen.reason THEN @ ELSE reason,
                            !.holder = IF seen.holder = None THEN @ ELSE None]
  <1>1. /\ z \in Row /\ z.results = x.results /\ z.worker = x.worker
        /\ z.status = status
    <2> DEFINE why == IF reason = seen.reason THEN x.reason ELSE reason
               who == IF seen.holder = None THEN x.holder ELSE None
    <2>1. why \in FailureReason \cup {None} /\ who \in Sessions \cup {None}
      BY DEF Row
    <2>2. z = [x EXCEPT !.status = status, !.reason = why, !.holder = who]
      BY DEF Row
    <2> HIDE DEF why, who, z
    <2> QED BY <2>1, <2>2 DEF Row
  <1>2. y \in {skip_unreached(z), fail_paused_and_skip_rest(z)}
    BY DEF close_waiting_run, Row
  <1> HIDE DEF z
  <1>3. y \in Row
    BY <1>1, <1>2, FillingKeeps
  <1>4. y.status = z.status /\ y.worker = x.worker /\ Grows(x, y) /\ Backed(y)
    BY <1>1, <1>2, <1>3, EndingKeeps
  <1> QED BY <1>1, <1>3, <1>4

(* The minute loop's two reapers, in the order reap_and_backstop runs them.*)
LEMMA ReapKeeps ==
    ASSUME NEW x \in Row
    PROVE  /\ reap(x) \in Row /\ reap(x).worker = x.worker
           /\ \/ reap(x).status = x.status
              \/ x.status \in Live /\ reap(x).status \in Terminal
           /\ Grows(x, reap(x))
           /\ Backed(x) => Backed(reap(x))
  <1>1. CASE x.status \in Live /\ x.quiet
    <2> DEFINE z == [x EXCEPT !.status = "failed", !.reason = "worker_lost"]
    <2>1. /\ z \in Row /\ z.results = x.results /\ z.worker = x.worker
          /\ z.status = "failed"
      BY <1>1 DEF FailureReason, Row
    <2>2. reap_lost_workers(x) = skip_unreached(z)
      BY <1>1 DEF reap_lost_workers, fail_worker_lost
    <2> HIDE DEF z
    <2>3. skip_unreached(z) \in Row /\ skip_unreached(z).status = "failed"
      BY <2>1, FillingKeeps
    <2>4. reap(x) = skip_unreached(z)
      BY <2>2, <2>3 DEF reap, reap_takeover_deadlines
    <2>5. /\ skip_unreached(z).status = "failed" /\ skip_unreached(z).worker = x.worker
          /\ Grows(x, skip_unreached(z)) /\ Backed(skip_unreached(z))
      BY <1>1, <2>1, <2>3, EndingKeeps
    <2> QED BY <1>1, <2>3, <2>4, <2>5
  <1>2. CASE ~(x.status \in Live /\ x.quiet)
    <2>1. reap(x) = reap_takeover_deadlines(x)
      BY <1>2 DEF reap, reap_lost_workers
    <2>2. CASE x.status = "waiting_for_human" /\ x.overdue
      <3>1. reap(x) = close_waiting_run(x, x, "failed", "takeover_timeout", TRUE)
        BY <2>1, <2>2 DEF reap_takeover_deadlines
      <3>2. "takeover_timeout" \in FailureReason \cup {None}
        BY DEF FailureReason
      <3> DEFINE y == close_waiting_run(x, x, "failed", "takeover_timeout", TRUE)
      <3>0. y \in {y, close_waiting_run(x, x, "failed", "takeover_timeout", FALSE)}
        OBVIOUS
      <3>3. /\ y \in Row /\ y.status = "failed" /\ y.worker = x.worker
            /\ Grows(x, y) /\ Backed(y)
        BY <2>2, <3>0, <3>2, CloseKeeps
      <3> HIDE DEF y
      <3>4. reap(x) = y
        BY <3>1 DEF y
      <3> QED BY <2>2, <3>3, <3>4
    <2>3. CASE ~(x.status = "waiting_for_human" /\ x.overdue)
      <3>1. reap(x) = x
        BY <2>1, <2>3 DEF reap_takeover_deadlines
      <3> QED BY <3>1, SameResults
    <2> QED BY <2>2, <2>3
  <1> QED BY <1>1, <1>2

(* The columns the other handlers write, on whatever row they find.        *)
LEMMA AskingKeeps ==
    ASSUME NEW seen \in Row, NEW x \in Row,
           NEW y \in {[x EXCEPT !.cancel = TRUE], pause_run(seen, x),
                      hold_takeover(seen, x, "hold"),
                      hold_takeover(seen, x, "unhold"), hand_back_run(seen, x)}
    PROVE  /\ y \in Row /\ y.status = x.status /\ y.worker = x.worker
           /\ y.results = x.results
  <1>1. CASE y = [x EXCEPT !.cancel = TRUE]
    BY <1>1 DEF Row
  <1>2. CASE y = pause_run(seen, x)
    <2>1. CASE seen.pause
      BY <1>2, <2>1 DEF pause_run
    <2>2. CASE ~seen.pause
      <3>1. y = [x EXCEPT !.pause = TRUE]
        BY <1>2, <2>2 DEF pause_run
      <3> QED BY <3>1 DEF Row
    <2> QED BY <2>1, <2>2
  <1>4. CASE y = hold_takeover(seen, x, "hold")
    <2>1. y = IF seen.auto THEN [x EXCEPT !.auto = FALSE] ELSE x
      BY <1>4 DEF hold_takeover
    <2>2. CASE seen.auto
      <3>1. y = [x EXCEPT !.auto = FALSE]
        BY <2>1, <2>2
      <3> QED BY <3>1 DEF Row
    <2>3. CASE ~seen.auto
      BY <2>1, <2>3
    <2> QED BY <2>2, <2>3
  <1>5. CASE y = hold_takeover(seen, x, "unhold")
    <2>1. y = IF seen.auto THEN x ELSE [x EXCEPT !.auto = TRUE]
      BY <1>5 DEF hold_takeover
    <2>2. CASE seen.auto
      BY <2>1, <2>2
    <2>3. CASE ~seen.auto
      <3>1. y = [x EXCEPT !.auto = TRUE]
        BY <2>1, <2>3
      <3> QED BY <3>1 DEF Row
    <2> QED BY <2>2, <2>3
  <1>6. CASE y = hand_back_run(seen, x)
    <2>1. CASE seen.handback
      BY <1>6, <2>1 DEF hand_back_run
    <2>2. CASE ~seen.handback
      <3>1. y = [x EXCEPT !.handback = TRUE]
        BY <1>6, <2>2 DEF hand_back_run
      <3> QED BY <3>1 DEF Row
    <2> QED BY <2>1, <2>2
  <1> QED BY <1>1, <1>2, <1>4, <1>5, <1>6

(* Any handler's UPDATE, made of whatever it loaded earlier: a Run never   *)
(* goes back, keeps its owner until it is deleted, and a verdict it is     *)
(* given is backed.                                                        *)
LEMMA WriteKeeps ==
    ASSUME NEW op \in Ops, NEW seen \in Row, NEW x \in Row, NEW s \in Sessions,
           op = "delete" => x.status \in Terminal \cup {"deleted"}
    PROVE  LET y == Write(op, seen, x, s) IN
           /\ y \in Row
           /\ Grows(x, y)
           /\ Backed(x) => Backed(y)
           /\ \/ y.status = x.status /\ y.worker = x.worker
              \/ x.status \in RunStatus /\ y.status \in Terminal /\ y.worker = x.worker
              \/ x.status \in Terminal /\ y.status = "deleted" /\ y.worker = None
  <1> DEFINE y == Write(op, seen, x, s)
             Ok(v) == /\ v \in Row
                      /\ Grows(x, v)
                      /\ Backed(x) => Backed(v)
                      /\ \/ v.status = x.status /\ v.worker = x.worker
                         \/ /\ x.status \in RunStatus /\ v.status \in Terminal
                            /\ v.worker = x.worker
                         \/ /\ x.status \in Terminal /\ v.status = "deleted"
                            /\ v.worker = None
  <1> SUFFICES Ok(y)
    OBVIOUS
  <1>1. CASE x.status \notin RunStatus
    <2>1. y = x
      BY <1>1 DEF Write
    <2>2. Ok(x)
      BY SameResults
    <2> QED BY <2>1, <2>2
  <1>2. CASE x.status \in RunStatus /\ op = "cancel"
    <2>0. y = cancel_run(seen, x)
      BY <1>2 DEF Write
    <2>1. CASE seen.status = "queued"
      <3> DEFINE v == [x EXCEPT !.status = "cancelled"]
      <3>1. v \in Row /\ v.status = "cancelled" /\ v.worker = x.worker
            /\ v.results = x.results
        BY DEF Row
      <3>2. y = v
        BY <2>0, <2>1 DEF cancel_run
      <3> HIDE DEF v, y
      <3>3. Grows(x, v) /\ Backed(v)
        BY <1>2, <3>1 DEF Grows, Backed
      <3> QED BY <1>2, <3>1, <3>2, <3>3
    <2>2. CASE seen.status = "waiting_for_human"
      <3> DEFINE v == close_waiting_run(seen, x, "cancelled", None, FALSE)
      <3>1. y = v
        BY <2>0, <2>2 DEF cancel_run
      <3>2. v \in {close_waiting_run(seen, x, "cancelled", None, TRUE), v}
        OBVIOUS
      <3>3. /\ v \in Row /\ v.status = "cancelled" /\ v.worker = x.worker
            /\ Grows(x, v) /\ Backed(v)
        BY <1>2, <3>2, CloseKeeps
      <3> HIDE DEF v, y
      <3> QED BY <1>2, <3>1, <3>3
    <2>3. CASE seen.status \notin {"queued", "waiting_for_human"}
      <3>1. y = [x EXCEPT !.cancel = TRUE]
        BY <2>0, <2>3 DEF cancel_run
      <3> HIDE DEF y
      <3>2. y \in Row /\ y.status = x.status /\ y.worker = x.worker
            /\ y.results = x.results
        BY <3>1, AskingKeeps
      <3> QED BY <3>2, SameResults
    <2> QED BY <2>1, <2>2, <2>3
  <1>3. CASE x.status \in RunStatus /\ op \in {"pause", "take", "hold", "unhold", "handback"}
    <2>1. \/ y = pause_run(seen, x)
          \/ y = take_over_run(seen, x, s)
          \/ y = hold_takeover(seen, x, "hold")
          \/ y = hold_takeover(seen, x, "unhold")
          \/ y = hand_back_run(seen, x)
      BY <1>3 DEF Write
    <2> HIDE DEF y
    <2>2. y \in Row /\ y.status = x.status /\ y.worker = x.worker
          /\ y.results = x.results
      <3>1. CASE y = pause_run(seen, x)
        BY <3>1, AskingKeeps
      <3>2. CASE y = take_over_run(seen, x, s)
        BY <3>2 DEF take_over_run, Row
      <3>3. CASE y = hold_takeover(seen, x, "hold")
        BY <3>3, AskingKeeps
      <3>4. CASE y = hold_takeover(seen, x, "unhold")
        BY <3>4, AskingKeeps
      <3>5. CASE y = hand_back_run(seen, x)
        BY <3>5, AskingKeeps
      <3> QED BY <2>1, <3>1, <3>2, <3>3, <3>4, <3>5
    <2> QED BY <2>2, SameResults
  <1>4. CASE x.status \in RunStatus /\ op = "abandon"
    <2> DEFINE v == close_waiting_run(seen, x, "failed", "takeover_abandoned", TRUE)
    <2>1. y = v
      BY <1>4 DEF Write, abandon_takeover
    <2>2. v \in {v, close_waiting_run(seen, x, "failed", "takeover_abandoned", FALSE)}
      OBVIOUS
    <2>3. "takeover_abandoned" \in FailureReason \cup {None}
      BY DEF FailureReason
    <2>4. /\ v \in Row /\ v.status = "failed" /\ v.worker = x.worker
          /\ Grows(x, v) /\ Backed(v)
      BY <1>4, <2>2, <2>3, CloseKeeps
    <2> HIDE DEF v, y
    <2> QED BY <1>4, <2>1, <2>4
  <1>5. CASE x.status \in RunStatus /\ op = "delete"
    <2>1. y = Deleted
      BY <1>5 DEF Write
    <2>2. Grows(x, Deleted) /\ Backed(Deleted)
      BY <1>5, BlankRows DEF Grows, Backed
    <2> HIDE DEF y
    <2> QED BY <1>5, <2>1, <2>2, BlankRows
  <1> QED BY <1>1, <1>2, <1>3, <1>4, <1>5 DEF Ops
=============================================================================

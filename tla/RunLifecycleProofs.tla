------------------------- MODULE RunLifecycleProofs -------------------------
(***************************************************************************)
(* Proofs about RunLifecycle for any number of Runs, Workers, Sessions and *)
(* Steps: the type invariant, one executor per Run, the verdict backed by  *)
(* the Step Results, and the refinement of RunPromise.                     *)
(*                                                                         *)
(* Every action changes at most one Worker and either one row or, in tick, *)
(* all rows; what it does to them is summarised by Acts and Phase below,   *)
(* and the invariant is shown preserved by whatever obeys the summary.     *)
(***************************************************************************)
EXTENDS RunLifecycle, RunRowProofs

Inv == TypeOK /\ ExecutorInv /\ OneExecutor /\ VerdictMatchesResults

\* A row may become this: the results so far stay and a verdict is backed.
Follows(x, y) == y \in Row /\ Grows(x, y) /\ (Backed(x) => Backed(y))

\* How status and owner move together: what RunPromise allows of one Run.
Phase(x, y) ==
    \/ y.status = x.status /\ y.worker = x.worker
    \/ x.status = "absent" /\ y.status = "queued" /\ y.worker = x.worker
    \/ x.status = "queued" /\ y.status = "running" /\ y.worker \in Workers
    \/ {x.status, y.status} = Live /\ y.worker = x.worker
    \/ x.status \in RunStatus /\ y.status \in Terminal /\ y.worker = x.worker
    \/ x.status \in Terminal /\ y.status = "deleted" /\ y.worker = None

\* A Worker in state me, its row being x, goes to state st and its row to y.
Acts(me, x, st, y) ==
    /\ st \in WorkerState
    /\ Follows(x, y)
    /\ Phase(x, y)
    /\ LocalInv(st) /\ RowInv(st, y)
    /\ st.pc \in Executing =>
         st.run = me.run /\ (me.pc \in Executing \/ x.status = "queued")

(* Not executing, a Worker owes nothing to any row.                        *)
LEMMA Idles ==
    ASSUME NEW me \in WorkerState, NEW y, me.pc \notin Executing
    PROVE  RowInv(me, y)
  BY DEF RowInv

(* What other actors do to its row does not disturb an executor.           *)
LEMMA Undisturbed ==
    ASSUME NEW me \in WorkerState, NEW x \in Row, NEW y \in Row,
           RowInv(me, x), Grows(x, y)
    PROVE  RowInv(me, y)
  <1>1. me.pc \in Executing => y.status \notin {"absent", "queued"}
    BY DEF RowInv, Grows
  <1>2. me.pc \in Executing /\ y.status # "deleted" =>
          /\ x.status # "deleted"
          /\ \A p \in Steps : x.results[p] # None => y.results[p] = x.results[p]
    BY DEF RowInv, Grows
  <1> QED BY <1>1, <1>2 DEF RowInv

LEMMA SameRow ==
    ASSUME NEW x \in Row
    PROVE  Follows(x, x) /\ Phase(x, x)
  BY SameResults DEF Follows, Phase

(* An executor goes on: what it newly counts as reached has its result.    *)
LEMMA Onward ==
    ASSUME NEW me \in WorkerState, NEW st \in WorkerState, NEW x \in Row, NEW y \in Row,
           RowInv(me, x), LocalInv(st), Follows(x, y), Phase(x, y),
           me.pc \in Executing, st.pc \in Executing, st.run = me.run,
           Clean(st) => Clean(me),
           \A p \in Steps : p < Reached(st) =>
              \/ p < Reached(me)
              \/ y.results[p] # None /\ (Clean(st) => y.results[p] # "failed")
    PROVE  Acts(me, x, st, y)
  <1>1. RowInv(me, y)
    BY Undisturbed DEF Follows
  <1>2. RowInv(st, y)
    BY <1>1 DEF RowInv
  <1> QED BY <1>2 DEF Acts

(* An executor stops with a verdict, or with it and the row as they are.   *)
LEMMA StopActs ==
    ASSUME NEW me \in WorkerState, NEW x \in Row, LocalInv(me), RowInv(me, x),
           me.pc \in Executing, NEW status \in {"failed", "cancelled"},
           NEW why \in FailureReason \cup {None},
           NEW from \in Nat, from <= Reached(me)
    PROVE  Acts(me, x, Stop(me, status, why, from), x)
  <1> DEFINE st == Stop(me, status, why, from)
  <1>1. /\ st \in WorkerState /\ st.pc = "skip" /\ st.run = me.run /\ st.pos = from
        /\ st.back = None /\ st.status = status
    BY DEF Stop, WorkerState, PCs, Terminal
  <1> HIDE DEF st
  <1>2. LocalInv(st)
    BY <1>1 DEF LocalInv, InStep, Executing
  <1>3. Reached(st) = from /\ ~Clean(st)
    BY <1>1, NullAssumption DEF Reached, Clean, Returns
  <1>4. \A p \in Steps : p < Reached(st) => p < Reached(me)
    BY <1>3 DEF Steps, Reached, WorkerState
  <1>5. st.pc \in Executing
    BY <1>1 DEF Executing, PCs
  <1> QED BY <1>1, <1>2, <1>3, <1>4, <1>5, SameRow, Onward DEF st

-----------------------------------------------------------------------------
(* What a step of Worker w does, in one formula for all its actions.       *)
OnItsOwn(w) ==
    /\ \E st \in WorkerState :
         /\ worker' = [worker EXCEPT ![w] = st]
         /\ \/ row' = row /\ st.pc \notin Executing /\ LocalInv(st)
            \/ /\ worker[w].run \in Runs
               /\ \E y \in Row :
                    /\ row' = [row EXCEPT ![worker[w].run] = y]
                    /\ Acts(worker[w], row[worker[w].run], st, y)
    /\ dispatch' \in Seq(Runs) /\ crashes' \in Nat
    /\ UNCHANGED <<handler, tick_ids, asks>>

LEMMA NoWorkQuits ==
    \A st \in {NoWork, Dead} :
        st \in WorkerState /\ st.pc \notin Executing /\ LocalInv(st)
  <1>1. NoWork \in WorkerState /\ NoWork.pc = "idle" /\ NoWork.back = None
    BY DEF NoWork, WorkerState, PCs
  <1>2. Dead \in WorkerState /\ Dead.pc = "dead" /\ Dead.back = None
    BY <1>1 DEF Dead, NoWork, WorkerState, PCs
  <1> QED BY <1>1, <1>2 DEF LocalInv, Executing, InStep

(* The three ways an action reports: with a write, without one, giving up. *)
LEMMA ReportWrite ==
    ASSUME TypeOK, NEW w \in Workers, NEW st, NEW y,
           worker[w].run \in Runs, Becomes(w, st), RowBecomes(w, y),
           Acts(worker[w], row[worker[w].run], st, y)
    PROVE  OnItsOwn(w)
  BY DEF OnItsOwn, TypeOK, Becomes, RowBecomes, Acts, Follows

LEMMA ReportMove ==
    ASSUME TypeOK, NEW w \in Workers, NEW st,
           worker[w].run \in Runs, Becomes(w, st), UNCHANGED row,
           Acts(worker[w], row[worker[w].run], st, row[worker[w].run])
    PROVE  OnItsOwn(w)
  <1>1. RowBecomes(w, row[worker[w].run])
    BY DEF TypeOK, RowBecomes
  <1> QED BY <1>1, ReportWrite

LEMMA ReportQuit ==
    ASSUME TypeOK, NEW w \in Workers, NEW st \in {NoWork, Dead},
           Becomes(w, st), UNCHANGED row
    PROVE  OnItsOwn(w)
  BY NoWorkQuits DEF OnItsOwn, TypeOK, Becomes

(* Facts every action starts from.                                         *)
LEMMA Begins ==
    ASSUME Inv, NEW w \in Workers
    PROVE  /\ TypeOK /\ worker[w] \in WorkerState /\ LocalInv(worker[w])
           /\ RowInv(worker[w], row[worker[w].run])
           /\ worker[w].pc \in PCs \ {"idle", "dead"} =>
                worker[w].run \in Runs /\ row[worker[w].run] \in Row
  BY DEF Inv, TypeOK, ExecutorInv, LocalInv

LEMMA BrpopActs ==
    ASSUME Inv, NEW w \in Workers, brpop(w)
    PROVE  OnItsOwn(w)
  <1> DEFINE st == [NoWork EXCEPT !.pc = "popped", !.run = Head(dispatch)]
  <1>1. TypeOK
    BY DEF Inv
  <1>2. Head(dispatch) \in Runs /\ Tail(dispatch) \in Seq(Runs)
    BY <1>1 DEF TypeOK, brpop
  <1>3. /\ st \in WorkerState /\ st.pc = "popped" /\ st.run \in Runs
        /\ st.back = None /\ st.pos = 0
    BY <1>2 DEF NoWork, WorkerState, PCs
  <1>4. worker' = [worker EXCEPT ![w] = st]
    BY DEF brpop
  <1> HIDE DEF st
  <1>5. LocalInv(st) /\ st.pc \notin Executing
    BY <1>3 DEF LocalInv, Executing, InStep
  <1> QED BY <1>1, <1>2, <1>3, <1>4, <1>5 DEF OnItsOwn, brpop, TypeOK

LEMMA ClaimActs ==
    ASSUME Inv, NEW w \in Workers, ClaimRun(w)
    PROVE  OnItsOwn(w)
  <1> DEFINE me == worker[w]
             x == row[me.run]
  <1>1. me \in WorkerState /\ x \in Row /\ LocalInv(me) /\ me.run \in Runs /\ TypeOK
    BY Begins DEF ClaimRun, PCs
  <1>2. RowBecomes(w, claim(x, w))
    BY DEF ClaimRun
  <1>3. CASE x.status = "queued"
    <2> DEFINE st == [me EXCEPT !.pc = "start"]
               y == claim(x, w)
    <2>1. Becomes(w, st)
      BY <1>3 DEF ClaimRun, Claimable
    <2>2. /\ st \in WorkerState /\ st.pc = "start" /\ st.run = me.run
          /\ st.pos = me.pos /\ st.back = me.back
      BY <1>1 DEF WorkerState, PCs
    <2>3. me.pc = "popped" /\ me.back = None /\ me.pos = 0
      BY <1>1 DEF ClaimRun, LocalInv
    <2>4. Follows(x, y) /\ Phase(x, y) /\ y.status = "running"
      BY <1>1, <1>3, ClaimKeeps DEF Follows, Phase
    <2> HIDE DEF st, y
    <2>5. LocalInv(st)
      BY <1>1, <2>2, <2>3 DEF LocalInv, InStep
    <2>6. RowInv(st, y)
      <3>1. Reached(st) = 0
        BY <2>2, <2>3, NullAssumption DEF Reached, Returns
      <3> QED BY <2>4, <3>1 DEF RowInv, Steps
    <2>7. Acts(me, x, st, y)
      BY <1>3, <2>2, <2>4, <2>5, <2>6 DEF Acts
    <2> QED BY <1>1, <1>2, <2>1, <2>7, ReportWrite DEF y
  <1>4. CASE x.status # "queued"
    <2>1. claim(x, w) = x
      BY <1>4 DEF claim, Claimable
    <2>2. UNCHANGED row
      BY <1>1, <1>2, <2>1 DEF RowBecomes, TypeOK
    <2>3. Becomes(w, NoWork)
      BY <1>4 DEF ClaimRun, Claimable
    <2> QED BY <1>1, <2>2, <2>3, ReportQuit
  <1> QED BY <1>3, <1>4

(* An executor moves on and writes nothing.                                *)
LEMMA MoveActs ==
    ASSUME Inv, NEW w \in Workers, NEW st \in WorkerState,
           Becomes(w, st), UNCHANGED row, worker[w].pc \in Executing,
           st.pc \in Executing, st.run = worker[w].run, LocalInv(st),
           Clean(st) => Clean(worker[w]), Reached(st) <= Reached(worker[w])
    PROVE  OnItsOwn(w)
  <1> DEFINE me == worker[w]
             x == row[me.run]
  <1>1. me \in WorkerState /\ x \in Row /\ RowInv(me, x) /\ me.run \in Runs /\ TypeOK
    BY Begins DEF Executing
  <1>2. \A p \in Steps : p < Reached(st) => p < Reached(me)
    BY <1>1 DEF Steps, Reached, WorkerState
  <1>3. Acts(me, x, st, x)
    BY <1>1, <1>2, SameRow, Onward
  <1> QED BY <1>1, <1>3, ReportMove

(* An executor stops with a verdict.                                       *)
LEMMA StopsActs ==
    ASSUME Inv, NEW w \in Workers, worker[w].pc \in Executing, UNCHANGED row,
           NEW status \in {"failed", "cancelled"},
           NEW why \in FailureReason \cup {None},
           NEW from \in Nat, from <= Reached(worker[w]),
           Becomes(w, Stop(worker[w], status, why, from))
    PROVE  OnItsOwn(w)
  <1>1. /\ worker[w] \in WorkerState /\ row[worker[w].run] \in Row /\ LocalInv(worker[w])
        /\ RowInv(worker[w], row[worker[w].run]) /\ worker[w].run \in Runs /\ TypeOK
    BY Begins DEF Executing
  <1>2. Acts(worker[w], row[worker[w].run], Stop(worker[w], status, why, from),
             row[worker[w].run])
    BY <1>1, StopActs
  <1> QED BY <1>1, <1>2, ReportMove

LEMMA StartActs ==
    ASSUME Inv, NEW w \in Workers, StartExecute(w)
    PROVE  OnItsOwn(w)
  <1> DEFINE me == worker[w]
  <1>1. me \in WorkerState /\ LocalInv(me) /\ TypeOK
    BY Begins
  <1>2. me.pc = "start" /\ me.pc \in Executing /\ UNCHANGED row
    BY DEF StartExecute, Executing, PCs
  <1>3. CASE Becomes(w, Dead)
    BY <1>1, <1>2, <1>3, ReportQuit
  <1>4. CASE Becomes(w, [me EXCEPT !.pc = "head"])
    <2> DEFINE st == [me EXCEPT !.pc = "head"]
    <2>1. /\ st \in WorkerState /\ st.pc = "head" /\ st.run = me.run
          /\ st.pos = me.pos /\ st.back = me.back
      BY <1>1 DEF WorkerState, PCs
    <2> HIDE DEF st
    <2>2. LocalInv(st) /\ st.pc \in Executing
      BY <1>1, <1>2, <2>1 DEF LocalInv, InStep, Executing, PCs
    <2>3. Reached(st) <= Reached(me) /\ Clean(me)
      BY <1>1, <1>2, <2>1 DEF Reached, Clean, WorkerState
    <2> QED BY <1>2, <1>4, <2>1, <2>2, <2>3, MoveActs DEF st
  <1>5. CASE \E why \in {"missing_secret", "startup_failed"} :
               Becomes(w, Stop(me, "failed", why, 0))
    <2>1. PICK why \in {"missing_secret", "startup_failed"} :
             Becomes(w, Stop(me, "failed", why, 0))
      BY <1>5
    <2>2. why \in FailureReason \cup {None}
      BY DEF FailureReason
    <2>3. 0 <= Reached(me)
      BY <1>1 DEF Reached, WorkerState
    <2> QED BY <1>2, <2>1, <2>2, <2>3, StopsActs
  <1> QED BY <1>3, <1>4, <1>5 DEF StartExecute

LEMMA QuitActs ==
    ASSUME Inv, NEW w \in Workers, LetGo(w) \/ Restart(w) \/ WorkerCrash(w)
    PROVE  OnItsOwn(w)
  <1>1. TypeOK
    BY DEF Inv
  <1>2. CASE LetGo(w) \/ Restart(w)
    BY <1>1, <1>2, ReportQuit DEF LetGo, Restart
  <1>3. CASE WorkerCrash(w)
    <2>1. row' = row /\ worker' = [worker EXCEPT ![w] = Dead]
      BY <1>3 DEF WorkerCrash
    <2>2. /\ dispatch' \in Seq(Runs) /\ crashes' \in Nat
          /\ UNCHANGED <<handler, tick_ids, asks>>
      BY <1>1, <1>3 DEF WorkerCrash, TypeOK
    <2> QED BY <2>1, <2>2, NoWorkQuits DEF OnItsOwn
  <1> QED BY <1>2, <1>3

LEMMA CancelActs ==
    ASSUME Inv, NEW w \in Workers, CancelSeen(w)
    PROVE  OnItsOwn(w)
  <1> DEFINE me == worker[w]
             from == IF me.pc = "tail" THEN me.pos + 1 ELSE me.pos
  <1>1. me \in WorkerState
    BY Begins
  <1>2. me.pc \in Executing /\ UNCHANGED row /\ Becomes(w, Stop(me, "cancelled", None, from))
    BY DEF CancelSeen, Executing, PCs
  <1>3. from \in Nat /\ from <= Reached(me)
    BY <1>1 DEF Reached, WorkerState
  <1> QED BY <1>2, <1>3, StopsActs

(* park_for_human up to store.park.                                        *)
LEMMA ParkActs ==
    ASSUME Inv, NEW w \in Workers, NEW back \in Returns, ParkAt(w, back),
           worker[w].pc \in {"head", "ready", "act", "tail"},
           worker[w].pos < NSteps, back = "next" => worker[w].pc = "tail"
    PROVE  OnItsOwn(w)
  <1> DEFINE me == worker[w]
             x == row[me.run]
             st == [me EXCEPT !.pc = "parked", !.back = back]
             y == park(x)
  <1>1. /\ me \in WorkerState /\ x \in Row /\ LocalInv(me) /\ RowInv(me, x)
        /\ me.run \in Runs /\ TypeOK
    BY Begins DEF PCs
  <1>2. /\ st \in WorkerState /\ st.pc = "parked" /\ st.run = me.run
        /\ st.pos = me.pos /\ st.back = back
    BY <1>1 DEF WorkerState, PCs
  <1>3. Becomes(w, st) /\ RowBecomes(w, y)
    BY DEF ParkAt
  <1>4. y \in Row /\ Follows(x, y) /\ Phase(x, y)
    BY <1>1, ParkingKeeps DEF Follows, Phase
  <1> HIDE DEF st, y
  <1>5. LocalInv(st) /\ st.pc \in Executing /\ me.pc \in Executing
    BY <1>1, <1>2, NullAssumption DEF LocalInv, InStep, Executing, PCs
  <1>6. Reached(st) <= Reached(me) /\ Clean(me)
    BY <1>1, <1>2, <1>5 DEF Reached, Clean, WorkerState
  <1>7. \A p \in Steps : p < Reached(st) => p < Reached(me)
    BY <1>1, <1>2, <1>6 DEF Steps, Reached, WorkerState
  <1>8. Acts(me, x, st, y)
    BY <1>1, <1>2, <1>4, <1>5, <1>6, <1>7, Onward
  <1> QED BY <1>1, <1>3, <1>8, ReportWrite

LEMMA PauseActs ==
    ASSUME Inv, NEW w \in Workers, PauseSeen(w)
    PROVE  OnItsOwn(w)
  <1> DEFINE me == worker[w]
  <1>1. me \in WorkerState /\ LocalInv(me) /\ TypeOK
    BY Begins
  <1>2. me.pc \in {"head", "act", "retry", "tail"} /\ me.pos < NSteps
    BY <1>1 DEF PauseSeen, LocalInv, InStep
  <1>3. CASE me.pc = "head"
    <2>1. ParkAt(w, "ready")
      BY <1>3 DEF PauseSeen
    <2> QED BY <1>2, <1>3, <2>1, ParkActs DEF Returns
  <1>4. CASE me.pc = "act"
    <2>1. ParkAt(w, "retry")
      BY <1>4 DEF PauseSeen
    <2> QED BY <1>2, <1>4, <2>1, ParkActs DEF Returns
  <1>5. CASE me.pc = "tail"
    <2>1. ParkAt(w, "next")
      BY <1>5 DEF PauseSeen
    <2> QED BY <1>2, <1>5, <2>1, ParkActs DEF Returns
  <1>6. CASE me.pc = "retry"
    <2>1. UNCHANGED row /\ Becomes(w, Dead)
      BY <1>6 DEF PauseSeen
    <2> QED BY <1>1, <2>1, ReportQuit
  <1> QED BY <1>2, <1>3, <1>4, <1>5, <1>6

LEMMA EnterActs ==
    ASSUME Inv, NEW w \in Workers, EnterStep(w)
    PROVE  OnItsOwn(w)
  <1> DEFINE me == worker[w]
  <1>1. me \in WorkerState /\ LocalInv(me) /\ TypeOK
    BY Begins
  <1>2. me.pc = "head" /\ me.pc \in Executing /\ UNCHANGED row
    BY DEF EnterStep, Executing, PCs
  <1>3. CASE me.pos >= NSteps /\ Becomes(w, [me EXCEPT !.pc = "finish", !.status = "succeeded"])
    <2> DEFINE st == [me EXCEPT !.pc = "finish", !.status = "succeeded"]
    <2>1. /\ st \in WorkerState /\ st.pc = "finish" /\ st.run = me.run
          /\ st.pos = me.pos /\ st.back = me.back /\ st.status = "succeeded"
      BY <1>1 DEF WorkerState, PCs, Terminal
    <2> HIDE DEF st
    <2>2. LocalInv(st) /\ st.pc \in Executing
      BY <1>1, <1>2, <1>3, <2>1 DEF LocalInv, InStep, Executing, PCs, Terminal
    <2>3. Reached(st) <= Reached(me) /\ Clean(me)
      BY <1>1, <1>2, <2>1 DEF Reached, Clean, WorkerState
    <2> QED BY <1>2, <1>3, <2>1, <2>2, <2>3, MoveActs DEF st
  <1>4. CASE me.pos < NSteps /\ Becomes(w, [me EXCEPT !.pc = "ready"])
    <2> DEFINE st == [me EXCEPT !.pc = "ready"]
    <2>1. /\ st \in WorkerState /\ st.pc = "ready" /\ st.run = me.run
          /\ st.pos = me.pos /\ st.back = me.back
      BY <1>1 DEF WorkerState, PCs
    <2> HIDE DEF st
    <2>2. LocalInv(st) /\ st.pc \in Executing
      BY <1>1, <1>2, <1>4, <2>1 DEF LocalInv, InStep, Executing, PCs
    <2>3. Reached(st) <= Reached(me) /\ Clean(me)
      BY <1>1, <1>2, <2>1 DEF Reached, Clean, WorkerState
    <2> QED BY <1>2, <1>4, <2>1, <2>2, <2>3, MoveActs DEF st
  <1> QED BY <1>3, <1>4 DEF EnterStep

LEMMA BeginActs ==
    ASSUME Inv, NEW w \in Workers, BeginStep(w)
    PROVE  OnItsOwn(w)
  <1> DEFINE me == worker[w]
  <1>1. me \in WorkerState /\ LocalInv(me) /\ TypeOK
    BY Begins
  <1>2. me.pc = "ready" /\ me.pc \in Executing /\ me.pos < NSteps
    BY <1>1 DEF BeginStep, Executing, PCs, LocalInv, InStep
  <1>3. CASE UNCHANGED row /\ Becomes(w, Stop(me, "failed", "run_timeout", me.pos))
    <2>1. "run_timeout" \in FailureReason \cup {None}
      BY DEF FailureReason
    <2>2. me.pos \in Nat /\ me.pos <= Reached(me)
      BY <1>1 DEF Reached, WorkerState
    <2> QED BY <1>2, <1>3, <2>1, <2>2, StopsActs
  <1>4. CASE ParkAt(w, "takeover")
    BY <1>2, <1>4, ParkActs DEF Returns
  <1>5. CASE UNCHANGED row /\ Becomes(w, [me EXCEPT !.pc = "act", !.back = None])
    <2> DEFINE st == [me EXCEPT !.pc = "act", !.back = None]
    <2>1. /\ st \in WorkerState /\ st.pc = "act" /\ st.run = me.run
          /\ st.pos = me.pos /\ st.back = None
      BY <1>1 DEF WorkerState, PCs
    <2> HIDE DEF st
    <2>2. LocalInv(st) /\ st.pc \in Executing
      BY <1>1, <1>2, <2>1 DEF LocalInv, InStep, Executing, PCs
    <2>3. Reached(st) <= Reached(me) /\ Clean(me)
      BY <1>1, <1>2, <2>1, NullAssumption DEF Reached, Clean, WorkerState, Returns
    <2> QED BY <1>2, <1>5, <2>1, <2>2, <2>3, MoveActs DEF st
  <1> QED BY <1>3, <1>4, <1>5 DEF BeginStep

LEMMA PerformActs ==
    ASSUME Inv, NEW w \in Workers, PerformStep(w)
    PROVE  OnItsOwn(w)
  <1> DEFINE me == worker[w]
  <1>1. me \in WorkerState /\ LocalInv(me)
    BY Begins
  <1>2. me.pc \in {"act", "retry"} /\ me.pc \in Executing /\ UNCHANGED row
    BY DEF PerformStep, Executing, PCs
  <1>3. PICK out \in StepResultStatus :
           Becomes(w, [me EXCEPT !.pc = "record", !.status = out, !.back = None])
    BY DEF PerformStep
  <1> DEFINE st == [me EXCEPT !.pc = "record", !.status = out, !.back = None]
  <1>4. /\ st \in WorkerState /\ st.pc = "record" /\ st.run = me.run
        /\ st.pos = me.pos /\ st.back = None /\ st.status = out
    BY <1>1 DEF WorkerState, PCs
  <1> HIDE DEF st
  <1>5. LocalInv(st) /\ st.pc \in Executing
    BY <1>1, <1>2, <1>4 DEF LocalInv, InStep, Executing, PCs
  <1>6. Reached(st) <= Reached(me) /\ Clean(me)
    BY <1>1, <1>2, <1>4, NullAssumption DEF Reached, Clean, WorkerState, Returns
  <1> QED BY <1>2, <1>3, <1>4, <1>5, <1>6, MoveActs DEF st

LEMMA LeaveActs ==
    ASSUME Inv, NEW w \in Workers, LeaveStep(w)
    PROVE  OnItsOwn(w)
  <1> DEFINE me == worker[w]
             st == [me EXCEPT !.pc = "next"]
  <1>1. me \in WorkerState /\ LocalInv(me)
    BY Begins
  <1>2. me.pc = "tail" /\ me.pc \in Executing /\ UNCHANGED row /\ Becomes(w, st)
    BY DEF LeaveStep, Executing, PCs
  <1>3. /\ st \in WorkerState /\ st.pc = "next" /\ st.run = me.run
        /\ st.pos = me.pos /\ st.back = me.back
    BY <1>1 DEF WorkerState, PCs
  <1> HIDE DEF st
  <1>4. LocalInv(st) /\ st.pc \in Executing
    BY <1>1, <1>2, <1>3 DEF LocalInv, InStep, Executing, PCs
  <1>5. Reached(st) <= Reached(me) /\ Clean(me)
    BY <1>1, <1>2, <1>3 DEF Reached, Clean, WorkerState
  <1> QED BY <1>2, <1>3, <1>4, <1>5, MoveActs

LEMMA NextActs ==
    ASSUME Inv, NEW w \in Workers, NextStep(w)
    PROVE  OnItsOwn(w)
  <1> DEFINE me == worker[w]
  <1>1. me \in WorkerState /\ LocalInv(me)
    BY Begins
  <1>2. me.pc = "next" /\ me.pc \in Executing /\ UNCHANGED row
    BY DEF NextStep, Executing, PCs
  <1>3. CASE Becomes(w, [me EXCEPT !.pc = "head", !.pos = @ + 1, !.back = None])
    <2> DEFINE n == me.pos + 1
               st == [me EXCEPT !.pc = "head", !.pos = @ + 1, !.back = None]
    <2>0. st = [me EXCEPT !.pc = "head", !.pos = n, !.back = None] /\ n \in Nat
      BY <1>1 DEF WorkerState
    <2> HIDE DEF n, st
    <2>1. /\ st \in WorkerState /\ st.pc = "head" /\ st.run = me.run
          /\ st.pos = n /\ st.back = None
      BY <1>1, <2>0 DEF WorkerState, PCs
    <2> USE DEF n
    <2>2. LocalInv(st) /\ st.pc \in Executing
      BY <1>1, <1>2, <2>1 DEF LocalInv, InStep, Executing, PCs
    <2>3. Reached(st) <= Reached(me) /\ Clean(me)
      BY <1>1, <1>2, <2>1, NullAssumption DEF Reached, Clean, WorkerState, Returns
    <2> QED BY <1>2, <1>3, <2>1, <2>2, <2>3, MoveActs DEF st
  <1>4. CASE Becomes(w, Stop(me, "failed", "run_timeout", me.pos + 1))
    <2>1. "run_timeout" \in FailureReason \cup {None}
      BY DEF FailureReason
    <2>2. me.pos + 1 \in Nat /\ me.pos + 1 <= Reached(me)
      BY <1>1, <1>2 DEF Reached, WorkerState
    <2> QED BY <1>2, <1>4, <2>1, <2>2, StopsActs
  <1> QED BY <1>3, <1>4 DEF NextStep

LEMMA HandBackActs ==
    ASSUME Inv, NEW w \in Workers, HandBackSeen(w)
    PROVE  OnItsOwn(w)
  <1> DEFINE me == worker[w]
             st == [me EXCEPT !.pc = "verifying"]
  <1>1. me \in WorkerState /\ LocalInv(me)
    BY Begins
  <1>2. me.pc = "parked" /\ me.pc \in Executing /\ UNCHANGED row /\ Becomes(w, st)
    BY DEF HandBackSeen, Executing, PCs
  <1>3. /\ st \in WorkerState /\ st.pc = "verifying" /\ st.run = me.run
        /\ st.pos = me.pos /\ st.back = me.back
    BY <1>1 DEF WorkerState, PCs
  <1> HIDE DEF st
  <1>4. LocalInv(st) /\ st.pc \in Executing
    BY <1>1, <1>2, <1>3 DEF LocalInv, InStep, Executing, PCs
  <1>5. Reached(st) <= Reached(me) /\ Clean(me)
    BY <1>1, <1>2, <1>3 DEF Reached, Clean, WorkerState
  <1> QED BY <1>2, <1>3, <1>4, <1>5, MoveActs

(* An executor records a Step Result and counts the Step as reached.       *)
LEMMA InsertActs ==
    ASSUME Inv, NEW w \in Workers, NEW st \in WorkerState,
           NEW status \in StepResultStatus,
           worker[w].pc \in Executing, worker[w].pos \in Steps,
           CanInsert(row[worker[w].run], worker[w].pos), Becomes(w, st),
           RowBecomes(w, add_result(row[worker[w].run], worker[w].pos, status)),
           st.pc \in Executing, st.run = worker[w].run, LocalInv(st),
           Reached(st) <= worker[w].pos + 1,
           Clean(st) => Clean(worker[w]) /\ status # "failed"
    PROVE  OnItsOwn(w)
  <1> DEFINE me == worker[w]
             x == row[me.run]
             y == add_result(x, me.pos, status)
  <1>1. /\ me \in WorkerState /\ x \in Row /\ RowInv(me, x) /\ me.run \in Runs /\ TypeOK
    BY Begins DEF Executing
  <1>2. /\ y \in Row /\ y.status = x.status /\ y.worker = x.worker
        /\ y.results = [x.results EXCEPT ![me.pos] = status]
        /\ Grows(x, y) /\ (Backed(x) => Backed(y))
    BY <1>1, InsertKeeps
  <1>3. Follows(x, y) /\ Phase(x, y)
    BY <1>2 DEF Follows, Phase
  <1>4. x.results \in Results
    BY <1>1 DEF Row
  <1>5. y.results[me.pos] = status
    BY <1>2, <1>4 DEF Results
  <1> HIDE DEF y
  <1>6. \A p \in Steps : p < Reached(st) => p < Reached(me) \/ p = me.pos
    BY <1>1 DEF Steps, Reached, WorkerState
  <1>7. \A p \in Steps : p < Reached(st) =>
          \/ p < Reached(me)
          \/ y.results[p] # None /\ (Clean(st) => y.results[p] # "failed")
    BY <1>5, <1>6, NoneAssumption
  <1>8. Acts(me, x, st, y)
    BY <1>1, <1>2, <1>3, <1>7, Onward
  <1> QED BY <1>1, <1>8, ReportWrite DEF y

LEMMA RecordActs ==
    ASSUME Inv, NEW w \in Workers, RecordStep(w)
    PROVE  OnItsOwn(w)
  <1> DEFINE me == worker[w]
             x == row[me.run]
  <1>1. me \in WorkerState /\ LocalInv(me) /\ TypeOK
    BY Begins
  <1>2. /\ me.pc = "record" /\ me.pc \in Executing /\ me.back = None
        /\ me.status \in StepResultStatus
    BY <1>1 DEF RecordStep, Executing, PCs, LocalInv
  <1>3. me.pos \in Steps /\ me.pos \in Nat
    BY <1>1, <1>2, NStepsAssumption DEF LocalInv, InStep, Steps, WorkerState
  <1>4. CASE ~CanInsert(x, me.pos)
    <2>1. UNCHANGED row /\ Becomes(w, Dead)
      BY <1>4 DEF RecordStep
    <2> QED BY <1>1, <2>1, ReportQuit
  <1>5. CASE CanInsert(x, me.pos) /\ me.status = "failed"
    <2> DEFINE st == Stop(me, "failed", "step_failed", me.pos + 1)
               n == me.pos + 1
    <2>1. Becomes(w, st) /\ RowBecomes(w, add_result(x, me.pos, me.status))
      BY <1>5 DEF RecordStep
    <2>2. n \in Nat /\ st = Stop(me, "failed", "step_failed", n)
      BY <1>3
    <2> HIDE DEF st, n
    <2>3. /\ st \in WorkerState /\ st.pc = "skip" /\ st.run = me.run /\ st.pos = n
          /\ st.back = None /\ st.status = "failed"
      BY <1>1, <2>2 DEF Stop, WorkerState, PCs, Terminal, FailureReason
    <2>4. LocalInv(st) /\ st.pc \in Executing
      BY <1>1, <1>2, <2>3 DEF LocalInv, InStep, Executing, PCs
    <2>5. Reached(st) <= me.pos + 1 /\ ~Clean(st)
      BY <1>3, <2>3, NullAssumption DEF Reached, Clean, Returns, n
    <2> QED BY <1>2, <1>3, <1>5, <2>1, <2>3, <2>4, <2>5, InsertActs
  <1>6. CASE CanInsert(x, me.pos) /\ me.status # "failed"
    <2> DEFINE st == [me EXCEPT !.pc = "tail", !.status = None]
    <2>1. Becomes(w, st) /\ RowBecomes(w, add_result(x, me.pos, me.status))
      BY <1>6 DEF RecordStep
    <2>2. /\ st \in WorkerState /\ st.pc = "tail" /\ st.run = me.run
          /\ st.pos = me.pos /\ st.back = None
      BY <1>1, <1>2 DEF WorkerState, PCs
    <2> HIDE DEF st
    <2>3. LocalInv(st) /\ st.pc \in Executing
      BY <1>1, <1>2, <2>2 DEF LocalInv, InStep, Executing, PCs
    <2>4. Reached(st) <= me.pos + 1 /\ Clean(me)
      BY <1>2, <1>3, <2>2 DEF Reached, Clean
    <2> QED BY <1>2, <1>3, <1>6, <2>1, <2>2, <2>3, <2>4, InsertActs
  <1> QED BY <1>4, <1>5, <1>6

LEMMA HumanActs ==
    ASSUME Inv, NEW w \in Workers, RecordHuman(w)
    PROVE  OnItsOwn(w)
  <1> DEFINE me == worker[w]
             x == row[me.run]
  <1>1. me \in WorkerState /\ LocalInv(me) /\ TypeOK
    BY Begins
  <1>2. me.pc = "human" /\ me.pc \in Executing /\ me.back = None
    BY <1>1 DEF RecordHuman, Executing, PCs, LocalInv
  <1>3. me.pos \in Steps /\ me.pos \in Nat
    BY <1>1, <1>2, NStepsAssumption DEF LocalInv, InStep, Steps, WorkerState
  <1>4. CASE ~CanInsert(x, me.pos)
    <2>1. UNCHANGED row /\ Becomes(w, Dead)
      BY <1>4 DEF RecordHuman
    <2> QED BY <1>1, <2>1, ReportQuit
  <1>5. CASE CanInsert(x, me.pos)
    <2> DEFINE st == [me EXCEPT !.pc = "head", !.pos = @ + 1]
               n == me.pos + 1
    <2>1. Becomes(w, st) /\ RowBecomes(w, add_result(x, me.pos, "passed"))
      BY <1>5 DEF RecordHuman
    <2>2. n \in Nat /\ st = [me EXCEPT !.pc = "head", !.pos = n]
      BY <1>1, <1>3 DEF WorkerState
    <2> HIDE DEF st, n
    <2>3. /\ st \in WorkerState /\ st.pc = "head" /\ st.run = me.run
          /\ st.pos = n /\ st.back = None
      BY <1>1, <1>2, <2>2 DEF WorkerState, PCs
    <2>4. LocalInv(st) /\ st.pc \in Executing
      BY <1>1, <1>2, <2>3 DEF LocalInv, InStep, Executing, PCs
    <2>5. Reached(st) <= me.pos + 1 /\ Clean(me)
      BY <1>2, <1>3, <2>3, NullAssumption DEF Reached, Clean, Returns, n
    <2>6. "passed" \in StepResultStatus /\ "passed" # "failed"
      BY DEF StepResultStatus
    <2> QED BY <1>2, <1>3, <1>5, <2>1, <2>3, <2>4, <2>5, <2>6, InsertActs
  <1> QED BY <1>4, <1>5

LEMMA SkipActs ==
    ASSUME Inv, NEW w \in Workers, SkipStep(w)
    PROVE  OnItsOwn(w)
  <1> DEFINE me == worker[w]
             x == row[me.run]
  <1>1. me \in WorkerState /\ LocalInv(me) /\ TypeOK
    BY Begins
  <1>2. /\ me.pc = "skip" /\ me.pc \in Executing /\ me.back = None
        /\ me.status \in {"failed", "cancelled"} /\ me.pos \in Nat
    BY <1>1 DEF SkipStep, Executing, PCs, LocalInv, WorkerState
  <1>3. CASE me.pos >= NSteps
    <2> DEFINE st == [me EXCEPT !.pc = "finish", !.pos = NSteps]
    <2>1. UNCHANGED row /\ Becomes(w, st)
      BY <1>3 DEF SkipStep
    <2>2. /\ st \in WorkerState /\ st.pc = "finish" /\ st.run = me.run
          /\ st.pos = NSteps /\ st.back = None /\ st.status = me.status
      BY <1>1, <1>2, NStepsAssumption DEF WorkerState, PCs
    <2> HIDE DEF st
    <2>3. LocalInv(st) /\ st.pc \in Executing
      BY <1>1, <1>2, <2>2, NStepsAssumption DEF LocalInv, InStep, Executing, PCs, Terminal
    <2>4. Reached(st) <= Reached(me) /\ ~Clean(st)
      BY <1>2, <1>3, <2>2, NStepsAssumption, NullAssumption DEF Reached, Clean, Returns
    <2> QED BY <1>2, <2>1, <2>2, <2>3, <2>4, MoveActs
  <1>4. CASE me.pos < NSteps /\ CanInsert(x, me.pos)
    <2> DEFINE st == [me EXCEPT !.pos = @ + 1]
               n == me.pos + 1
    <2>1. Becomes(w, st) /\ RowBecomes(w, add_result(x, me.pos, "skipped"))
      BY <1>2, <1>4, NStepsAssumption DEF SkipStep
    <2>2. n \in Nat /\ st = [me EXCEPT !.pos = n]
      BY <1>1, <1>2 DEF WorkerState
    <2> HIDE DEF st, n
    <2>3. /\ st \in WorkerState /\ st.pc = "skip" /\ st.run = me.run
          /\ st.pos = n /\ st.back = None /\ st.status = me.status
      BY <1>1, <1>2, <2>2 DEF WorkerState, PCs
    <2>4. LocalInv(st) /\ st.pc \in Executing
      BY <1>1, <1>2, <2>3 DEF LocalInv, InStep, Executing, PCs
    <2>5. Reached(st) <= me.pos + 1 /\ ~Clean(st)
      BY <1>2, <2>3, NullAssumption DEF Reached, Clean, Returns, n
    <2>6. "skipped" \in StepResultStatus /\ me.pos \in Steps
      BY <1>2, <1>4, NStepsAssumption DEF StepResultStatus, Steps
    <2> QED BY <1>2, <1>4, <2>1, <2>3, <2>4, <2>5, <2>6, InsertActs
  <1>5. CASE me.pos < NSteps /\ ~CanInsert(x, me.pos)
    <2>1. UNCHANGED row /\ Becomes(w, Dead)
      BY <1>2, <1>5, NStepsAssumption DEF SkipStep
    <2> QED BY <1>1, <2>1, ReportQuit
  <1> QED BY <1>2, <1>3, <1>4, <1>5, NStepsAssumption

LEMMA VerifyActs ==
    ASSUME Inv, NEW w \in Workers, Verify(w)
    PROVE  OnItsOwn(w)
  <1> DEFINE me == worker[w]
             x == row[me.run]
  <1>1. /\ me \in WorkerState /\ x \in Row /\ LocalInv(me) /\ RowInv(me, x)
        /\ me.run \in Runs /\ TypeOK
    BY Begins DEF Verify, PCs
  <1>2. /\ me.pc = "verifying" /\ me.pc \in Executing /\ me.back \in Returns
        /\ me.pos < NSteps /\ me.pos \in Nat
    BY <1>1 DEF Verify, Executing, PCs, LocalInv, InStep, WorkerState
  <1>3. Clean(me)
    BY <1>2 DEF Clean
  <1>4. CASE /\ HasCheck(me) /\ RowBecomes(w, release_holder(x))
             /\ Becomes(w, [me EXCEPT !.pc = "parked"])
    <2> DEFINE st == [me EXCEPT !.pc = "parked"]
               y == release_holder(x)
    <2>1. /\ st \in WorkerState /\ st.pc = "parked" /\ st.run = me.run
          /\ st.pos = me.pos /\ st.back = me.back
      BY <1>1 DEF WorkerState, PCs
    <2>2. y \in Row /\ Follows(x, y) /\ Phase(x, y)
      BY <1>1, ParkingKeeps DEF Follows, Phase
    <2>3. RowBecomes(w, y) /\ Becomes(w, st)
      BY <1>4
    <2> HIDE DEF st, y
    <2>4. LocalInv(st) /\ st.pc \in Executing
      BY <1>1, <1>2, <2>1 DEF LocalInv, InStep, Executing, PCs
    <2>5. Reached(st) = Reached(me)
      BY <1>2, <2>1 DEF Reached
    <2>6. Acts(me, x, st, y)
      BY <1>1, <1>2, <1>3, <2>1, <2>2, <2>4, <2>5, Onward
    <2> QED BY <1>1, <2>3, <2>6, ReportWrite
  <1>5. CASE /\ RowBecomes(w, resume(x))
             /\ Becomes(w, [me EXCEPT !.back = None,
                  !.pc = IF HasCheck(me) THEN "human"
                         ELSE IF me.back = "takeover" THEN "act" ELSE me.back])
    <2> DEFINE pc == IF HasCheck(me) THEN "human"
                     ELSE IF me.back = "takeover" THEN "act" ELSE me.back
               st == [me EXCEPT !.back = None, !.pc = pc]
               y == resume(x)
    <2>1. pc \in {"human", "act", "ready", "retry", "next"} /\ (pc = "next" => me.back = "next")
      BY <1>2 DEF Returns
    <2>2. RowBecomes(w, y) /\ Becomes(w, st)
      BY <1>5
    <2> HIDE DEF pc
    <2>3. /\ st \in WorkerState /\ st.pc = pc /\ st.run = me.run
          /\ st.pos = me.pos /\ st.back = None
      BY <1>1, <2>1 DEF WorkerState, PCs
    <2>4. y \in Row /\ Follows(x, y) /\ Phase(x, y)
      BY <1>1, ParkingKeeps DEF Follows, Phase
    <2> HIDE DEF st, y
    <2>5. LocalInv(st) /\ st.pc \in Executing
      BY <1>1, <1>2, <2>1, <2>3 DEF LocalInv, InStep, Executing, PCs
    <2>6. Reached(st) <= Reached(me)
      BY <1>2, <2>1, <2>3, NullAssumption DEF Reached, Returns
    <2>7. \A p \in Steps : p < Reached(st) => p < Reached(me)
      BY <1>2, <2>3, <2>6 DEF Steps, Reached
    <2>8. Acts(me, x, st, y)
      BY <1>1, <1>2, <1>3, <2>3, <2>4, <2>5, <2>7, Onward
    <2> QED BY <1>1, <2>2, <2>8, ReportWrite
  <1> QED BY <1>4, <1>5 DEF Verify

(* The verdict is written over complete results.                           *)
LEMMA FinishActs ==
    ASSUME Inv, NEW w \in Workers, FinishRun(w)
    PROVE  OnItsOwn(w)
  <1> DEFINE me == worker[w]
             x == row[me.run]
             y == finish_run(x, me.status, me.reason)
  <1>1. /\ me \in WorkerState /\ x \in Row /\ LocalInv(me) /\ RowInv(me, x)
        /\ me.run \in Runs /\ TypeOK
    BY Begins DEF FinishRun, PCs
  <1>2. /\ me.pc = "finish" /\ me.pc \in Executing /\ me.status \in Terminal
        /\ me.pos >= NSteps /\ me.reason \in FailureReason \cup {None} /\ me.pos \in Nat
    BY <1>1 DEF FinishRun, Executing, PCs, LocalInv, WorkerState
  <1>3. \A p \in Steps : p < Reached(me)
    BY <1>2, NStepsAssumption DEF Reached, Steps
  <1>4. RowBecomes(w, y) /\ Becomes(w, NoWork)
    BY DEF FinishRun
  <1>5. Follows(x, y) /\ Phase(x, y)
    <2>1. CASE x.status = "running"
      <3>1. /\ \A p \in Steps : x.results[p] # None
            /\ me.status = "succeeded" => \A p \in Steps : x.results[p] # "failed"
        BY <1>1, <1>2, <1>3, <2>1 DEF RowInv, Clean
      <3> QED BY <1>1, <1>2, <2>1, <3>1, FinishKeeps DEF Follows, Phase, RunStatus,
                 NON_TERMINAL, Live
    <2>2. CASE x.status # "running"
      <3>1. y = x
        BY <2>2 DEF finish_run
      <3> QED BY <1>1, <3>1, SameRow
    <2> QED BY <2>1, <2>2
  <1> HIDE DEF y
  <1>6. Acts(me, x, NoWork, y)
    BY <1>5, NoWorkQuits, Idles DEF Acts
  <1> QED BY <1>1, <1>4, <1>6, ReportWrite

LEMMA BeatActs ==
    ASSUME Inv, NEW w \in Workers, Beat(w)
    PROVE  OnItsOwn(w)
  <1> DEFINE me == worker[w]
             x == row[me.run]
  <1>1. /\ me \in WorkerState /\ x \in Row /\ LocalInv(me) /\ RowInv(me, x)
        /\ me.run \in Runs /\ TypeOK /\ me.pc \in Executing
    BY Begins DEF Beat, Executing
  <1>2. CASE RowBecomes(w, heartbeat(x)) /\ Becomes(w, me)
    <2> DEFINE y == heartbeat(x)
    <2>1. /\ y \in Row /\ y.status = x.status /\ y.worker = x.worker
          /\ y.results = x.results
      BY <1>1 DEF heartbeat, Row
    <2> HIDE DEF y
    <2>2. Follows(x, y) /\ Phase(x, y)
      BY <1>1, <2>1, SameResults DEF Follows, Phase
    <2>3. Acts(me, x, me, y)
      BY <1>1, <2>1, <2>2, Onward
    <2> QED BY <1>1, <1>2, <2>3, ReportWrite DEF y
  <1>3. CASE UNCHANGED row /\ Becomes(w, [me EXCEPT !.lost = TRUE])
    <2> DEFINE st == [me EXCEPT !.lost = TRUE]
    <2>1. /\ st \in WorkerState /\ st.pc = me.pc /\ st.run = me.run
          /\ st.pos = me.pos /\ st.back = me.back /\ st.status = me.status
      BY <1>1 DEF WorkerState
    <2> HIDE DEF st
    <2>2. LocalInv(st)
      BY <1>1, <2>1 DEF LocalInv
    <2>3. Reached(st) <= Reached(me) /\ (Clean(st) => Clean(me))
      BY <1>1, <2>1 DEF Reached, Clean, WorkerState
    <2> QED BY <1>1, <1>3, <2>1, <2>2, <2>3, MoveActs DEF st
  <1> QED BY <1>2, <1>3 DEF Beat

(* All of a Worker's steps.                                                *)
LEMMA WorkerActs ==
    ASSUME Inv, NEW w \in Workers, WorkerStep(w) \/ Beat(w) \/ WorkerCrash(w)
    PROVE  OnItsOwn(w)
  BY BrpopActs, ClaimActs, StartActs, QuitActs, CancelActs, PauseActs, EnterActs,
     BeginActs, PerformActs, RecordActs, HumanActs, LeaveActs, NextActs,
     HandBackActs, VerifyActs, SkipActs, FinishActs, BeatActs DEF WorkerStep

-----------------------------------------------------------------------------
(* What a step of the API or of time does, in one formula.                 *)
ByTheApi ==
    /\ worker' = worker
    /\ row' \in [Runs -> Row]
    /\ \A r \in Runs : Follows(row[r], row'[r]) /\ Phase(row[r], row'[r])
    /\ dispatch' \in Seq(Runs) /\ tick_ids' \in SUBSET Runs
    /\ asks' \in Nat /\ crashes' \in Nat
    /\ handler' \in [Sessions -> HandlerState]
    /\ \A s \in Sessions :
         \/ handler'[s] = handler[s]
         \/ handler'[s].op = "idle"
         \/ handler'[s].op = "lpush" /\ handler'[s].run \in Runs
         \/ /\ handler'[s].op \in Ops
            /\ handler'[s].run \in Runs /\ handler'[s].seen \in Row
            /\ handler'[s].op = "delete" => row[handler'[s].run].status \in Terminal

\* At most one row changes, and as Phase allows.
OneRow ==
    \/ row' = row
    \/ \E r \in Runs, y \in Row : row' = [row EXCEPT ![r] = y] /\ Phase(row[r], y)

LEMMA WritingOne ==
    ASSUME TypeOK, NEW r \in Runs, NEW y, row' = [row EXCEPT ![r] = y],
           Follows(row[r], y), Phase(row[r], y)
    PROVE  /\ row' \in [Runs -> Row] /\ OneRow
           /\ \A q \in Runs : Follows(row[q], row'[q]) /\ Phase(row[q], row'[q])
  <1>1. y \in Row
    BY DEF Follows
  <1>2. row' \in [Runs -> Row] /\ OneRow
    BY <1>1 DEF TypeOK, OneRow
  <1>3. \A q \in Runs : row[q] \in Row /\ row'[q] = IF q = r THEN y ELSE row[q]
    BY DEF TypeOK
  <1>4. \A q \in Runs : Follows(row[q], row[q]) /\ Phase(row[q], row[q])
    BY <1>3, SameRow
  <1> QED BY <1>2, <1>3, <1>4

LEMMA PushedTypes ==
    ASSUME TypeOK, NEW r \in Runs
    PROVE  Pushed(r) \in Seq(Runs)
  BY DEF TypeOK, Pushed

LEMMA NoRequestTypes ==
    NoRequest \in HandlerState /\ NoRequest.op = "idle"
  BY DEF NoRequest, HandlerState

LEMMA UnchangedRow ==
    ASSUME TypeOK, UNCHANGED row
    PROVE  /\ OneRow /\ row' \in [Runs -> Row]
           /\ \A r \in Runs : Follows(row[r], row'[r]) /\ Phase(row[r], row'[r])
  <1>1. \A r \in Runs : Follows(row[r], row[r]) /\ Phase(row[r], row[r])
    BY SameRow DEF TypeOK
  <1> QED BY <1>1 DEF TypeOK, OneRow

LEMMA StartRunActs ==
    ASSUME Inv, NEW s \in Sessions, NEW r \in Runs, start_run(s, r)
    PROVE  ByTheApi /\ OneRow
  <1> DEFINE h == [op |-> "lpush", run |-> r, seen |-> None]
  <1>1. TypeOK /\ row[r] \in Row /\ row[r].status = "absent"
    BY DEF Inv, TypeOK, start_run
  <1>2. Grows(row[r], NewRow) /\ Backed(NewRow)
    BY <1>1, BlankRows DEF Grows, Backed, Terminal
  <1>3. Follows(row[r], NewRow)
    BY <1>2, BlankRows DEF Follows
  <1>4. row[r].worker = None
    BY <1>1 DEF Inv, ExecutorInv
  <1>5. Phase(row[r], NewRow)
    BY <1>1, <1>4, BlankRows DEF Phase
  <1>6. row' = [row EXCEPT ![r] = NewRow]
    BY DEF start_run
  <1>7. /\ row' \in [Runs -> Row] /\ OneRow
        /\ \A q \in Runs : Follows(row[q], row'[q]) /\ Phase(row[q], row'[q])
    BY <1>1, <1>3, <1>5, <1>6, WritingOne
  <1>8. h \in HandlerState /\ h.op = "lpush" /\ h.run = r
    BY DEF HandlerState
  <1>9. handler' = [handler EXCEPT ![s] = h]
    BY DEF start_run
  <1> HIDE DEF h
  <1>10. /\ handler' \in [Sessions -> HandlerState]
         /\ \A q \in Sessions : handler'[q] = IF q = s THEN h ELSE handler[q]
    BY <1>1, <1>8, <1>9 DEF TypeOK
  <1> QED BY <1>1, <1>7, <1>8, <1>10 DEF ByTheApi, start_run, TypeOK

LEMMA RequestActs ==
    ASSUME Inv, NEW s \in Sessions, NEW r \in Runs, NEW op \in Ops, Request(s, r, op)
    PROVE  ByTheApi /\ OneRow
  <1> DEFINE seen == Loaded(row[r])
             h == [op |-> op, run |-> r, seen |-> seen]
  <1>1. TypeOK /\ row[r] \in Row /\ UNCHANGED row
    BY DEF Inv, TypeOK, Request
  <1>2. seen \in Row
    BY <1>1, BlankRows
  <1>3. op = "delete" => row[r].status \in Terminal
    BY DEF Request, Accepts
  <1>4. handler' = [handler EXCEPT ![s] = h]
    BY DEF Request
  <1> HIDE DEF seen
  <1>5. h \in HandlerState /\ h.op = op /\ h.run = r /\ h.seen = seen
    BY <1>2 DEF HandlerState
  <1> HIDE DEF h
  <1>6. /\ handler' \in [Sessions -> HandlerState]
        /\ \A q \in Sessions : handler'[q] = IF q = s THEN h ELSE handler[q]
    BY <1>1, <1>4, <1>5 DEF TypeOK
  <1>7. /\ dispatch' \in Seq(Runs) /\ tick_ids' \in SUBSET Runs
        /\ asks' \in Nat /\ crashes' \in Nat /\ worker' = worker
    BY <1>1 DEF TypeOK, Request
  <1>8. \A q \in Sessions :
          \/ handler'[q] = handler[q]
          \/ /\ handler'[q].op \in Ops
             /\ handler'[q].run \in Runs /\ handler'[q].seen \in Row
             /\ handler'[q].op = "delete" => row[handler'[q].run].status \in Terminal
    BY <1>2, <1>3, <1>5, <1>6
  <1> QED BY <1>1, <1>6, <1>7, <1>8, UnchangedRow DEF ByTheApi

(* A handler's commit, whatever happened since its read.                   *)
LEMMA CommitActs ==
    ASSUME Inv, NEW s \in Sessions, Commit(s)
    PROVE  ByTheApi /\ OneRow
  <1> DEFINE h == handler[s]
             x == row[h.run]
             y == Write(h.op, h.seen, x, s)
  <1>1. TypeOK /\ HandlerInv(s) /\ h.op \in Ops
    BY DEF Inv, ExecutorInv, Commit
  <1>2. h.run \in Runs /\ h.seen \in Row
    BY <1>1 DEF HandlerInv
  <1>3. x \in Row /\ (h.op = "delete" => x.status \in Terminal \cup {"deleted"})
    BY <1>1, <1>2 DEF HandlerInv, TypeOK
  <1>4. row' = [row EXCEPT ![h.run] = y]
    BY DEF Commit
  <1>5. Follows(x, y) /\ Phase(x, y)
    BY <1>1, <1>2, <1>3, WriteKeeps DEF Follows, Phase
  <1> HIDE DEF y
  <1>6. /\ row' \in [Runs -> Row] /\ OneRow
        /\ \A q \in Runs : Follows(row[q], row'[q]) /\ Phase(row[q], row'[q])
    BY <1>1, <1>2, <1>4, <1>5, WritingOne
  <1>7. /\ handler' \in [Sessions -> HandlerState]
        /\ \A q \in Sessions : handler'[q] = IF q = s THEN NoRequest ELSE handler[q]
    BY <1>1, NoRequestTypes DEF TypeOK, Commit
  <1>8. /\ dispatch' \in Seq(Runs) /\ tick_ids' \in SUBSET Runs
        /\ asks' \in Nat /\ crashes' \in Nat /\ worker' = worker
    BY <1>1 DEF TypeOK, Commit
  <1>9. \A q \in Sessions : handler'[q] = handler[q] \/ handler'[q].op = "idle"
    BY <1>7, NoRequestTypes
  <1> QED BY <1>6, <1>7, <1>8, <1>9 DEF ByTheApi

LEMMA QueueActs ==
    ASSUME Inv, \/ \E s \in Sessions : lpush(s)
                \/ \E r \in Runs : tick_lpush(r)
                \/ ApiCrash
    PROVE  ByTheApi /\ OneRow
  <1>1. TypeOK
    BY DEF Inv
  <1>2. ASSUME NEW s \in Sessions, lpush(s)
        PROVE  ByTheApi /\ OneRow
    <2>1. handler[s].run \in Runs
      BY <1>2 DEF Inv, ExecutorInv, HandlerInv, lpush
    <2>2. UNCHANGED row /\ dispatch' \in Seq(Runs)
      BY <1>1, <1>2, <2>1, PushedTypes DEF lpush
    <2>3. /\ handler' \in [Sessions -> HandlerState]
          /\ \A q \in Sessions : handler'[q] = IF q = s THEN NoRequest ELSE handler[q]
      BY <1>1, <1>2, NoRequestTypes DEF TypeOK, lpush
    <2>4. /\ tick_ids' \in SUBSET Runs /\ asks' \in Nat /\ crashes' \in Nat
          /\ worker' = worker
      BY <1>1, <1>2 DEF TypeOK, lpush
    <2>5. \A q \in Sessions : handler'[q] = handler[q] \/ handler'[q].op = "idle"
      BY <2>3, NoRequestTypes
    <2> QED BY <1>1, <2>2, <2>3, <2>4, <2>5, UnchangedRow DEF ByTheApi
  <1>3. ASSUME NEW r \in Runs, tick_lpush(r)
        PROVE  ByTheApi /\ OneRow
    <2>1. UNCHANGED row /\ dispatch' \in Seq(Runs)
      BY <1>1, <1>3, PushedTypes DEF tick_lpush
    <2>2. /\ tick_ids' \in SUBSET Runs /\ asks' \in Nat /\ crashes' \in Nat
          /\ worker' = worker /\ handler' = handler
      BY <1>1, <1>3 DEF TypeOK, tick_lpush
    <2> QED BY <1>1, <2>1, <2>2, UnchangedRow DEF ByTheApi, TypeOK
  <1>4. ASSUME ApiCrash
        PROVE  ByTheApi /\ OneRow
    <2>1. UNCHANGED row
      BY <1>4 DEF ApiCrash
    <2>2. /\ handler' \in [Sessions -> HandlerState]
          /\ \A q \in Sessions : handler'[q].op = "idle"
      BY <1>4, NoRequestTypes DEF ApiCrash
    <2>3. /\ tick_ids' \in SUBSET Runs /\ asks' \in Nat /\ crashes' \in Nat
          /\ worker' = worker /\ dispatch' \in Seq(Runs)
      BY <1>1, <1>4 DEF TypeOK, ApiCrash
    <2> QED BY <1>1, <2>1, <2>2, <2>3, UnchangedRow DEF ByTheApi
  <1> QED BY <1>2, <1>3, <1>4

(* Time passing changes no column a reader sees.                           *)
LEMMA TimeActs ==
    ASSUME Inv, NEW r \in Runs, GoesQuiet(r) \/ GoesOverdue(r)
    PROVE  ByTheApi /\ OneRow
  <1> DEFINE x == row[r]
  <1>1. TypeOK /\ x \in Row
    BY DEF Inv, TypeOK
  <1>2. PICK y \in {[x EXCEPT !.quiet = TRUE], [x EXCEPT !.overdue = TRUE]} :
           row' = [row EXCEPT ![r] = y]
    BY DEF GoesQuiet, GoesOverdue
  <1>3. y \in Row /\ y.status = x.status /\ y.worker = x.worker /\ y.results = x.results
    BY <1>1 DEF Row
  <1>4. Follows(x, y) /\ Phase(x, y)
    BY <1>1, <1>3, SameResults DEF Follows, Phase
  <1>5. /\ row' \in [Runs -> Row] /\ OneRow
        /\ \A q \in Runs : Follows(row[q], row'[q]) /\ Phase(row[q], row'[q])
    BY <1>1, <1>2, <1>4, WritingOne
  <1>6. UNCHANGED <<dispatch, worker, handler, tick_ids, asks, crashes>>
    BY DEF GoesQuiet, GoesOverdue
  <1> QED BY <1>1, <1>5, <1>6 DEF ByTheApi, TypeOK

(* One tick: both reapers over every row.                                  *)
LEMMA TickActs ==
    ASSUME Inv, tick
    PROVE  /\ ByTheApi
           /\ \A r \in Runs :
                /\ row'[r].worker = row[r].worker
                /\ \/ row'[r].status = row[r].status
                   \/ row[r].status \in Live /\ row'[r].status \in Terminal
  <1>1. TypeOK /\ \A r \in Runs : row[r] \in Row
    BY DEF Inv, TypeOK
  <1>2. \A r \in Runs : row'[r] = reap(row[r])
    BY DEF tick
  <1>3. \A r \in Runs : /\ row'[r] \in Row /\ row'[r].worker = row[r].worker
                        /\ \/ row'[r].status = row[r].status
                           \/ row[r].status \in Live /\ row'[r].status \in Terminal
                        /\ Grows(row[r], row'[r])
                        /\ Backed(row[r]) => Backed(row'[r])
    BY <1>1, <1>2, ReapKeeps
  <1>4. row' \in [Runs -> Row]
    BY <1>3 DEF tick
  <1>5. \A r \in Runs : Follows(row[r], row'[r]) /\ Phase(row[r], row'[r])
    BY <1>3 DEF Follows, Phase, RunStatus, NON_TERMINAL
  <1>6. /\ dispatch' \in Seq(Runs) /\ tick_ids' \in SUBSET Runs
        /\ asks' \in Nat /\ crashes' \in Nat /\ worker' = worker /\ handler' = handler
    BY <1>1 DEF TypeOK, tick
  <1> QED BY <1>1, <1>3, <1>4, <1>5, <1>6 DEF ByTheApi, TypeOK

-----------------------------------------------------------------------------
(* The invariant.                                                          *)

LEMMA InitInv ==
    ASSUME Init
    PROVE  Inv
  <1>1. TypeOK
    BY BlankRows, NoWorkQuits, NoRequestTypes DEF Init, TypeOK
  <1>2. /\ \A w \in Workers : worker[w] = NoWork
        /\ \A s \in Sessions : handler[s] = NoRequest
        /\ \A r \in Runs : row[r] = Absent
    BY DEF Init
  <1>3. ExecutorInv
    <2>1. \A w \in Workers : LocalInv(worker[w]) /\ RowInv(worker[w], row[worker[w].run])
      BY <1>2, NoWorkQuits, Idles
    <2>2. \A s \in Sessions : HandlerInv(s)
      BY <1>2, NoRequestTypes DEF HandlerInv, Ops
    <2> QED BY <1>2, <2>1, <2>2, BlankRows DEF ExecutorInv
  <1>4. OneExecutor
    BY <1>2, NoWorkQuits DEF OneExecutor, Executes
  <1>5. VerdictMatchesResults
    BY <1>2, BlankRows DEF VerdictMatchesResults, Backed
  <1> QED BY <1>1, <1>3, <1>4, <1>5 DEF Inv

(* The parts that depend on the rows alone.                                *)
LEMMA RowsKeep ==
    ASSUME Inv, row' \in [Runs -> Row],
           \A r \in Runs : Follows(row[r], row'[r]) /\ Phase(row[r], row'[r])
    PROVE  /\ VerdictMatchesResults'
           /\ \A r \in Runs :
                row'[r].status \in {"absent", "queued"} => row'[r].worker = None
           /\ \A w \in Workers : RowInv(worker[w], row'[worker[w].run])
           /\ \A s \in Sessions : handler'[s] = handler[s] => HandlerInv(s)'
  <1>1. TypeOK /\ \A r \in Runs : row[r] \in Row /\ row'[r] \in Row
    BY DEF Inv, TypeOK
  <1>2. VerdictMatchesResults'
    BY DEF Inv, VerdictMatchesResults, Follows
  <1>3. ASSUME NEW r \in Runs, row'[r].status \in {"absent", "queued"}
        PROVE  row'[r].worker = None
    BY <1>1, <1>3 DEF Inv, ExecutorInv, Phase, Live, Terminal
  <1>4. ASSUME NEW w \in Workers
        PROVE  RowInv(worker[w], row'[worker[w].run])
    <2>1. worker[w] \in WorkerState
      BY <1>1 DEF TypeOK
    <2>2. CASE worker[w].pc \notin Executing
      BY <2>1, <2>2, Idles
    <2>3. CASE worker[w].pc \in Executing
      <3>1. worker[w].run \in Runs /\ RowInv(worker[w], row[worker[w].run])
        BY <2>3, Begins DEF Executing
      <3> QED BY <1>1, <2>1, <3>1, Undisturbed DEF Follows
    <2> QED BY <2>2, <2>3
  <1>5. ASSUME NEW s \in Sessions, handler'[s] = handler[s]
        PROVE  HandlerInv(s)'
    <2>1. HandlerInv(s)
      BY DEF Inv, ExecutorInv
    <2>2. handler[s].op = "delete" =>
             row[handler[s].run].status \in Terminal \cup {"deleted"} /\ handler[s].run \in Runs
      BY <2>1 DEF HandlerInv, Ops
    <2>3. handler[s].op = "delete" =>
             row'[handler[s].run].status \in Terminal \cup {"deleted"}
      BY <2>2 DEF Follows, Grows
    <2> QED BY <1>5, <2>1, <2>3 DEF HandlerInv
  <1> QED BY <1>2, <1>3, <1>4, <1>5

LEMMA ApiKeepsInv ==
    ASSUME Inv, ByTheApi
    PROVE  Inv'
  <1>1. TypeOK
    BY DEF Inv
  <1>2. TypeOK'
    BY <1>1 DEF ByTheApi, TypeOK
  <1>3. /\ VerdictMatchesResults'
        /\ \A r \in Runs :
             row'[r].status \in {"absent", "queued"} => row'[r].worker = None
        /\ \A w \in Workers : RowInv(worker[w], row'[worker[w].run])
        /\ \A s \in Sessions : handler'[s] = handler[s] => HandlerInv(s)'
    BY RowsKeep DEF ByTheApi
  <1>4. ASSUME NEW s \in Sessions
        PROVE  HandlerInv(s)'
    <2>1. CASE handler'[s] = handler[s]
      BY <1>3, <2>1
    <2>2. CASE handler'[s].op = "idle"
      BY <2>2 DEF HandlerInv, Ops
    <2>3. CASE handler'[s].op = "lpush" /\ handler'[s].run \in Runs
      BY <2>3 DEF HandlerInv, Ops
    <2>4. CASE /\ handler'[s].op \in Ops
               /\ handler'[s].run \in Runs /\ handler'[s].seen \in Row
               /\ handler'[s].op = "delete" => row[handler'[s].run].status \in Terminal
      <3>1. handler'[s].op = "delete" =>
              row'[handler'[s].run].status \in Terminal \cup {"deleted"}
        BY <2>4 DEF ByTheApi, Follows, Grows
      <3> QED BY <2>4, <3>1 DEF HandlerInv, Ops
    <2> QED BY <2>1, <2>2, <2>3, <2>4 DEF ByTheApi
  <1>5. ExecutorInv'
    BY <1>3, <1>4 DEF Inv, ExecutorInv, ByTheApi
  <1>6. OneExecutor'
    BY DEF Inv, ByTheApi, OneExecutor, Executes
  <1> QED BY <1>2, <1>3, <1>5, <1>6 DEF Inv

(* A Worker's step.  A Worker that begins to execute took a queued Run,    *)
(* and nobody executes a queued Run.                                       *)
LEMMA WorkerKeepsInv ==
    ASSUME Inv, NEW w \in Workers, OnItsOwn(w)
    PROVE  Inv' /\ OneRow
  <1>1. TypeOK
    BY DEF Inv
  <1>2. PICK st \in WorkerState :
          /\ worker' = [worker EXCEPT ![w] = st]
          /\ \/ row' = row /\ st.pc \notin Executing /\ LocalInv(st)
             \/ /\ worker[w].run \in Runs
                /\ \E y \in Row :
                     /\ row' = [row EXCEPT ![worker[w].run] = y]
                     /\ Acts(worker[w], row[worker[w].run], st, y)
    BY DEF OnItsOwn
  <1>3. /\ row' \in [Runs -> Row] /\ OneRow
        /\ \A r \in Runs : Follows(row[r], row'[r]) /\ Phase(row[r], row'[r])
        /\ LocalInv(st) /\ RowInv(st, row'[st.run])
        /\ st.pc \in Executing =>
             /\ st.run = worker[w].run /\ st.run \in Runs
             /\ worker[w].pc \in Executing \/ row[st.run].status = "queued"
    <2>1. CASE row' = row /\ st.pc \notin Executing /\ LocalInv(st)
      BY <1>1, <2>1, UnchangedRow, Idles
    <2>2. CASE /\ worker[w].run \in Runs
               /\ \E y \in Row :
                    /\ row' = [row EXCEPT ![worker[w].run] = y]
                    /\ Acts(worker[w], row[worker[w].run], st, y)
      <3>1. PICK y \in Row : /\ row' = [row EXCEPT ![worker[w].run] = y]
                             /\ Acts(worker[w], row[worker[w].run], st, y)
        BY <2>2
      <3>2. /\ row' \in [Runs -> Row] /\ OneRow
            /\ \A r \in Runs : Follows(row[r], row'[r]) /\ Phase(row[r], row'[r])
        BY <1>1, <2>2, <3>1, WritingOne DEF Acts
      <3>3. row'[worker[w].run] = y
        BY <1>1, <2>2, <3>1 DEF TypeOK
      <3>4. RowInv(st, row'[st.run])
        <4>1. CASE st.pc \in Executing
          BY <3>1, <3>3, <4>1 DEF Acts
        <4>2. CASE st.pc \notin Executing
          BY <4>2, Idles
        <4> QED BY <4>1, <4>2
      <3> QED BY <2>2, <3>1, <3>2, <3>4 DEF Acts
    <2> QED BY <1>2, <2>1, <2>2
  <1>4. \A v \in Workers : worker'[v] = IF v = w THEN st ELSE worker[v]
    BY <1>1, <1>2 DEF TypeOK
  <1>5. TypeOK'
    <2>1. worker' \in [Workers -> WorkerState]
      BY <1>1, <1>2 DEF TypeOK
    <2> QED BY <1>1, <1>3, <2>1 DEF OnItsOwn, TypeOK
  <1>6. /\ VerdictMatchesResults'
        /\ \A r \in Runs :
             row'[r].status \in {"absent", "queued"} => row'[r].worker = None
        /\ \A v \in Workers : RowInv(worker[v], row'[worker[v].run])
        /\ \A s \in Sessions : handler'[s] = handler[s] => HandlerInv(s)'
    BY <1>3, RowsKeep
  <1>7. ExecutorInv'
    <2>1. \A v \in Workers : LocalInv(worker'[v]) /\ RowInv(worker'[v], row'[worker'[v].run])
      BY <1>3, <1>4, <1>6 DEF Inv, ExecutorInv
    <2>2. \A s \in Sessions : HandlerInv(s)'
      BY <1>6 DEF OnItsOwn
    <2> QED BY <1>6, <2>1, <2>2 DEF ExecutorInv
  <1>8. OneExecutor'
    <2>1. SUFFICES ASSUME NEW v \in Workers, NEW r \in Runs,
                          Executes(v, r), v # w, st.pc \in Executing, st.run = r
                   PROVE  FALSE
      BY <1>4 DEF Inv, OneExecutor, Executes
    <2>2. row[r].status # "queued"
      BY <2>1 DEF Inv, ExecutorInv, RowInv, Executes
    <2>3. Executes(w, r)
      BY <1>3, <2>1, <2>2 DEF Executes
    <2> QED BY <2>1, <2>3 DEF Inv, OneExecutor
  <1> QED BY <1>3, <1>5, <1>6, <1>7, <1>8 DEF Inv

LEMMA NextInv ==
    ASSUME Inv, [Next]_vars
    PROVE  Inv'
  <1>1. CASE UNCHANGED vars
    BY <1>1 DEF vars, Inv, TypeOK, ExecutorInv, HandlerInv, OneExecutor, Executes,
                VerdictMatchesResults
  <1>2. CASE \E w \in Workers : WorkerStep(w) \/ Beat(w) \/ WorkerCrash(w)
    BY <1>2, WorkerActs, WorkerKeepsInv
  <1>3. CASE \E s \in Sessions, r \in Runs :
               start_run(s, r) \/ \E op \in Ops : Request(s, r, op)
    BY <1>3, StartRunActs, RequestActs, ApiKeepsInv
  <1>4. CASE ApiStep
    BY <1>4, CommitActs, QueueActs, TickActs, ApiKeepsInv DEF ApiStep
  <1>5. CASE \E r \in Runs : GoesQuiet(r) \/ GoesOverdue(r)
    BY <1>5, TimeActs, ApiKeepsInv
  <1>6. CASE ApiCrash
    BY <1>6, QueueActs, ApiKeepsInv
  <1> QED BY <1>1, <1>2, <1>3, <1>4, <1>5, <1>6 DEF Next

LEMMA Invariance == Spec => []Inv
  <1>1. Init => Inv
    BY InitInv
  <1>2. Inv /\ [Next]_vars => Inv'
    BY NextInv
  <1> QED BY <1>1, <1>2, PTL DEF Spec

(* The variables keep their types: a position never leaves Nat, a row      *)
(* never holds a Step Result outside its Steps.                            *)
THEOREM TypeCorrect == Spec => []TypeOK
  <1>1. Inv => TypeOK
    BY DEF Inv
  <1> QED BY <1>1, Invariance, PTL

(* What an executor relies on while other actors write to its row.         *)
THEOREM ExecutorsHold == Spec => []ExecutorInv
  <1>1. Inv => ExecutorInv
    BY DEF Inv
  <1> QED BY <1>1, Invariance, PTL

(* However many Workers and however often an id is delivered, the          *)
(* conditional claim gives a Run one executor.                             *)
THEOREM OneExecutorPerRun == Spec => []OneExecutor
  <1>1. Inv => OneExecutor
    BY DEF Inv
  <1> QED BY <1>1, Invariance, PTL

(* Whoever ends a Run, its verdict is backed by its Step Results.          *)
THEOREM VerdictsBacked == Spec => []VerdictMatchesResults
  <1>1. Inv => VerdictMatchesResults
    BY DEF Inv
  <1> QED BY <1>1, Invariance, PTL

-----------------------------------------------------------------------------
(* Refinement.                                                             *)

\* The refinement mapping on one row, and on the table.
PhaseOf(x) == IF x.status \in Terminal THEN "ended" ELSE x.status
Phases == [r \in Runs |-> PhaseOf(row[r])]
Owners == [r \in Runs |-> row[r].worker]

LEMMA InitPromise ==
    ASSUME Init
    PROVE  Promise!Init
  <1>1. \A r \in Runs : row[r].status = "absent" /\ row[r].worker = None
    BY BlankRows DEF Init
  <1> QED BY <1>1 DEF Promise!Init, Terminal

(* The actions of the promise in terms of the mapping.                     *)
LEMMA PromiseActions ==
    ASSUME NEW r \in Runs
    PROVE  /\ \A from, to : Promise!Moves(r, from, to)
                <=> Phases[r] \in from /\ Phases' = [Phases EXCEPT ![r] = to]
           /\ UNCHANGED Owners => (Promise!Moves(r, {"absent"}, "queued") => Promise!Start(r))
           /\ UNCHANGED Owners =>
                (Promise!Moves(r, {"running"}, "waiting_for_human") => Promise!Park(r))
           /\ UNCHANGED Owners =>
                (Promise!Moves(r, {"waiting_for_human"}, "running") => Promise!Resume(r))
           /\ \A w : Owners' = [Owners EXCEPT ![r] = w] =>
                (Promise!Moves(r, {"queued"}, "running") => Promise!Claim(r, w))
           /\ Owners' = [Owners EXCEPT ![r] = None] =>
                (Promise!Moves(r, {"ended"}, "deleted") => Promise!Delete(r))
  BY DEF Promise!Moves, Promise!Start, Promise!Park, Promise!Resume,
         Promise!Claim, Promise!Delete, Phases, Owners, PhaseOf

(* Any set of open Runs may end at once.                                   *)
LEMMA PromiseEnds ==
    ASSUME NEW S \in SUBSET Runs, UNCHANGED Owners,
           \A r \in S : row[r].status \in NON_TERMINAL /\ row'[r].status \in Terminal,
           \A r \in Runs \ S : PhaseOf(row'[r]) = PhaseOf(row[r])
    PROVE  Promise!Next
  <1>1. \A r \in S : PhaseOf(row[r]) = row[r].status /\ PhaseOf(row'[r]) = "ended"
    BY DEF PhaseOf, NON_TERMINAL, Live, Terminal
  <1>2. /\ \A r \in S : Phases[r] \in {"queued", "running", "waiting_for_human"}
        /\ Phases' = [r \in Runs |-> IF r \in S THEN "ended" ELSE Phases[r]]
    BY <1>1 DEF Phases, NON_TERMINAL, Live
  <1>3. Promise!End(S)
    BY <1>2 DEF Promise!End, Promise!Open, Phases, Owners, PhaseOf
  <1> QED BY <1>3 DEF Promise!Next

(* A write that obeys Phase is one step of the promise, or none.           *)
LEMMA OneRowPromise ==
    ASSUME Inv, OneRow
    PROVE  [Promise!Next]_(Promise!vars)
  <1>1. CASE row' = row
    BY <1>1 DEF Promise!vars
  <1>2. CASE \E r \in Runs, y \in Row : row' = [row EXCEPT ![r] = y] /\ Phase(row[r], y)
    <2>1. PICK r \in Runs, y \in Row : row' = [row EXCEPT ![r] = y] /\ Phase(row[r], y)
      BY <1>2
    <2>2. row \in [Runs -> Row] /\ row[r] \in Row
      BY DEF Inv, TypeOK
    <2> DEFINE x == row[r]
    <2>3. /\ Phases' = [Phases EXCEPT ![r] = PhaseOf(y)]
          /\ Owners' = [Owners EXCEPT ![r] = y.worker]
          /\ Phases[r] = PhaseOf(x) /\ Owners[r] = x.worker
      BY <2>1, <2>2 DEF Phases, Owners
    <2>4. y.worker = x.worker => UNCHANGED Owners
      BY <2>1, <2>2 DEF Owners
    <2>5. PhaseOf(y) = PhaseOf(x) => UNCHANGED Phases
      BY <2>1, <2>2 DEF Phases
    <2>6. CASE PhaseOf(y) = PhaseOf(x) /\ y.worker = x.worker
      <3>1. Promise!vars = <<Phases, Owners>> /\ Promise!vars' = <<Phases', Owners'>>
        BY DEF Promise!vars, Phases, Owners, PhaseOf
      <3> QED BY <2>4, <2>5, <2>6, <3>1
    <2>7. CASE x.status = "absent" /\ y.status = "queued" /\ y.worker = x.worker
      <3>1. Promise!Start(r)
        BY <2>3, <2>4, <2>7, PromiseActions DEF PhaseOf, Terminal
      <3> QED BY <3>1 DEF Promise!Next
    <2>8. CASE x.status = "queued" /\ y.status = "running" /\ y.worker \in Workers
      <3>1. Promise!Claim(r, y.worker)
        BY <2>3, <2>8, PromiseActions DEF PhaseOf, Terminal
      <3> QED BY <2>8, <3>1 DEF Promise!Next
    <2>9. CASE {x.status, y.status} = Live /\ y.worker = x.worker
      <3>1. \/ x.status = "running" /\ y.status = "waiting_for_human"
            \/ x.status = "waiting_for_human" /\ y.status = "running"
        BY <2>9 DEF Live
      <3>2. Promise!Park(r) \/ Promise!Resume(r)
        BY <2>3, <2>4, <2>9, <3>1, PromiseActions DEF PhaseOf, Terminal
      <3> QED BY <3>2 DEF Promise!Next
    <2>10. CASE x.status \in NON_TERMINAL /\ y.status \in Terminal /\ y.worker = x.worker
      <3>1. /\ row'[r] = y
            /\ \A q \in Runs \ {r} : row'[q] = row[q]
        BY <2>1, <2>2
      <3>2. {r} \in SUBSET Runs
        OBVIOUS
      <3> QED BY <2>4, <2>10, <3>1, <3>2, PromiseEnds
    <2>11. CASE x.status \in Terminal /\ y.status = "deleted" /\ y.worker = None
      <3>1. Promise!Delete(r)
        BY <2>3, <2>11, PromiseActions DEF PhaseOf, Terminal
      <3> QED BY <3>1 DEF Promise!Next
    <2> QED BY <2>1, <2>6, <2>7, <2>8, <2>9, <2>10, <2>11
            DEF Phase, PhaseOf, RunStatus
  <1> QED BY <1>1, <1>2 DEF OneRow

LEMMA TickPromise ==
    ASSUME Inv, tick
    PROVE  [Promise!Next]_(Promise!vars)
  <1> DEFINE S == {r \in Runs : row[r].status \in Live /\ row'[r].status \in Terminal}
  <1>1. \A r \in Runs : /\ row'[r].worker = row[r].worker
                        /\ \/ row'[r].status = row[r].status
                           \/ row[r].status \in Live /\ row'[r].status \in Terminal
    BY TickActs
  <1>2. S \in SUBSET Runs /\ UNCHANGED Owners
    BY <1>1 DEF Owners
  <1>3. /\ \A r \in S : row[r].status \in NON_TERMINAL /\ row'[r].status \in Terminal
        /\ \A r \in Runs \ S : PhaseOf(row'[r]) = PhaseOf(row[r])
    BY <1>1 DEF NON_TERMINAL, PhaseOf
  <1> HIDE DEF S
  <1> QED BY <1>2, <1>3, PromiseEnds

LEMMA NextPromise ==
    ASSUME Inv, [Next]_vars
    PROVE  [Promise!Next]_(Promise!vars)
  <1>1. CASE UNCHANGED vars
    BY <1>1, OneRowPromise DEF vars, OneRow
  <1>2. CASE \E w \in Workers : WorkerStep(w) \/ Beat(w) \/ WorkerCrash(w)
    BY <1>2, WorkerActs, WorkerKeepsInv, OneRowPromise
  <1>3. CASE \E s \in Sessions, r \in Runs :
               start_run(s, r) \/ \E op \in Ops : Request(s, r, op)
    BY <1>3, StartRunActs, RequestActs, OneRowPromise
  <1>4. CASE ApiStep
    BY <1>4, CommitActs, QueueActs, TickPromise, OneRowPromise DEF ApiStep
  <1>5. CASE \E r \in Runs : GoesQuiet(r) \/ GoesOverdue(r)
    BY <1>5, TimeActs, OneRowPromise
  <1>6. CASE ApiCrash
    BY <1>6, QueueActs, OneRowPromise
  <1> QED BY <1>1, <1>2, <1>3, <1>4, <1>5, <1>6 DEF Next

(* Workers, dispatch list, handlers and minute loop together implement     *)
(* RunPromise: phases only move forward and a Run keeps the Worker that    *)
(* claimed it, for any number of Runs and Workers.                         *)
THEOREM Refinement == Spec => KeepsPromise
  <1>1. Init => Promise!Init
    BY InitPromise
  <1>2. Inv /\ [Next]_vars => [Promise!Next]_(Promise!vars)
    BY NextPromise
  <1> QED BY <1>1, <1>2, Invariance, PTL DEF Spec, Promise!Spec, KeepsPromise
=============================================================================

---------------------------- MODULE RunLifecycle ----------------------------
(***************************************************************************)
(* The life of a Run from start_run to its last status: the `runs` rows,   *)
(* the Redis dispatch list, the Workers that pop, claim and execute, the   *)
(* API's request handlers, and the minute loop that reaps lost Workers and *)
(* re-enqueues stuck Runs.                                                 *)
(*                                                                         *)
(* What one step is: one database transaction or one Redis command.  A     *)
(* handler that reads the row, thinks, and commits is two steps; so is     *)
(* a commit followed by an LPUSH.  A Worker may die between any two of its *)
(* steps and the API process between any two of its own.                   *)
(*                                                                         *)
(* The pub/sub control hints and the takeover phases inside the parking    *)
(* loop are left to module Takeover: here a Worker learns of a request by  *)
(* re-reading the row, which is how a dropped hint behaves.                *)
(***************************************************************************)
EXTENDS RunRow, Sequences, FiniteSets

CONSTANTS
    Runs,
    TakeoverSteps,   \* positions of enabled pause-for-takeover Steps
    CheckedSteps,    \* those of them whose payload has a success check
    MaxCopies,       \* bound: copies of one id on the dispatch list
    MaxAsks,         \* bound: requests made of the API about existing Runs
    MaxCrashes       \* bound: Worker and API process crashes

\* Where park_for_human returns to.
Returns == {"ready", "retry", "next", "takeover"}

ASSUME NullAssumption == None \notin Runs /\ None \notin Returns

ASSUME StepKindsAssumption ==
    TakeoverSteps \subseteq Steps /\ CheckedSteps \subseteq TakeoverSteps

ASSUME BoundsAssumption ==
    MaxCopies \in Nat \ {0} /\ MaxAsks \in Nat /\ MaxCrashes \in Nat

VARIABLES
    row,        \* [Runs -> Row]
    dispatch,   \* the Redis list, oldest id first
    worker,     \* [Workers -> what that Worker process is doing]
    handler,    \* [Sessions -> the API request of that session in flight]
    tick_ids,   \* run ids a committed tick has yet to LPUSH
    asks, crashes

vars == <<row, dispatch, worker, handler, tick_ids, asks, crashes>>

(* Where a Worker is.  "popped": has an id, not claimed.  "start":         *)
(* credentials and browser launch.  "head", "ready", "act", "record",      *)
(* "tail", "next": the Step loop, in order.  "retry": the Step again after *)
(* a pause.  "parked", "verifying": park_for_human.  "human": a Step a     *)
(* person completed, result not yet written.  "skip": _skip_remaining.     *)
PCs == {"idle", "popped", "start", "head", "ready", "act", "retry", "record",
        "human", "tail", "next", "parked", "verifying", "skip", "finish", "dead"}

\* Between claim and the end of execute.
Executing == PCs \ {"idle", "popped", "dead"}

WorkerState ==
    [pc : PCs, run : Runs \cup {None}, pos : Nat, lost : BOOLEAN, back : Returns \cup {None},
     status : StepResultStatus \cup Terminal \cup {None},
     reason : FailureReason \cup {None}]

NoWork == [pc |-> "idle", run |-> None, pos |-> 0, lost |-> FALSE,
           back |-> None, status |-> None, reason |-> None]
Dead == [NoWork EXCEPT !.pc = "dead"]

HandlerState ==
    [op : Ops \cup {"idle", "lpush"}, run : Runs \cup {None},
     seen : Row \cup {None}]

NoRequest == [op |-> "idle", run |-> None, seen |-> None]

TypeOK ==
    /\ row \in [Runs -> Row]
    /\ dispatch \in Seq(Runs)
    /\ worker \in [Workers -> WorkerState]
    /\ handler \in [Sessions -> HandlerState]
    /\ tick_ids \in SUBSET Runs
    /\ asks \in Nat
    /\ crashes \in Nat

Init ==
    /\ row = [r \in Runs |-> Absent]
    /\ dispatch = <<>>
    /\ worker = [w \in Workers |-> NoWork]
    /\ handler = [s \in Sessions |-> NoRequest]
    /\ tick_ids = {}
    /\ asks = 0
    /\ crashes = 0

-----------------------------------------------------------------------------
(* API request handlers.                                                   *)

\* LPUSH.  The backstop adds a copy every minute while a Run stays queued; a
\* copy beyond the bound is left out, it would be dropped like the ones before.
Pushed(r) ==
    IF Cardinality({i \in DOMAIN dispatch : dispatch[i] = r}) < MaxCopies
    THEN Append(dispatch, r) ELSE dispatch

\* start_run up to its commit; the id is not on the list yet.
start_run(s, r) ==
    /\ handler[s].op = "idle"
    /\ row[r].status = "absent"
    /\ row' = [row EXCEPT ![r] = NewRow]
    /\ handler' = [handler EXCEPT ![s] = [op |-> "lpush", run |-> r, seen |-> None]]
    /\ UNCHANGED <<dispatch, worker, tick_ids, asks, crashes>>

lpush(s) ==
    /\ handler[s].op = "lpush"
    /\ dispatch' = Pushed(handler[s].run)
    /\ handler' = [handler EXCEPT ![s] = NoRequest]
    /\ UNCHANGED <<row, worker, tick_ids, asks, crashes>>

\* owned_run: the unlocked read with which every other handler begins.
Request(s, r, op) ==
    /\ handler[s].op = "idle"
    /\ asks < MaxAsks
    /\ row[r].status \in RunStatus
    /\ Accepts(op, row[r], s)
    /\ handler' = [handler EXCEPT ![s] = [op |-> op, run |-> r, seen |-> Loaded(row[r])]]
    /\ asks' = asks + 1
    /\ UNCHANGED <<row, dispatch, worker, tick_ids, crashes>>

\* The handler's flush and commit.
Commit(s) ==
    /\ handler[s].op \in Ops
    /\ LET h == handler[s] IN
       row' = [row EXCEPT ![h.run] = Write(h.op, h.seen, @, s)]
    /\ handler' = [handler EXCEPT ![s] = NoRequest]
    /\ UNCHANGED <<dispatch, worker, tick_ids, asks, crashes>>

-----------------------------------------------------------------------------
(* The minute loop and the passage of time.                                *)

\* tick, its transaction: run_forever starts it only once the last one is over.
tick ==
    /\ tick_ids = {}
    /\ row' = [r \in Runs |-> reap(row[r])]
    /\ tick_ids' = {r \in Runs : queued_without_a_worker(row[r])}
    /\ UNCHANGED <<dispatch, worker, handler, asks, crashes>>

\* tick, after the commit: one LPUSH.
tick_lpush(r) ==
    /\ r \in tick_ids
    /\ dispatch' = Pushed(r)
    /\ tick_ids' = tick_ids \ {r}
    /\ UNCHANGED <<row, worker, handler, asks, crashes>>

\* HEARTBEAT_STALE_AFTER or QUEUED_BACKSTOP_AFTER goes by.  It may happen to
\* a Run whose Worker is alive: heartbeats travel over HTTP and can fail.
GoesQuiet(r) ==
    /\ row[r].status \in NON_TERMINAL
    /\ ~row[r].quiet
    /\ row' = [row EXCEPT ![r].quiet = TRUE]
    /\ UNCHANGED <<dispatch, worker, handler, tick_ids, asks, crashes>>

\* takeover_deadline_at goes by.
GoesOverdue(r) ==
    /\ row[r].status = "waiting_for_human"
    /\ ~row[r].overdue
    /\ row' = [row EXCEPT ![r].overdue = TRUE]
    /\ UNCHANGED <<dispatch, worker, handler, tick_ids, asks, crashes>>

\* The API process stops: requests in flight and a tick's unpushed ids are gone.
ApiCrash ==
    /\ crashes < MaxCrashes
    /\ handler' = [s \in Sessions |-> NoRequest]
    /\ tick_ids' = {}
    /\ crashes' = crashes + 1
    /\ UNCHANGED <<row, dispatch, worker, asks>>

-----------------------------------------------------------------------------
(* The Worker.                                                             *)

Becomes(w, state) ==
    /\ worker' = [worker EXCEPT ![w] = state]
    /\ UNCHANGED <<dispatch, handler, tick_ids, asks, crashes>>

RowBecomes(w, x) == row' = [row EXCEPT ![worker[w].run] = x]

brpop(w) ==
    /\ worker[w].pc = "idle"
    /\ dispatch # <<>>
    /\ worker' = [worker EXCEPT ![w] = [NoWork EXCEPT !.pc = "popped", !.run = Head(dispatch)]]
    /\ dispatch' = Tail(dispatch)
    /\ UNCHANGED <<row, handler, tick_ids, asks, crashes>>

\* store.claim; an UPDATE of no row makes work_once pop again.
ClaimRun(w) ==
    LET me == worker[w] IN
    /\ me.pc = "popped"
    /\ RowBecomes(w, claim(row[me.run], w))
    /\ Becomes(w, IF Claimable(row[me.run]) THEN [me EXCEPT !.pc = "start"] ELSE NoWork)

\* Mutant: skips one Step too few.
StopLate(me, status, reason, from) ==
    [me EXCEPT !.pc = "skip", !.pos = from + 1, !.back = None,
               !.status = status, !.reason = reason]

\* The executor stops: terminal_status and failure_reason are set and
\* _skip_remaining starts at position from.
Stop(me, status, reason, from) ==
    [me EXCEPT !.pc = "skip", !.pos = from, !.back = None,
               !.status = status, !.reason = reason]

\* credentials.fetch and the browser launch.  A Run that is no longer live
\* makes the credentials endpoint answer 409 run_terminal, an HTTPError nobody
\* catches: the Worker process ends.
StartExecute(w) ==
    LET me == worker[w] IN
    /\ me.pc = "start"
    /\ UNCHANGED row
    /\ IF IsLive(row[me.run])
       THEN \/ Becomes(w, [me EXCEPT !.pc = "head"])
            \/ \E why \in {"missing_secret", "startup_failed"} :
                 Becomes(w, Stop(me, "failed", why, 0))
       ELSE Becomes(w, Dead)

\* lost is set: execute returns without touching the row.
LetGo(w) ==
    /\ worker[w].pc \in {"head", "act", "retry", "record", "tail", "parked", "finish"}
    /\ worker[w].lost
    /\ UNCHANGED row
    /\ Becomes(w, NoWork)

\* check_control raises RunCancelled: before the Step, inside it, or after it.
CancelSeen(w) ==
    LET me == worker[w] IN
    /\ me.pc \in {"head", "act", "retry", "tail"}
    /\ me.pc = "head" => me.pos < NSteps
    /\ ~me.lost
    /\ row[me.run].cancel
    /\ UNCHANGED row
    /\ Becomes(w, Stop(me, "cancelled", None,
                       IF me.pc = "tail" THEN me.pos + 1 ELSE me.pos))

\* park_for_human up to store.park.
ParkAt(w, back) ==
    /\ RowBecomes(w, park(row[worker[w].run]))
    /\ Becomes(w, [worker[w] EXCEPT !.pc = "parked", !.back = back])

\* check_control raises RunPaused.  The second execute_step, after a pause
\* inside the first, has no handler for it: the exception leaves execute.
PauseSeen(w) ==
    LET me == worker[w] IN
    /\ me.pc \in {"head", "act", "retry", "tail"}
    /\ me.pc = "head" => me.pos < NSteps
    /\ ~me.lost
    /\ ~row[me.run].cancel
    /\ row[me.run].pause
    /\ CASE me.pc = "head"  -> ParkAt(w, "ready")
         [] me.pc = "act"   -> ParkAt(w, "retry")
         [] me.pc = "tail"  -> ParkAt(w, "next")
         [] me.pc = "retry" -> UNCHANGED row /\ Becomes(w, Dead)

\* check_control at the top of the loop lets the Step begin; after the last
\* Step the loop is over.
EnterStep(w) ==
    LET me == worker[w] IN
    /\ me.pc = "head"
    /\ UNCHANGED row
    /\ \/ /\ me.pos >= NSteps
          /\ Becomes(w, [me EXCEPT !.pc = "finish", !.status = "succeeded"])
       \/ /\ me.pos < NSteps
          /\ ~me.lost
          /\ ~row[me.run].cancel
          /\ ~row[me.run].pause
          /\ Becomes(w, [me EXCEPT !.pc = "ready"])

\* The automation-time check, then the Step's kind.
BeginStep(w) ==
    LET me == worker[w] IN
    /\ me.pc = "ready"
    /\ \/ UNCHANGED row /\ Becomes(w, Stop(me, "failed", "run_timeout", me.pos))
       \/ me.pos \in TakeoverSteps /\ ParkAt(w, "takeover")
       \/ /\ me.pos \notin TakeoverSteps
          /\ UNCHANGED row
          /\ Becomes(w, [me EXCEPT !.pc = "act", !.back = None])

\* execute_step returns an outcome.
PerformStep(w) ==
    LET me == worker[w] IN
    /\ me.pc \in {"act", "retry"}
    /\ UNCHANGED row
    /\ \E out \in StepResultStatus :
         Becomes(w, [me EXCEPT !.pc = "record", !.status = out, !.back = None])

\* store.add_result; an IntegrityError leaves execute and ends the process.
RecordStep(w) ==
    LET me == worker[w]
        x == row[me.run]
    IN
    /\ me.pc = "record"
    /\ ~me.lost
    /\ IF CanInsert(x, me.pos)
       THEN /\ RowBecomes(w, add_result(x, me.pos, me.status))
            /\ Becomes(w, IF me.status = "failed"
                          THEN Stop(me, "failed", "step_failed", me.pos + 1)
                          ELSE [me EXCEPT !.pc = "tail", !.status = None])
       ELSE UNCHANGED row /\ Becomes(w, Dead)

\* A takeover Step whose success check a person met; then straight to the next
\* Step, without the checks at the tail of the loop.
RecordHuman(w) ==
    LET me == worker[w]
        x == row[me.run]
    IN
    /\ me.pc = "human"
    /\ IF CanInsert(x, me.pos)
       THEN /\ RowBecomes(w, add_result(x, me.pos, "passed"))
            /\ Becomes(w, [me EXCEPT !.pc = "head", !.pos = @ + 1])
       ELSE UNCHANGED row /\ Becomes(w, Dead)

\* check_control after the Step passes.
LeaveStep(w) ==
    LET me == worker[w] IN
    /\ me.pc = "tail"
    /\ ~me.lost
    /\ ~row[me.run].cancel
    /\ ~row[me.run].pause
    /\ UNCHANGED row
    /\ Becomes(w, [me EXCEPT !.pc = "next"])

\* The automation-time check after the Step, also after the last one.
NextStep(w) ==
    LET me == worker[w] IN
    /\ me.pc = "next"
    /\ UNCHANGED row
    /\ \/ Becomes(w, [me EXCEPT !.pc = "head", !.pos = @ + 1, !.back = None])
       \/ Becomes(w, Stop(me, "failed", "run_timeout", me.pos + 1))

HasCheck(me) == me.back = "takeover" /\ me.pos \in CheckedSteps

\* One turn of the parking loop that sees a hand-back, or a met success check
\* whose grace is over.
HandBackSeen(w) ==
    LET me == worker[w]
        x == row[me.run]
    IN
    /\ me.pc = "parked"
    /\ ~me.lost
    /\ x.holder # None
    /\ x.handback \/ (x.auto /\ HasCheck(me))
    /\ UNCHANGED row
    /\ Becomes(w, [me EXCEPT !.pc = "verifying"])

\* The verdict: unmet returns to waiting, met or absent resumes automation.
Verify(w) ==
    LET me == worker[w]
        x == row[me.run]
    IN
    /\ me.pc = "verifying"
    /\ \/ /\ HasCheck(me)
          /\ RowBecomes(w, release_holder(x))
          /\ Becomes(w, [me EXCEPT !.pc = "parked"])
       \/ /\ RowBecomes(w, resume(x))
          /\ Becomes(w, [me EXCEPT !.back = None,
                  !.pc = IF HasCheck(me) THEN "human"
                         ELSE IF me.back = "takeover" THEN "act" ELSE me.back])

\* _skip_remaining, one INSERT at a time.
SkipStep(w) ==
    LET me == worker[w]
        x == row[me.run]
    IN
    /\ me.pc = "skip"
    /\ IF me.pos >= NSteps
       THEN UNCHANGED row /\ Becomes(w, [me EXCEPT !.pc = "finish", !.pos = NSteps])
       ELSE IF CanInsert(x, me.pos)
            THEN /\ RowBecomes(w, add_result(x, me.pos, "skipped"))
                 /\ Becomes(w, [me EXCEPT !.pos = @ + 1])
            ELSE UNCHANGED row /\ Becomes(w, Dead)

FinishRun(w) ==
    LET me == worker[w] IN
    /\ me.pc = "finish"
    /\ ~me.lost
    /\ RowBecomes(w, finish_run(row[me.run], me.status, me.reason))
    /\ Becomes(w, NoWork)

\* Mutant: the answer to the heartbeat is not looked at.
BeatDeaf(w) ==
    /\ worker[w].pc \in Executing
    /\ IsLive(row[worker[w].run])
    /\ RowBecomes(w, heartbeat(row[worker[w].run]))
    /\ Becomes(w, worker[w])

\* The heartbeat thread: a 409 sets lost, and the thread ends.
Beat(w) ==
    LET me == worker[w] IN
    /\ me.pc \in Executing
    /\ ~me.lost
    /\ IF IsLive(row[me.run])
       THEN RowBecomes(w, heartbeat(row[me.run])) /\ Becomes(w, me)
       ELSE UNCHANGED row /\ Becomes(w, [me EXCEPT !.lost = TRUE])

WorkerCrash(w) ==
    /\ worker[w].pc # "dead"
    /\ crashes < MaxCrashes
    /\ crashes' = crashes + 1
    /\ worker' = [worker EXCEPT ![w] = Dead]
    /\ UNCHANGED <<row, dispatch, handler, tick_ids, asks>>

\* compose.yaml: restart unless-stopped.
Restart(w) ==
    /\ worker[w].pc = "dead"
    /\ UNCHANGED row
    /\ Becomes(w, NoWork)

WorkerStep(w) ==
    \/ brpop(w) \/ ClaimRun(w) \/ StartExecute(w) \/ LetGo(w) \/ CancelSeen(w)
    \/ PauseSeen(w) \/ EnterStep(w) \/ BeginStep(w) \/ PerformStep(w)
    \/ RecordStep(w) \/ RecordHuman(w) \/ LeaveStep(w) \/ NextStep(w)
    \/ HandBackSeen(w) \/ Verify(w) \/ SkipStep(w) \/ FinishRun(w) \/ Restart(w)

ApiStep ==
    \/ \E s \in Sessions : lpush(s) \/ Commit(s)
    \/ tick
    \/ \E r \in Runs : tick_lpush(r)

Next ==
    \/ \E s \in Sessions, r \in Runs : start_run(s, r) \/ \E op \in Ops : Request(s, r, op)
    \/ ApiStep
    \/ \E r \in Runs : GoesQuiet(r) \/ GoesOverdue(r)
    \/ ApiCrash
    \/ \E w \in Workers : WorkerStep(w) \/ Beat(w) \/ WorkerCrash(w)

Spec == Init /\ [][Next]_vars

-----------------------------------------------------------------------------
(* What the code's scheduling guarantees.  The Worker's loop, its          *)
(* heartbeat thread, the API's handlers and the minute loop run on while   *)
(* their process lives, and a process that died is restarted.  Time passes *)
(* for a Run nobody heartbeats and for a takeover deadline.  No fairness   *)
(* is assumed of people, of crashes, or of a live Worker's row going quiet.*)

Executes(w, r) == worker[w].pc \in Executing /\ worker[w].run = r

GoesQuietUnattended(r) ==
    /\ row[r].status = "queued" \/ ~\E w \in Workers : Executes(w, r)
    /\ GoesQuiet(r)

Fairness ==
    /\ \A w \in Workers : WF_vars(WorkerStep(w)) /\ WF_vars(Beat(w))
    /\ \A s \in Sessions : WF_vars(lpush(s)) /\ WF_vars(Commit(s))
    /\ WF_vars(tick)
    /\ \A r \in Runs : /\ WF_vars(tick_lpush(r))
                       /\ WF_vars(GoesQuietUnattended(r))
                       /\ WF_vars(GoesOverdue(r))

FairSpec == Spec /\ Fairness

-----------------------------------------------------------------------------
(* Properties.                                                             *)

(* Duplicate ids on the dispatch list, re-enqueued by the backstop or left *)
(* over from a crash, never put two Workers on one Run: the conditional    *)
(* claim in store.py hands a Run out once, and nothing returns it to       *)
(* queued.                                                                 *)
OneExecutor ==
    \A v, w \in Workers, r \in Runs : Executes(v, r) /\ Executes(w, r) => v = w

(* A Run that ended succeeded or failed has a Step Result for every Step,  *)
(* and a succeeded one none that failed, whoever ended it: the executor,   *)
(* either reaper, abandon_takeover, or one of them over another.           *)
VerdictMatchesResults == \A r \in Runs : Backed(row[r])

(* The system implements RunPromise: a Run moves queued, running and       *)
(* waiting, ended, deleted and never back, and belongs to the one Worker   *)
(* that claimed it.                                                        *)
Promise == INSTANCE RunPromise WITH
    phase <- [r \in Runs |-> IF row[r].status \in Terminal THEN "ended"
                             ELSE row[r].status],
    owner <- [r \in Runs |-> row[r].worker]

KeepsPromise == Promise!Spec

(* Every started Run comes to an end: a lost dispatch, a Worker that died  *)
(* before or after its claim, an API crash between commit and LPUSH and a  *)
(* person who never hands back are each recovered by the minute loop.      *)
EveryRunEnds ==
    \A r \in Runs : row[r].status \in NON_TERMINAL ~> row[r].status \notin NON_TERMINAL

(* A Worker whose Run was ended behind its back (reaped, cancelled while   *)
(* waiting, deleted) does not stay with it: the heartbeat's 409 frees it.  *)
WorkerLetsGo ==
    \A w \in Workers, r \in Runs :
        Executes(w, r) /\ row[r].status \notin NON_TERMINAL ~> ~Executes(w, r)

(* The bookkeeping the two invariants above rest on.                       *)

\* The executor works on this Step, or is parked in it.
InStep == {"ready", "act", "retry", "record", "human", "tail", "next",
           "parked", "verifying"}

\* Positions below this one have their Step Result.
Reached(me) ==
    IF me.pc \in {"tail", "next"} \/ me.back = "next" THEN me.pos + 1 ELSE me.pos

\* The executor has met no failed Step.
Clean(me) ==
    me.pc \in Executing \ {"skip"} /\ (me.pc = "finish" => me.status = "succeeded")

\* Of a Worker's own state.
LocalInv(me) ==
    /\ me.pc \notin {"idle", "dead"} => me.run \in Runs
    /\ me.pc = "popped" => me.pos = 0
    /\ me.pc \in InStep => me.pos < NSteps
    /\ me.pc \in {"parked", "verifying"} <=> me.back # None
    /\ me.pc = "record" => me.status \in StepResultStatus
    /\ me.pc = "skip" => me.status \in {"failed", "cancelled"}
    /\ me.pc = "finish" => me.status \in Terminal /\ me.pos >= NSteps

\* Of that state and x, the row of its Run.
RowInv(me, x) ==
    /\ me.pc \in Executing => x.status \notin {"absent", "queued"}
    /\ me.pc \in Executing /\ x.status # "deleted" =>
         \A p \in Steps : p < Reached(me) =>
            x.results[p] # None /\ (Clean(me) => x.results[p] # "failed")

HandlerInv(s) ==
    LET h == handler[s] IN
    /\ h.op = "lpush" => h.run \in Runs
    /\ h.op \in Ops => h.run \in Runs /\ h.seen \in Row
    /\ h.op = "delete" => row[h.run].status \in Terminal \cup {"deleted"}

(* A Run nobody claimed has no worker_id.  While an executor works on a    *)
(* Run, the Run was claimed and is not queued again, the Steps before its  *)
(* position have results and none of them failed; a delete in flight is of *)
(* a Run that stays ended.                                                 *)
ExecutorInv ==
    /\ \A r \in Runs : row[r].status \in {"absent", "queued"} => row[r].worker = None
    /\ \A w \in Workers : LocalInv(worker[w]) /\ RowInv(worker[w], row[worker[w].run])
    /\ \A s \in Sessions : HandlerInv(s)
=============================================================================

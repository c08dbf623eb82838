------------------------------ MODULE Cockpit ------------------------------
(***************************************************************************)
(* The cockpit of one Run (apps/web runs/[id]), open in a tab of session   *)
(* Me, against the Run's row, the Worker that publishes what it does, the  *)
(* event stream that forwards it (runs/routes.py), and the VNC proxy that  *)
(* lets the pane in (runs/vnc.py).                                         *)
(*                                                                         *)
(* The page learns of the Run by REST loads, answered from what the        *)
(* database held when each was read, and by events, published after the    *)
(* write they tell of and lost while nobody is subscribed.  Requests of    *)
(* other people, and of another tab of Me, change the row and the lock in  *)
(* localStorage at any time; here a request is served in one step (Takeover *)
(* and RunLifecycle interleave inside the handlers), and a control hint is *)
(* seen with the row.                                                      *)
(***************************************************************************)
EXTENDS RunEvents

CONSTANTS
    Me,              \* the session of the tab
    TakeoverSteps, CheckedSteps,   \* pause-for-takeover Steps; those with a check
    ChallengedSteps, \* Steps the Worker reports a suspected challenge on
    MaxInbox,        \* bound: events forwarded and not handled
    Budgets          \* bounds of a behaviour, one of these: see Budget

Op == {"cancel", "pause", "take", "hold", "handback", "abandon"}

VARIABLES
    x,        \* the Run's row
    exec,     \* the Worker
    lines,    \* run_log_lines
    lock,     \* localStorage takeover-hold: None, "me" or "other" tab
    page,     \* the tab
    stream,   \* listen() of useRunStream
    inbox,    \* events forwarded to the page and not handled
    load,     \* the fetch of runQuery in flight, or None
    pane,     \* VncScreen and its socket
    left      \* what is left of the behaviour's budget

vars == <<x, exec, lines, lock, page, stream, inbox, load, pane, left>>
worker == <<exec, lines>>
tab == <<page, stream, inbox, load, pane>>

(* ops: what may be asked for; asks: how often, by the page or elsewhere;  *)
(* kinds, troubles: what may fail and how often; visits: how often the     *)
(* page is opened; vnc: whether its pane connects.                         *)
Kind == {"stream", "load", "answer", "ticket", "worker"}
Budget == [ops : SUBSET Op, asks : Nat, kinds : SUBSET Kind, troubles : Nat,
           visits : Nat, vnc : BOOLEAN]

ASSUME CockpitAssumption ==
    /\ Me \in Sessions
    /\ TakeoverSteps \subseteq Steps /\ CheckedSteps \subseteq TakeoverSteps
    /\ ChallengedSteps \subseteq Steps
    /\ Budgets \subseteq Budget
    /\ None \notin CockpitSnapshot

(* pc: where execute stands; out: events it is about to publish; phase:    *)
(* kind of its open interval; status: its terminal_status; met: last_met;  *)
(* stop: why it parked last, until the next Step; told: of a challenge.    *)
Exec == [pc : {"idle", "head", "log", "act", "parked", "verify", "skip", "finish", "gone"},
         pos : Nat, out : Seq(RunEvent), phase : Phase \cup {None},
         status : Terminal, met : BOOLEAN \cup {None}, told : BOOLEAN,
         stop : {"pause", "takeover", "verified", None}]

\* ask: the mutation in flight and its answer.
Page == [open : BOOLEAN, shot : CockpitSnapshot \cup {None},
         cached : CockpitSnapshot \cup {None}, error : BOOLEAN,
         confirm : BOOLEAN, hold : BOOLEAN, unmet : BOOLEAN, already : BOOLEAN,
         pending : BOOLEAN, dismissed : SUBSET Steps, sees : {None, "me", "other"},
         ask : [op : Op, answer : {"ok", "held", "refused", None}] \cup {None}]

Load == [by : SUBSET {"mount", "reconnect", "cancel", "pull"},
         got : CockpitSnapshot \cup {None}, done : BOOLEAN]

Pane == [mode : {"none", "view_only", "interactive"},
         stage : {"none", "mint", "ticket", "open", "closed"}, control : BOOLEAN]

TypeOK ==
    /\ x \in Row
    /\ exec \in Exec
    /\ lines \in Nat
    /\ lock \in {None, "me", "other"}
    /\ page \in Page
    /\ stream \in {"off", "opening", "open", "broken", "refetching", "sleeping"}
    /\ inbox \in Seq(RunEvent)
    /\ load \in Load \cup {None}
    /\ pane \in Pane
    /\ left \in Budget

Closed ==
    [open |-> FALSE, shot |-> None, cached |-> None, error |-> FALSE, confirm |-> FALSE,
     hold |-> FALSE, unmet |-> FALSE, already |-> FALSE, pending |-> FALSE,
     dismissed |-> {}, sees |-> None, ask |-> None]

NoPane == [mode |-> "none", stage |-> "none", control |-> FALSE]

Init ==
    /\ x = NewRow
    /\ exec = [pc |-> "idle", pos |-> 0, out |-> <<>>, phase |-> None,
               status |-> "succeeded", met |-> None, told |-> FALSE, stop |-> None]
    /\ lines = 0
    /\ lock = None
    /\ page = Closed
    /\ stream = "off" /\ inbox = <<>> /\ load = None /\ pane = NoPane
    /\ left \in Budgets

Ask(op) == op \in left.ops /\ left.asks > 0 /\ left' = [left EXCEPT !.asks = @ - 1]
Trouble(k) == k \in left.kinds /\ left.troubles > 0 /\ left' = [left EXCEPT !.troubles = @ - 1]

-----------------------------------------------------------------------------
(* The Worker: each write to the database, then the event that tells of it. *)

At(pc) == exec.pc = pc /\ exec.out = <<>>

Moves(e, es) == exec' = [e EXCEPT !.out = es] /\ UNCHANGED <<lock, tab, left>>

Claim ==
    /\ At("idle") /\ Claimable(x)
    /\ \E w \in Workers : x' = claim(x, w)
    /\ Moves([exec EXCEPT !.pc = "head", !.phase = "automation"], <<>>)
    /\ UNCHANGED lines

\* An event goes to whoever is subscribed at that moment.
Publish ==
    /\ exec.out # <<>> /\ Len(inbox) < MaxInbox
    /\ exec' = [exec EXCEPT !.out = Tail(@)]
    /\ inbox' = IF stream = "open" THEN Append(inbox, Head(exec.out)) ELSE inbox
    /\ UNCHANGED <<x, lines, lock, page, stream, load, pane, left>>

\* check_control at the top of the Step loop, once for a Step.
Checks == At("head") /\ exec.pos < NSteps /\ exec.stop = None
Uncontrolled == Checks => ~x.cancel /\ ~x.pause

\* announce_started, then its log line.
StartStep ==
    /\ At("head") /\ exec.pos < NSteps /\ Uncontrolled
    /\ exec.pos \in TakeoverSteps => exec.stop \in {"takeover", "verified"}
    /\ Moves([exec EXCEPT !.pc = "log"], <<[type |-> "step.started", step |-> exec.pos]>>)
    /\ UNCHANGED <<x, lines>>

LogStep ==
    /\ At("log")
    /\ lines' = lines + 1
    /\ Moves([exec EXCEPT !.pc = "act"], <<[type |-> "log", seq |-> lines + 1]>>)
    /\ UNCHANGED x

\* report_challenge; bound: once in a Step.
Challenge ==
    /\ At("act") /\ exec.pos \in ChallengedSteps /\ ~exec.told
    /\ exec.stop # "verified"
    /\ Moves([exec EXCEPT !.told = TRUE], <<[type |-> "diagnostic", step |-> exec.pos]>>)
    /\ UNCHANGED <<x, lines>>

\* add_result and announce_finished; the INSERT fails when the Run was closed meanwhile.
EndStep(status) ==
    /\ At("act")
    /\ exec.stop = "verified" => status = "passed"
    /\ IF CanInsert(x, exec.pos)
       THEN /\ x' = add_result(x, exec.pos, status)
            /\ Moves([exec EXCEPT !.pc = IF status = "failed" THEN "skip" ELSE "head",
                                  !.pos = @ + 1, !.told = FALSE, !.stop = None,
                                  !.status = IF status = "failed" THEN "failed" ELSE @],
                     <<[type |-> "step.finished", step |-> exec.pos, status |-> status]>>)
       ELSE UNCHANGED x /\ Moves([exec EXCEPT !.pc = "gone"], <<>>)
    /\ UNCHANGED lines

SeeCancel ==
    /\ Checks \/ (At("act") /\ exec.stop # "verified")
    /\ x.cancel
    /\ Moves([exec EXCEPT !.pc = "skip", !.status = "cancelled"], <<>>)
    /\ UNCHANGED <<x, lines>>

\* _skip_remaining, one Step.
SkipStep ==
    /\ At("skip")
    /\ CASE exec.pos >= NSteps -> UNCHANGED x /\ Moves([exec EXCEPT !.pc = "finish"], <<>>)
         [] exec.pos < NSteps /\ CanInsert(x, exec.pos) ->
              /\ x' = add_result(x, exec.pos, "skipped")
              /\ Moves([exec EXCEPT !.pos = @ + 1],
                       <<[type |-> "step.finished", step |-> exec.pos, status |-> "skipped"]>>)
         [] OTHER -> UNCHANGED x /\ Moves([exec EXCEPT !.pc = "gone"], <<>>)
    /\ UNCHANGED lines

\* Mutant: the verdict is published before it is written.
FinishEarly ==
    /\ At("finish") \/ (At("head") /\ exec.pos = NSteps)
    /\ UNCHANGED <<x, lines>>
    /\ Moves([exec EXCEPT !.pc = IF exec.pc = "head" THEN "finish" ELSE "gone"],
             <<[type |-> "run.status", status |-> exec.status]>>)

\* finish_run, which matches nothing when the Run was closed meanwhile; the event
\* is published all the same.
FinishRun ==
    /\ At("finish") \/ (At("head") /\ exec.pos = NSteps)
    /\ x' = finish_run(x, exec.status, IF exec.status = "failed" THEN "step_failed" ELSE None)
    /\ Moves([exec EXCEPT !.pc = "gone"], <<[type |-> "run.status", status |-> exec.status]>>)
    /\ UNCHANGED lines

Control(phase) == <<[type |-> "control", phase |-> phase]>>

HasCheck == exec.pos \in CheckedSteps /\ exec.stop = "takeover"

\* park_for_human up to its loop.  A pause is seen at the top of the Step loop.
Park ==
    /\ At("head") /\ exec.pos < NSteps
    /\ \/ Checks /\ x.pause /\ ~x.cancel
       \/ Uncontrolled /\ exec.pos \in TakeoverSteps /\ exec.stop \in {"pause", None}
    /\ x' = park(x)
    /\ Moves([exec EXCEPT !.pc = "parked", !.phase = "waiting", !.met = None,
                          !.stop = IF Checks /\ x.pause THEN "pause" ELSE "takeover"],
             Control("waiting"))
    /\ UNCHANGED lines

\* One turn of the loop that changes something.
SeeCheck(met) ==
    /\ At("parked") /\ HasCheck /\ exec.met # met
    /\ Moves([exec EXCEPT !.met = met],
             <<[type |-> "predicate", met |-> met,
                grace |-> met /\ exec.phase = "human" /\ x.auto]>>)
    /\ UNCHANGED <<x, lines>>

SeeHolder ==
    /\ At("parked") /\ exec.phase = "waiting" /\ x.holder # None
    /\ Moves([exec EXCEPT !.phase = "human", !.met = None], Control("human"))
    /\ UNCHANGED <<x, lines>>

\* A hand-back was asked for, or the grace after a met check is over.
SeeHandBack ==
    /\ At("parked") /\ exec.phase = "human"
    /\ x.handback \/ (exec.met = TRUE /\ x.auto)
    /\ Moves([exec EXCEPT !.pc = "verify", !.phase = "verifying"], Control("verifying"))
    /\ UNCHANGED <<x, lines>>

Unmet ==
    /\ At("verify") /\ HasCheck
    /\ x' = release_holder(x)
    /\ Moves([exec EXCEPT !.pc = "parked", !.phase = "waiting", !.met = FALSE],
             Control("waiting"))
    /\ UNCHANGED lines

\* A checked takeover Step is completed by the person and not performed.
Resume ==
    /\ At("verify")
    /\ x' = resume(x)
    /\ Moves([exec EXCEPT !.pc = "head", !.stop = IF HasCheck THEN "verified" ELSE @,
                          !.phase = "automation", !.met = None], Control("automation"))
    /\ UNCHANGED lines

\* A heartbeat was answered 409: execute returns without a word.
LetGo ==
    /\ exec.pc \notin {"idle", "gone"} /\ x.status \notin Live
    /\ exec' = [exec EXCEPT !.pc = "gone", !.out = <<>>]
    /\ UNCHANGED <<x, lines, lock, tab, left>>

\* The Worker dies, or its heartbeats do not get through: its row goes quiet.
Die ==
    /\ exec.pc \notin {"idle", "gone"} /\ x.status \in Live
    /\ Trouble("worker")
    /\ exec' \in {exec, [exec EXCEPT !.pc = "gone", !.out = <<>>]}
    /\ x' = [x EXCEPT !.quiet = TRUE]
    /\ UNCHANGED <<lines, lock, tab>>

\* A tick of the minute loop; it publishes nothing.
Tick ==
    /\ reap(x) # x
    /\ x' = reap(x)
    /\ UNCHANGED <<worker, lock, tab, left>>
-----------------------------------------------------------------------------
(* The API, for the page, for another tab of Me and for other sessions.    *)

\* A person elsewhere; "other": another tab of Me, which keeps the lock as this one.
Elsewhere(s, op) ==
    /\ Ask(op)
    /\ Accepts(op, x, s)
    /\ x' = Write(op, x, x, s)
    /\ lock' = CASE s = Me /\ op = "take" -> "other"
                 [] s = Me /\ op \in {"handback", "abandon"} /\ lock = "other" -> None
                 [] OTHER -> lock
    /\ UNCHANGED <<worker, tab>>

\* The handler of the page's request, or the loss of the request or of its answer.
Serve ==
    /\ page.ask # None /\ page.ask.answer = None
    /\ LET op == page.ask.op
           good == Accepts(op, x, Me)
           held == op = "take" /\ x.status = "waiting_for_human" /\ x.holder \notin {None, Me}
           Answer(a) == page' = [page EXCEPT !.ask.answer = a]
       IN  \/ /\ x' = IF good THEN Write(op, x, x, Me) ELSE x
              /\ Answer(IF good THEN "ok" ELSE IF held THEN "held" ELSE "refused")
              /\ UNCHANGED left
           \/ /\ Trouble("answer")
              /\ x' \in {x, IF good THEN Write(op, x, x, Me) ELSE x}
              /\ Answer("refused")
    /\ UNCHANGED <<worker, lock, stream, inbox, load, pane>>

-----------------------------------------------------------------------------
(* The page's effects, which follow every change of its state.             *)

Shows(p) == paneView(p.shot, p.hold, p.unmet, p.sees = "other" \/ p.already)

Status(p) == IF p.shot = None THEN None ELSE p.shot.status

\* The effect on status, which runs when the status shown changes.
Settled(p) ==
    IF Status(p) = Status(page) \/ Status(p) = "waiting_for_human" THEN p
    ELSE [p EXCEPT !.hold = FALSE, !.unmet = FALSE, !.already = FALSE]

Listens(p) == p.open /\ p.shot # None /\ ~isTerminal(p.shot.status)

\* useRunStream's effect: listen() is started and stopped with Listens.
StreamFor(p, now) ==
    CASE ~Listens(p) -> "off"
      [] Listens(p) /\ now = "off" -> "opening"
      [] OTHER -> now

\* VncScreen's effect: another mode is another connection.
PaneFor(p) ==
    LET mode == IF p.open /\ p.shot # None /\ ~p.error /\ left.vnc
                   /\ Shows(p).frame \in {"view_only", "interactive"}
                THEN Shows(p).frame ELSE "none"
    IN  IF mode = pane.mode THEN pane
        ELSE [mode |-> mode, stage |-> IF mode = "none" THEN "none" ELSE "mint",
              control |-> FALSE]

\* The page becomes p, its stream now, with the events in box.
Renders(p, now, box) ==
    LET q == Settled(p) IN
    /\ page' = q
    /\ stream' = StreamFor(q, now)
    /\ inbox' = IF StreamFor(q, now) = "open" THEN box ELSE <<>>
    /\ pane' = PaneFor(q)

Becomes(p) == Renders(p, stream, inbox)

\* loaded.refetch(): a fetch in flight is started over, for its callers too.
Fetch(by) == [by |-> by, got |-> None, done |-> FALSE]
Refetch(why) == load' = Fetch({why} \cup IF load = None THEN {} ELSE load.by)

-----------------------------------------------------------------------------
(* Loading: getRun, then listRunLogs, then the answers are taken.          *)

\* A cached load is shown at once and loaded again.
Open ==
    /\ ~page.open /\ left.visits > 0
    /\ left' = [left EXCEPT !.visits = @ - 1]
    /\ Becomes([page EXCEPT !.open = TRUE, !.shot = page.cached, !.sees = lock])
    /\ load' = IF load = None THEN Fetch({}) ELSE load
    /\ UNCHANGED <<x, worker, lock>>

LoadDetail ==
    /\ load # None /\ load.got = None
    /\ load' = [load EXCEPT !.got = snapshotFromDetail(x, exec.phase, <<>>)]
    /\ UNCHANGED <<x, worker, lock, page, stream, inbox, pane, left>>

LoadLogs ==
    /\ load # None /\ load.got # None /\ ~load.done
    /\ load' = [load EXCEPT !.got.logs = [i \in 1 .. lines |-> i], !.done = TRUE]
    /\ UNCHANGED <<x, worker, lock, page, stream, inbox, pane, left>>

\* Mutant: a failed refetch ends listen().
ReconnectedOrDead(ok) == IF ok THEN "sleeping" ELSE "refetching"

\* What listen() does once its refetch is over, well or not.
Reconnected(ok) == "sleeping"

\* The answers are taken: shown when nothing is shown yet, and always by a
\* reconnect and a cancel; pullCandidates takes only the candidates.
Takes(got, ok) ==
    /\ Renders([page EXCEPT !.cached = got, !.error = ~ok,
                            !.shot = IF page.open /\ (load.by \ {"pull"} # {} \/ @ = None)
                                     THEN got ELSE @],
               IF "reconnect" \in load.by /\ stream = "refetching"
               THEN Reconnected(ok) ELSE stream, inbox)
    /\ load' = None

LoadDone ==
    /\ load # None /\ load.done
    /\ Takes(load.got, TRUE)
    /\ UNCHANGED <<x, worker, lock, left>>

\* The result of a failed refetch still carries the data of the last good one.
LoadFails ==
    /\ load # None
    /\ Trouble("load")
    /\ Takes(page.cached, FALSE)
    /\ UNCHANGED <<x, worker, lock>>

-----------------------------------------------------------------------------
(* listen(): subscribe, handle events until the stream ends, refetch, sleep. *)

Subscribe ==
    /\ stream = "opening"
    /\ stream' = "open"
    /\ UNCHANGED <<x, worker, lock, page, inbox, load, pane, left>>

\* streamRunEvents fails, or the stream ends; what was on its way is lost.
Break ==
    /\ stream \in {"opening", "open"}
    /\ Trouble("stream")
    /\ stream' = "broken" /\ inbox' = <<>>
    /\ UNCHANGED <<x, worker, lock, page, load, pane>>

Reconnect ==
    /\ stream = "broken"
    /\ stream' = "refetching"
    /\ Refetch("reconnect")
    /\ UNCHANGED <<x, worker, lock, page, inbox, pane, left>>

Wake ==
    /\ stream = "sleeping"
    /\ stream' = "opening"
    /\ UNCHANGED <<x, worker, lock, page, inbox, load, pane, left>>

\* onEvent: a control event answers a pending hand-back, then the snapshot takes it.
Receive ==
    /\ inbox # <<>>
    /\ LET e == Head(inbox)
           answers == page.pending /\ e.type = "control" /\ e.phase \in {"waiting", "automation"}
       IN  /\ Renders([page EXCEPT !.shot = applyRunEvent(@, e),
                                   !.pending = @ /\ ~answers,
                                   !.unmet = @ \/ (answers /\ e.phase = "waiting")],
                      stream, Tail(inbox))
           /\ IF answers THEN Refetch("pull") ELSE UNCHANGED load
    /\ UNCHANGED <<x, worker, lock, left>>

-----------------------------------------------------------------------------
(* The person at the page.  Bound: nobody leaves before an answer came.    *)

\* The screen is there: with loaded.error only the refusal is.
Screen == page.open /\ page.shot # None /\ ~page.error
View == Shows(page)

pause == waitingStep(page.shot, TakeoverSteps)
Check == predicateLine(page.shot, pause \in CheckedSteps, View.show = "control bar")

\* The buttons: what each part of the screen lets a person ask for.
WaitingCard == IF View.show = "waiting card" THEN {"take"} ELSE {}
ControlBar == IF View.show = "control bar" THEN {"handback"} ELSE {}
UnmetChoice == IF View.show = "unmet choice" THEN {"take", "abandon"} ELSE {}
PredicateLine == IF Check.offerStay THEN {"hold"} ELSE {}
ChallengeBanner == IF challengeBanners(page.shot, page.dismissed) # {} THEN {"pause"} ELSE {}
CancelConfirm ==
    IF page.confirm /\ ~Cancelling(page.shot) /\ ~isTerminal(page.shot.status)
    THEN {"cancel"} ELSE {}

Offers ==
    WaitingCard \cup ControlBar \cup UnmetChoice \cup PredicateLine
    \cup ChallengeBanner \cup CancelConfirm

\* A mutation is sent; "keep control and finish it" clears the choice first.
\* Bound: one at a time.
Click(op) ==
    /\ Screen /\ page.ask = None /\ op \in Offers
    /\ Ask(op)
    /\ Becomes([page EXCEPT !.ask = [op |-> op, answer |-> None],
                            !.unmet = IF op = "take" THEN FALSE ELSE @])
    /\ UNCHANGED <<x, worker, lock, load>>

\* "Cancel run" asks for confirmation, "Keep running" withdraws it.
ConfirmCancel(c) ==
    /\ Screen /\ page.confirm # c /\ ~isTerminal(page.shot.status)
    /\ "cancel" \in left.ops
    /\ Becomes([page EXCEPT !.confirm = c])
    /\ UNCHANGED <<x, worker, lock, load, left>>

Dismiss(p) ==
    /\ Screen /\ p \in challengeBanners(page.shot, page.dismissed)
    /\ "pause" \in left.ops
    /\ Becomes([page EXCEPT !.dismissed = @ \cup {p}])
    /\ UNCHANGED <<x, worker, lock, load, left>>

\* The callbacks of a mutation that succeeded.
onTookOver(p) == [p EXCEPT !.already = FALSE, !.unmet = FALSE, !.hold = TRUE, !.sees = "me"]
onReleased(p) == [p EXCEPT !.pending = p.hold, !.hold = FALSE,
                           !.sees = IF lock = "me" THEN None ELSE @]
onStay(p) == [p EXCEPT !.shot.auto = FALSE]
onPause(p) == [p EXCEPT !.shot.pause = TRUE]

Answered(p) ==
    IF p.ask.answer = "held" THEN [p EXCEPT !.already = TRUE]
    ELSE IF p.ask.answer = "refused" THEN p
    ELSE CASE p.ask.op = "take"        -> onTookOver(p)
           [] p.ask.op \in {"handback", "abandon"} -> onReleased(p)
           [] p.ask.op = "hold"        -> onStay(p)
           [] p.ask.op = "pause"       -> onPause(p)
           [] p.ask.op = "cancel"      -> [p EXCEPT !.confirm = FALSE]

Answer ==
    /\ page.ask # None /\ page.ask.answer # None
    /\ Becomes([Answered(page) EXCEPT !.ask = None])
    /\ LET op == IF page.ask.answer = "ok" THEN page.ask.op ELSE None IN
       /\ lock' = CASE op = "take" -> "me"
                    [] op \in {"handback", "abandon"} /\ lock = "me" -> None
                    [] OTHER -> lock
       /\ IF op = "cancel" THEN Refetch("cancel") ELSE UNCHANGED load
    /\ UNCHANGED <<x, worker, left>>

\* A storage event, or a message of another tab on the channel.
Hear ==
    /\ page.open /\ page.sees # lock
    /\ Becomes([page EXCEPT !.sees = lock])
    /\ UNCHANGED <<x, worker, lock, load, left>>

\* Away by a link: the lock is released and the query cache stays.
Leave ==
    /\ page.open /\ page.ask = None
    /\ Becomes([Closed EXCEPT !.cached = page.cached])
    /\ lock' = IF lock = "me" THEN None ELSE lock
    /\ load' = IF load = None THEN None ELSE [load EXCEPT !.by = {}]
    /\ UNCHANGED <<x, worker, left>>

\* The tab is closed: no cleanup runs, and a new tab has another id.
Kill ==
    /\ page.open /\ page.ask = None
    /\ Becomes(Closed)
    /\ lock' = IF lock = "me" THEN "other" ELSE lock
    /\ load' = None
    /\ UNCHANGED <<x, worker, left>>
-----------------------------------------------------------------------------
(* The pane's connection, and the proxy's side of it.                      *)

\* connect(): a stream ticket, or control once more.
Mint ==
    /\ pane.stage = "mint"
    /\ LET good == IF pane.mode = "interactive" THEN Accepts("take", x, Me)
                                               ELSE x.status \in NON_TERMINAL
       IN  /\ pane' = [pane EXCEPT !.stage = IF good THEN "ticket" ELSE "closed"]
           /\ x' = IF good /\ pane.mode = "interactive" THEN Write("take", x, x, Me) ELSE x
    /\ UNCHANGED <<worker, lock, page, stream, inbox, load, left>>

MayControl == x.holder = Me /\ ~x.handback

\* vnc_socket: the ticket is redeemed, and Me's hold on the row decides.  A ticket
\* that outlived TICKET_TTL, or a Worker that cannot be reached, admits nobody.
admit ==
    /\ pane.stage = "ticket"
    /\ \/ /\ x.status \in NON_TERMINAL /\ x.worker # None
          /\ pane' = [pane EXCEPT !.stage = "open", !.control = MayControl]
          /\ UNCHANGED left
       \/ /\ x.status \notin NON_TERMINAL \/ x.worker = None
          /\ pane' = [pane EXCEPT !.stage = "closed"]
          /\ UNCHANGED left
       \/ Trouble("ticket") /\ pane' = [pane EXCEPT !.stage = "closed"]
    /\ UNCHANGED <<x, worker, lock, page, stream, inbox, load>>

\* Mutant: the watch forgets the holder.
OpenUntilAsked == x.status \in NON_TERMINAL /\ (pane.control => ~x.handback)

still_open == x.status \in NON_TERMINAL /\ (pane.control => MayControl)

\* The watch of pipe_rfb closes the socket, on both sides.
Watch ==
    /\ pane.stage = "open" /\ ~still_open
    /\ pane' = [pane EXCEPT !.stage = "closed", !.control = FALSE]
    /\ UNCHANGED <<x, worker, lock, page, stream, inbox, load, left>>

-----------------------------------------------------------------------------

Work ==
    \/ Claim \/ Publish \/ StartStep \/ LogStep \/ SeeCancel \/ SkipStep
    \/ FinishRun \/ Park \/ SeeHolder \/ SeeHandBack \/ Unmet \/ Resume \/ LetGo
    \/ \E status \in {"passed", "failed"} : EndStep(status)

Loading == LoadDetail \/ LoadLogs \/ LoadDone
Listening == Subscribe \/ Reconnect \/ Wake

Person ==
    \/ Open \/ Leave \/ Kill \/ Hear
    \/ \E op \in Op : Click(op)
    \/ \E c \in BOOLEAN : ConfirmCancel(c)
    \/ \E p \in Steps : Dismiss(p)
    \/ \E s \in Sessions, op \in Op : Elsewhere(s, op)

Next ==
    \/ Work \/ Challenge \/ \E met \in BOOLEAN : SeeCheck(met)
    \/ Die \/ Tick \/ Serve \/ LoadFails \/ Break
    \/ Loading \/ Listening \/ Receive \/ Answer \/ Person
    \/ Mint \/ admit \/ Watch

Spec == Init /\ [][Next]_vars

(* Requests are answered, the page's loop runs on, what was published is   *)
(* forwarded, and the proxy watches.  Nothing is assumed of people, of the *)
(* Worker's Steps or of the minute loop.                                   *)
Fairness ==
    /\ WF_vars(Loading) /\ WF_vars(Listening)
    /\ WF_vars(Publish) /\ WF_vars(Receive) /\ WF_vars(Watch)

FairSpec == Spec /\ Fairness

-----------------------------------------------------------------------------
(* Properties.                                                             *)

(* No log line is shown twice or out of order, although loads and events   *)
(* both bring lines and an old load may replace a newer list.              *)
LogsOnce ==
    page.shot # None =>
        \A i, j \in DOMAIN page.shot.logs : i < j => page.shot.logs[i] < page.shot.logs[j]

(* Every Step Result on the page is the one in the database: events tell   *)
(* only of what was committed, and no later write changes a result.        *)
ResultsTrue ==
    page.shot # None =>
        \A p \in Steps : page.shot.results[p] \in {None, x.results[p]}

(* A page that says the Run has ended is right that it has.  (The verdict  *)
(* itself may be another: finish_run's event is published although the     *)
(* UPDATE matched nothing.)                                                *)
EndedIsTrue == page.shot # None /\ isTerminal(page.shot.status) => isTerminal(x.status)

(* A page that shows a live Run goes on listening: whatever breaks, listen *)
(* is back at an open stream, or the Run has ended, or the page is gone.   *)
KeepsListening == Listens(page) ~> stream = "open" \/ ~Listens(page)

(* Control of the browser ends with the hold: a control socket whose       *)
(* session was released, or asked to hand back, is closed.                 *)
Overstays == pane.stage = "open" /\ pane.control /\ ~MayControl
ControlEnds == Overstays ~> ~Overstays

(* What the cockpit shows is true, however loads and events overtake each  *)
(* other: its log has each line once and in order, its results are those   *)
(* of the database, and a Run it shows as ended has ended (applyRunEvent,  *)
(* CockpitLoad).                                                           *)
ShowsTruth == TypeOK /\ LogsOnce /\ ResultsTrue /\ EndedIsTrue
=============================================================================

--------------------------- MODULE CockpitProofs ---------------------------
(***************************************************************************)
(* Proofs about Cockpit for any Steps, Sessions, Workers, takeover Steps,  *)
(* length of the stream and troubles: what the page of a Run shows is      *)
(* true, however loads and events overtake each other.                     *)
(*                                                                         *)
(* The invariant has three parts.  The Worker stands at a point of execute *)
(* that its row allows, so that what it is about to publish was committed. *)
(* What a load brings, and what is cached, was true when it was read and   *)
(* stays true: the row only moves Later.  And every log line under way to  *)
(* the page is either shown already or comes after all that are.           *)
(***************************************************************************)
EXTENDS Cockpit, RunRowProofs, SequenceTheorems

USE NoneAssumption, NStepsAssumption
USE DEF RowStatus, RunStatus, NON_TERMINAL, Live, Terminal

\* What may become of the row y: an ended Run stays ended, a result stays.
Later(y, z) ==
    /\ z \in Row /\ z.status \in RunStatus
    /\ y.status \in Terminal => z.status \in Terminal
    /\ \A p \in Steps : y.results[p] # None => z.results[p] = y.results[p]

\* Where execute may stand while the row is y.
Stands(e, y) ==
    /\ y.status \in RunStatus
    /\ e.pc = "idle" => y.status \in {"queued"} \cup Terminal
    /\ e.pc \in {"head", "log", "act", "skip", "finish"} => y.status \in {"running"} \cup Terminal
    /\ e.pc \in {"parked", "verify"} => y.status \in {"waiting_for_human"} \cup Terminal
    /\ e.pc \in {"log", "act"} => e.pos < NSteps

\* An event tells what the row y with n log lines has.
Tells(e, y, n) ==
    /\ e \in RunEvent
    /\ e.type = "step.finished" => y.results[e.step] = e.status
    /\ e.type = "run.status" => y.status \in Terminal
    /\ e.type = "log" => e.seq \in 1 .. n

Before(e, f) == e.type = "log" /\ f.type = "log" => e.seq < f.seq

\* The events forwarded, and those to be published, tell the truth in order.
Events(box, out, y, n) ==
    /\ box \in Seq(RunEvent) /\ out \in Seq(RunEvent) /\ Len(out) <= 1
    /\ \A i \in DOMAIN box : Tells(box[i], y, n)
    /\ \A k \in DOMAIN out : Tells(out[k], y, n)
    /\ \A i, j \in DOMAIN box : i < j => Before(box[i], box[j])
    /\ \A i \in DOMAIN box, k \in DOMAIN out : Before(box[i], out[k])

\* A snapshot that is true of the row y with n log lines.
Fair(s, y, n) ==
    /\ s \in CockpitSnapshot
    /\ \A i \in DOMAIN s.logs : s.logs[i] \in 1 .. n
    /\ \A i, j \in DOMAIN s.logs : i < j => s.logs[i] < s.logs[j]
    /\ \A p \in Steps : s.results[p] \in {None, y.results[p]}
    /\ s.status \in Terminal => y.status \in Terminal

\* As a load brings it: all log lines up to some point.
Whole(s) == \A i \in DOMAIN s.logs : s.logs[i] = i

\* A line that e brings is there, or comes after all that are.
Place(s, e) ==
    e.type = "log" => \/ \E i \in DOMAIN s.logs : s.logs[i] = e.seq
                      \/ \A i \in DOMAIN s.logs : s.logs[i] < e.seq
Placed(s, box, out) ==
    /\ \A i \in DOMAIN box : Place(s, box[i])
    /\ \A k \in DOMAIN out : Place(s, out[k])

\* The snapshots a tab p with the fetch f has.
Shots(p, f, y, n) ==
    /\ p.shot # None => Fair(p.shot, y, n) /\ p.cached # None
    /\ p.cached # None => Fair(p.cached, y, n) /\ Whole(p.cached)
    /\ f # None /\ f.done => f.got # None
    /\ f # None /\ f.got # None => Fair(f.got, y, n) /\ Whole(f.got)

\* Events wait at an open stream, which is there for a snapshot to apply them to.
Heard(p, now, box) ==
    /\ box # <<>> => now = "open"
    /\ now # "off" => Listens(p)
    /\ p.ask # None => p.shot # None

Inv ==
    /\ TypeOK
    /\ Stands(exec, x)
    /\ Events(inbox, exec.out, x, lines)
    /\ Shots(page, load, x, lines)
    /\ page.shot # None => Placed(page.shot, inbox, exec.out)
    /\ Heard(page, stream, inbox)

-----------------------------------------------------------------------------
(* The row.                                                                *)

(* A write of a request but a deletion leaves the Run there, and takes it  *)
(* to no other live status.                                                *)
LEMMA WriteLater ==
    ASSUME NEW op \in Op, NEW y \in Row, NEW s \in Sessions, y.status \in RunStatus
    PROVE  LET z == Write(op, y, y, s) IN
           Later(y, z) /\ (z.status = y.status \/ z.status \in Terminal)
  <1> DEFINE z == Write(op, y, y, s)
  <1> SUFFICES Later(y, z) /\ (z.status = y.status \/ z.status \in Terminal)
    OBVIOUS
  <1>0. op \in Ops /\ op # "delete"
    BY DEF Op, Ops
  <1>1. /\ z \in Row /\ Grows(y, z)
        /\ z.status = y.status \/ z.status \in Terminal \/ z.status = "deleted"
    BY <1>0, WriteKeeps
  <1>2. z.status # "deleted"
    <2>1. CASE op = "cancel"
      BY <2>1 DEF Write, cancel_run, close_waiting_run, skip_unreached, Row
    <2>2. CASE op = "abandon"
      BY <2>2 DEF Write, abandon_takeover, close_waiting_run, fail_paused_and_skip_rest, Row
    <2>3. CASE op \in {"pause", "take", "hold", "handback"}
      BY <2>3 DEF Write, pause_run, take_over_run, hold_takeover, hand_back_run, Row
    <2> QED BY <2>1, <2>2, <2>3 DEF Op
  <1> HIDE DEF z
  <1>3. y.status \notin {"absent", "deleted"}
    OBVIOUS
  <1>4. Later(y, z)
    BY <1>1, <1>2, <1>3 DEF Grows, Later, Row
  <1> QED BY <1>1, <1>2, <1>4

(* So does a tick of the reapers.                                          *)
LEMMA ReapLater ==
    ASSUME NEW y \in Row, y.status \in RunStatus
    PROVE  Later(y, reap(y)) /\ (reap(y).status = y.status \/ reap(y).status \in Terminal)
  <1> DEFINE z == reap(y)
  <1>1. /\ z \in Row /\ Grows(y, z)
        /\ z.status = y.status \/ z.status \in Terminal
    BY ReapKeeps
  <1> HIDE DEF z
  <1>2. Later(y, z)
    BY <1>1 DEF Grows, Later, Row
  <1> QED BY <1>1, <1>2 DEF z


\* A row that stays is one of what may become of it.
LEMMA SameLater ==
    ASSUME NEW y \in Row, y.status \in RunStatus
    PROVE  Later(y, y)
  BY DEF Later

(* What was true of the row and of the log stays true.                     *)
LEMMA LaterKeeps ==
    ASSUME NEW y \in Row, NEW z, Later(y, z), NEW n \in Nat, NEW m \in Nat, n <= m
    PROVE  /\ \A e : Tells(e, y, n) => Tells(e, z, m)
           /\ \A s : Fair(s, y, n) => Fair(s, z, m)
           /\ \A box, out : Events(box, out, y, n) => Events(box, out, z, m)
           /\ \A p, f : Shots(p, f, y, n) => Shots(p, f, z, m)
  <1>1. \A e : Tells(e, y, n) => Tells(e, z, m)
    <2> SUFFICES ASSUME NEW e, Tells(e, y, n)
                 PROVE  Tells(e, z, m)
      OBVIOUS
    <2>1. e \in RunEvent
      BY DEF Tells
    <2>2. CASE e.type = "step.finished"
      <3>1. e.step \in Steps /\ e.status \in StepResultStatus
        BY <2>1, <2>2 DEF RunEvent
      <3> QED BY <2>1, <2>2, <3>1 DEF Tells, Later
    <2>3. CASE e.type = "log"
      BY <2>1, <2>3 DEF Tells
    <2>4. CASE e.type \notin {"step.finished", "log"}
      BY <2>1, <2>4 DEF Tells, Later
    <2> QED BY <2>2, <2>3, <2>4
  <1>2. \A s : Fair(s, y, n) => Fair(s, z, m)
    <2> SUFFICES ASSUME NEW s, Fair(s, y, n)
                 PROVE  Fair(s, z, m)
      OBVIOUS
    <2>1. \A i \in DOMAIN s.logs : s.logs[i] \in 1 .. m
      BY DEF Fair
    <2>2. \A p \in Steps : s.results[p] \in {None, z.results[p]}
      BY DEF Fair, Later
    <2>3. s.status \in Terminal => z.status \in Terminal
      BY DEF Fair, Later
    <2> QED BY <2>1, <2>2, <2>3 DEF Fair
  <1>3. \A box, out : Events(box, out, y, n) => Events(box, out, z, m)
    BY <1>1 DEF Events
  <1>4. \A p, f : Shots(p, f, y, n) => Shots(p, f, z, m)
    BY <1>2 DEF Shots
  <1> QED BY <1>1, <1>2, <1>3, <1>4

-----------------------------------------------------------------------------
(* The steps, by what they touch.                                          *)

\* Every constant is as the model assumes.
USE CockpitAssumption

(* A step of the Worker: it has nothing left to publish, writes, and then  *)
(* has at most one event that tells of the write.                          *)
LEMMA WorkerKeeps ==
    ASSUME Inv, exec.out = <<>>, Later(x, x'), lines' \in Nat, lines <= lines',
           NEW e \in Exec, NEW es \in Seq(RunEvent), Len(es) <= 1,
           \A k \in DOMAIN es : /\ Tells(es[k], x', lines')
                                /\ es[k].type = "log" => lines < es[k].seq,
           Moves(e, es), Stands(e, x')
    PROVE  Inv'
  <1>1. /\ exec' = [e EXCEPT !.out = es] /\ exec' \in Exec /\ exec'.out = es
        /\ UNCHANGED <<lock, page, stream, inbox, load, pane, left>>
    BY DEF Moves, tab, Exec
  <1>2. x \in Row /\ x' \in Row /\ lines \in Nat
    BY DEF Inv, TypeOK, Later
  <1>3. TypeOK'
    BY <1>1, <1>2 DEF Inv, TypeOK
  <1>4. Stands(exec', x')
    BY <1>1 DEF Stands, Exec
  <1>5. Events(inbox, exec.out, x', lines') /\ Shots(page, load, x', lines')
    BY <1>2, LaterKeeps DEF Inv
  <1>6. \A i \in DOMAIN inbox, k \in DOMAIN es : Before(inbox[i], es[k])
    BY <1>2 DEF Inv, Events, Tells, Before
  <1>7. Events(inbox, es, x', lines')
    BY <1>5, <1>6 DEF Events
  <1>8. ASSUME page.shot # None
        PROVE  Placed(page.shot, inbox, es)
    <2>1. Fair(page.shot, x, lines)
      BY <1>8 DEF Inv, Shots
    <2>2. \A k \in DOMAIN es : Place(page.shot, es[k])
      <3> SUFFICES ASSUME NEW k \in DOMAIN es, es[k].type = "log"
                   PROVE  \A i \in DOMAIN page.shot.logs : page.shot.logs[i] < es[k].seq
        BY DEF Place
      <3>1. es[k].seq \in Nat /\ lines < es[k].seq
        BY DEF Tells
      <3> QED BY <1>2, <2>1, <3>1 DEF Fair
    <2> QED BY <1>8, <2>2 DEF Inv, Placed
  <1>9. Heard(page, stream, inbox)
    BY DEF Inv
  <1>10. /\ page' = page /\ stream' = stream /\ inbox' = inbox /\ load' = load
         /\ exec'.out = es
    BY <1>1
  <1>11. Events(inbox', exec'.out, x', lines') /\ Shots(page', load', x', lines')
    BY <1>5, <1>7, <1>10
  <1>12. page'.shot # None => Placed(page'.shot, inbox', exec'.out)
    BY <1>8, <1>10
  <1>13. Heard(page, stream, inbox)'
    BY <1>9, <1>10 DEF Heard, Listens
  <1> QED BY <1>3, <1>4, <1>11, <1>12, <1>13 DEF Inv

(* A step that writes the row for somebody else, or nothing at all, and    *)
(* leaves what the page shows as it is.                                    *)
LEMMA OthersKeep ==
    ASSUME Inv, Later(x, x'), x'.status = x.status \/ x'.status \in Terminal,
           exec' \in {exec, [exec EXCEPT !.pc = "gone", !.out = <<>>]},
           UNCHANGED <<lines, stream, inbox, load>>,
           lock' \in {None, "me", "other"}, pane' \in Pane, left' \in Budget,
           page' \in Page, page'.shot = page.shot, page'.cached = page.cached,
           page'.open = page.open, page'.ask # None => page.ask # None
    PROVE  Inv'
  <1>1. x \in Row /\ x' \in Row /\ lines \in Nat /\ lines' = lines /\ exec \in Exec
    BY DEF Inv, TypeOK, Later
  <1>2. exec' \in Exec /\ exec'.out \in {exec.out, <<>>}
    <2>1. CASE exec' = exec
      BY <1>1, <2>1
    <2>2. CASE exec' = [exec EXCEPT !.pc = "gone", !.out = <<>>]
      <3>1. <<>> \in Seq(RunEvent)
        OBVIOUS
      <3>2. exec' \in Exec /\ exec'.out = <<>>
        BY <1>1, <2>2, <3>1 DEF Exec
      <3> QED BY <3>2
    <2> QED BY <2>1, <2>2
  <1>3. TypeOK'
    BY <1>1, <1>2 DEF Inv, TypeOK
  <1>4. Stands(exec', x')
    BY <1>1 DEF Inv, Stands, Later, Exec
  <1>5. Events(inbox, exec.out, x', lines) /\ Shots(page, load, x', lines)
    BY <1>1, LaterKeeps DEF Inv
  <1>6. Events(inbox', exec'.out, x', lines')
    <2>1. CASE exec'.out = exec.out
      BY <1>1, <1>5, <2>1
    <2>2. CASE exec'.out = <<>>
      <3>1. <<>> \in Seq(RunEvent) /\ Len(<<>>) = 0 /\ DOMAIN <<>> = {}
        OBVIOUS
      <3>2. Events(inbox, <<>>, x', lines)
        BY <1>5, <3>1 DEF Events
      <3> QED BY <1>1, <2>2, <3>2
    <2> QED BY <1>2, <2>1, <2>2
  <1>7. Shots(page', load', x', lines')
    BY <1>1, <1>5 DEF Shots
  <1>8. page'.shot # None => Placed(page'.shot, inbox', exec'.out)
    BY <1>2 DEF Inv, Placed
  <1>9. Heard(page, stream, inbox)'
    BY DEF Inv, Heard, Listens
  <1> QED BY <1>3, <1>4, <1>6, <1>7, <1>8, <1>9 DEF Inv

(* The page renders: its stream and its pane follow from what it shows.    *)
LEMMA RendersKeep ==
    ASSUME Inv, NEW p \in Page, NEW now, NEW box, Renders(p, now, box),
           now \in {"off", "opening", "open", "broken", "refetching", "sleeping"},
           UNCHANGED <<x, worker>>,
           lock' \in {None, "me", "other"}, left' \in Budget, load' \in Load \cup {None},
           Shots(p, load', x, lines), Events(box, exec.out, x, lines),
           p.shot # None => Placed(p.shot, box, exec.out),
           box # <<>> => now = "open",
           p.ask # None => p.shot # None
    PROVE  Inv'
  <1> DEFINE q == Settled(p)
  <1>1. /\ q \in Page /\ q.shot = p.shot /\ q.cached = p.cached /\ q.open = p.open
        /\ q.ask = p.ask
    <2>1. CASE q = p
      BY <2>1
    <2>2. CASE q = [p EXCEPT !.hold = FALSE, !.unmet = FALSE, !.already = FALSE]
      BY <2>2 DEF Page
    <2> QED BY <2>1, <2>2 DEF Settled
  <1>2. /\ page' = q /\ stream' = StreamFor(q, now) /\ pane' = PaneFor(q)
        /\ inbox' = IF StreamFor(q, now) = "open" THEN box ELSE <<>>
    BY DEF Renders
  <1> HIDE DEF q
  <1>3. /\ StreamFor(q, now) \in {"off", "opening", "open", "broken", "refetching", "sleeping"}
        /\ StreamFor(q, now) # "off" => Listens(q)
    BY DEF StreamFor
  <1>4. PaneFor(q) \in Pane
    <2> DEFINE mode == IF q.open /\ q.shot # None /\ ~q.error /\ left.vnc
                          /\ Shows(q).frame \in {"view_only", "interactive"}
                       THEN Shows(q).frame ELSE "none"
    <2>1. mode \in {"none", "view_only", "interactive"}
      OBVIOUS
    <2>2. PaneFor(q) = IF mode = pane.mode THEN pane
                       ELSE [mode |-> mode, stage |-> IF mode = "none" THEN "none" ELSE "mint",
                             control |-> FALSE]
      BY DEF PaneFor
    <2> HIDE DEF mode
    <2>3. pane \in Pane
      BY DEF Inv, TypeOK
    <2> QED BY <2>1, <2>2, <2>3 DEF Pane
  <1>5. Events(inbox', exec.out, x, lines) /\ (inbox' = box \/ inbox' = <<>>)
    <2>1. Events(<<>>, exec.out, x, lines)
      <3>1. <<>> \in Seq(RunEvent) /\ DOMAIN <<>> = {}
        OBVIOUS
      <3> QED BY <3>1 DEF Events
    <2> QED BY <1>2, <2>1
  <1>6. TypeOK'
    <2>1. inbox' \in Seq(RunEvent)
      BY <1>5 DEF Events
    <2> QED BY <1>1, <1>2, <1>3, <1>4, <2>1 DEF Inv, TypeOK, worker
  <1>7. exec' = exec /\ x' = x /\ lines' = lines
    BY DEF worker
  <1>8. Stands(exec, x)' /\ Events(inbox, exec.out, x, lines)'
    BY <1>5, <1>7 DEF Inv, Stands
  <1>9. Shots(page, load, x, lines)'
    BY <1>1, <1>2, <1>7 DEF Shots
  <1>10. page'.shot # None => Placed(page'.shot, inbox', exec'.out)
    <2>1. Placed(page'.shot, <<>>, exec'.out) \/ ~Placed(p.shot, box, exec.out)
      <3>1. DOMAIN <<>> = {}
        OBVIOUS
      <3> QED BY <1>1, <1>2, <1>7, <3>1 DEF Placed
    <2> QED BY <1>1, <1>2, <1>5, <1>7, <2>1
  <1>11. Heard(page, stream, inbox)'
    <2>1. inbox' # <<>> => stream' = "open"
      BY <1>2
    <2>2. stream' # "off" => Listens(page')
      BY <1>2, <1>3
    <2>3. Listens(page)' <=> Listens(page')
      BY DEF Listens
    <2> QED BY <1>1, <1>2, <2>1, <2>2, <2>3 DEF Heard
  <1> QED BY <1>6, <1>8, <1>9, <1>10, <1>11 DEF Inv

(* A load that was taken has all lines up to some point, so that any line  *)
(* told of later is there or comes after them.                             *)
LEMMA WholePlaced ==
    ASSUME NEW s \in CockpitSnapshot, Whole(s), NEW box, NEW out, NEW y, NEW n \in Nat,
           Events(box, out, y, n)
    PROVE  Placed(s, box, out)
  <1>1. s.logs \in Seq(Nat)
    BY DEF CockpitSnapshot
  <1>2. ASSUME NEW e, Tells(e, y, n)
        PROVE  Place(s, e)
    <2> SUFFICES ASSUME e.type = "log", ~\E i \in DOMAIN s.logs : s.logs[i] = e.seq
                 PROVE  \A i \in DOMAIN s.logs : s.logs[i] < e.seq
      BY DEF Place
    <2>1. e.seq \in 1 .. n
      BY <1>2 DEF Tells
    <2>2. DOMAIN s.logs = 1 .. Len(s.logs) /\ Len(s.logs) \in Nat
      BY <1>1
    <2>3. e.seq > Len(s.logs)
      BY <2>1, <2>2 DEF Whole
    <2> QED BY <2>1, <2>2, <2>3 DEF Whole
  <1> QED BY <1>2 DEF Events, Placed

(* The page changes by itself, and shows the same log or a cached load.    *)
LEMMA BecomesKeep ==
    ASSUME Inv, NEW p \in Page, Becomes(p), UNCHANGED <<x, worker>>,
           lock' \in {None, "me", "other"}, left' \in Budget, load' \in Load \cup {None},
           Shots(p, load', x, lines),
           p.shot # None => \/ page.shot # None /\ p.shot.logs = page.shot.logs
                            \/ Whole(p.shot),
           p.ask # None => p.shot # None
    PROVE  Inv'
  <1>1. /\ stream \in {"off", "opening", "open", "broken", "refetching", "sleeping"}
        /\ Events(inbox, exec.out, x, lines) /\ (inbox # <<>> => stream = "open")
        /\ lines \in Nat /\ Renders(p, stream, inbox)
    BY DEF Inv, TypeOK, Heard, Becomes
  <1>2. ASSUME p.shot # None
        PROVE  Placed(p.shot, inbox, exec.out)
    <2>1. CASE page.shot # None /\ p.shot.logs = page.shot.logs
      BY <2>1 DEF Inv, Placed, Place
    <2>2. CASE Whole(p.shot)
      <3>1. p.shot \in CockpitSnapshot
        BY <1>2 DEF Page
      <3> QED BY <1>1, <2>2, <3>1, WholePlaced
    <2> QED BY <1>2, <2>1, <2>2
  <1> QED BY <1>1, <1>2, RendersKeep

(* What an event changes of a snapshot: its status and one result are as   *)
(* the event tells, and its log gains the line of a log event only.        *)
LEMMA ApplyChanges ==
    ASSUME NEW s \in CockpitSnapshot, NEW e \in RunEvent
    PROVE  LET z == applyRunEvent(s, e) IN
           /\ z \in CockpitSnapshot
           /\ z.status = s.status \/ (e.type = "run.status" /\ z.status = e.status)
           /\ \A p \in Steps : \/ z.results[p] = s.results[p]
                               \/ /\ e.type = "step.finished" /\ p = e.step
                                  /\ z.results[p] = e.status
           /\ z.logs = IF e.type = "log" THEN appendLog(s, e).logs ELSE s.logs
  <1> DEFINE z == applyRunEvent(s, e)
  <1> SUFFICES /\ z \in CockpitSnapshot
               /\ z.status = s.status \/ (e.type = "run.status" /\ z.status = e.status)
               /\ \A p \in Steps : \/ z.results[p] = s.results[p]
                                   \/ /\ e.type = "step.finished" /\ p = e.step
                                      /\ z.results[p] = e.status
               /\ z.logs = IF e.type = "log" THEN appendLog(s, e).logs ELSE s.logs
    OBVIOUS
  <1>1. CASE e.type = "step.started"
    <2>1. z = [s EXCEPT !.inFlight = e.step] /\ e.step \in Steps
      BY <1>1 DEF applyRunEvent, RunEvent
    <2> QED BY <1>1, <2>1 DEF CockpitSnapshot
  <1>2. CASE e.type = "step.finished"
    <2>1. z = finishStep(s, e) /\ e.step \in Steps /\ e.status \in StepResultStatus
      BY <1>2 DEF applyRunEvent, RunEvent
    <2>2. s.results \in [Steps -> StepResultStatus \cup {None}]
      BY DEF CockpitSnapshot, Results
    <2>3. /\ z = [s EXCEPT !.inFlight = IF s.inFlight = e.step THEN None ELSE s.inFlight,
                           !.results = [s.results EXCEPT ![e.step] = e.status]]
      BY <2>1 DEF finishStep
    <2>4. [s.results EXCEPT ![e.step] = e.status] \in Results
      BY <2>1, <2>2 DEF Results
    <2> QED BY <1>2, <2>1, <2>2, <2>3, <2>4 DEF CockpitSnapshot
  <1>3. CASE e.type = "run.status"
    <2>1. z = [s EXCEPT !.inFlight = None, !.status = e.status] /\ e.status \in Terminal
      BY <1>3 DEF applyRunEvent, RunEvent
    <2> QED BY <1>3, <2>1 DEF CockpitSnapshot
  <1>4. CASE e.type = "control"
    <2>1. z = shiftControl(s, e) /\ e.phase \in Phase
      BY <1>4 DEF applyRunEvent, RunEvent
    <2> QED BY <1>4, <2>1 DEF shiftControl, CockpitSnapshot
  <1>5. CASE e.type = "log"
    <2>1. z = appendLog(s, e) /\ e.seq \in Nat
      BY <1>5 DEF applyRunEvent, RunEvent
    <2>2. s.logs \in Seq(Nat) /\ Append(s.logs, e.seq) \in Seq(Nat)
      BY <2>1 DEF CockpitSnapshot
    <2>3. z = s \/ z = [s EXCEPT !.logs = Append(s.logs, e.seq)]
      BY <2>1 DEF appendLog
    <2> QED BY <1>5, <2>1, <2>2, <2>3 DEF CockpitSnapshot
  <1>6. CASE e.type = "predicate"
    <2>1. z = [s EXCEPT !.met = e.met, !.grace = e.grace] /\ e.met \in BOOLEAN /\ e.grace \in BOOLEAN
      BY <1>6 DEF applyRunEvent, RunEvent
    <2> QED BY <1>6, <2>1 DEF CockpitSnapshot
  <1>7. CASE e.type = "diagnostic"
    <2>1. z = [s EXCEPT !.diagnostics = s.diagnostics \cup {e.step}] /\ e.step \in Steps
      BY <1>7 DEF applyRunEvent, appendDiagnostic, RunEvent
    <2> QED BY <1>7, <2>1 DEF CockpitSnapshot
  <1>8. e.type \in {"step.started", "step.finished", "run.status", "control", "log",
                    "predicate", "diagnostic"}
    BY DEF RunEvent
  <1> QED BY <1>1, <1>2, <1>3, <1>4, <1>5, <1>6, <1>7, <1>8

(* onEvent in page.tsx: the snapshot takes the first event forwarded and   *)
(* stays fair, and every line still under way comes after those it has.    *)
LEMMA ApplyKeeps ==
    ASSUME NEW y \in Row, NEW n \in Nat, NEW box, NEW out, NEW s, box # <<>>,
           Fair(s, y, n), Events(box, out, y, n), Placed(s, box, out)
    PROVE  /\ Fair(applyRunEvent(s, Head(box)), y, n)
           /\ Events(Tail(box), out, y, n)
           /\ Placed(applyRunEvent(s, Head(box)), Tail(box), out)
  <1> DEFINE e == Head(box)
             z == applyRunEvent(s, e)
             t == Tail(box)
  <1>1. /\ box \in Seq(RunEvent) /\ Len(box) \in Nat /\ Len(box) >= 1
        /\ DOMAIN box = 1 .. Len(box) /\ e = box[1] /\ 1 \in DOMAIN box
    BY DEF Events
  <1>2. /\ t \in Seq(RunEvent) /\ DOMAIN t = 1 .. Len(box) - 1
        /\ \A i \in DOMAIN t : i + 1 \in DOMAIN box /\ t[i] = box[i + 1]
    BY <1>1
  <1>3. Tells(e, y, n) /\ Place(s, e) /\ s \in CockpitSnapshot
    BY <1>1 DEF Events, Placed, Fair
  <1>4. \A i \in DOMAIN t : Before(e, t[i]) /\ Tells(t[i], y, n) /\ Place(s, t[i])
    <2> SUFFICES ASSUME NEW i \in DOMAIN t
                 PROVE  Before(e, t[i]) /\ Tells(t[i], y, n) /\ Place(s, t[i])
      OBVIOUS
    <2>1. i + 1 \in DOMAIN box /\ t[i] = box[i + 1] /\ 1 < i + 1
      BY <1>1, <1>2
    <2> QED BY <1>1, <2>1 DEF Events, Placed
  <1>5. \A k \in DOMAIN out : Before(e, out[k]) /\ Tells(out[k], y, n) /\ Place(s, out[k])
    BY <1>1 DEF Events, Placed
  <1> HIDE DEF e, t
  <1>6. Events(t, out, y, n)
    <2>1. \A i, j \in DOMAIN t : i < j => Before(t[i], t[j])
      <3> SUFFICES ASSUME NEW i \in DOMAIN t, NEW j \in DOMAIN t, i < j
                   PROVE  Before(t[i], t[j])
        OBVIOUS
      <3>1. i + 1 \in DOMAIN box /\ j + 1 \in DOMAIN box /\ i + 1 < j + 1
        BY <1>1, <1>2
      <3> QED BY <1>2, <3>1 DEF Events
    <2>2. \A i \in DOMAIN t, k \in DOMAIN out : Before(t[i], out[k])
      BY <1>2 DEF Events
    <2> QED BY <1>2, <1>4, <2>1, <2>2 DEF Events
  <1>7. /\ z \in CockpitSnapshot
        /\ z.status = s.status \/ (e.type = "run.status" /\ z.status = e.status)
        /\ \A p \in Steps : \/ z.results[p] = s.results[p]
                            \/ /\ e.type = "step.finished" /\ p = e.step
                               /\ z.results[p] = e.status
        /\ z.logs = IF e.type = "log" THEN appendLog(s, e).logs ELSE s.logs
    BY <1>3, ApplyChanges DEF Tells
  <1>8. /\ s.logs \in Seq(Nat) /\ Len(s.logs) \in Nat /\ DOMAIN s.logs = 1 .. Len(s.logs)
    BY <1>3 DEF CockpitSnapshot
  <1>9. \/ z.logs = s.logs /\ (e.type = "log" => \E i \in DOMAIN s.logs : s.logs[i] = e.seq)
        \/ /\ e.type = "log" /\ z.logs = Append(s.logs, e.seq)
           /\ \A i \in DOMAIN s.logs : s.logs[i] < e.seq
           /\ e.seq \in 1 .. n
    BY <1>3, <1>7 DEF appendLog, Place, Tells, CockpitSnapshot
  <1> HIDE DEF z
  <1>10. ASSUME z.logs = Append(s.logs, e.seq), e.seq \in 1 .. n
         PROVE  /\ DOMAIN z.logs = 1 .. Len(s.logs) + 1
                /\ z.logs[Len(s.logs) + 1] = e.seq
                /\ \A i \in 1 .. Len(s.logs) : z.logs[i] = s.logs[i]
    BY <1>8, <1>10
  <1>11. Fair(z, y, n)
    <2>1. z.status \in Terminal => y.status \in Terminal
      BY <1>3, <1>7 DEF Fair, Tells
    <2>2. \A p \in Steps : z.results[p] \in {None, y.results[p]}
      BY <1>3, <1>7 DEF Fair, Tells
    <2>3. /\ \A i \in DOMAIN z.logs : z.logs[i] \in 1 .. n
          /\ \A i, j \in DOMAIN z.logs : i < j => z.logs[i] < z.logs[j]
      <3>1. CASE z.logs = s.logs
        BY <3>1 DEF Fair
      <3>2. CASE z.logs # s.logs
        <4>1. /\ e.seq \in 1 .. n /\ \A i \in DOMAIN s.logs : s.logs[i] < e.seq
              /\ z.logs = Append(s.logs, e.seq)
          BY <1>9, <3>2
        <4>2. /\ DOMAIN z.logs = 1 .. Len(s.logs) + 1
              /\ z.logs[Len(s.logs) + 1] = e.seq
              /\ \A i \in 1 .. Len(s.logs) : z.logs[i] = s.logs[i]
          BY <1>10, <4>1
        <4>3. /\ \A i \in 1 .. Len(s.logs) : s.logs[i] \in 1 .. n
              /\ \A i, j \in 1 .. Len(s.logs) : i < j => s.logs[i] < s.logs[j]
          BY <1>8 DEF Fair
        <4>4. ASSUME NEW i \in DOMAIN z.logs
              PROVE  z.logs[i] \in 1 .. n
          BY <1>8, <4>1, <4>2, <4>3, <4>4
        <4>5. ASSUME NEW i \in DOMAIN z.logs, NEW j \in DOMAIN z.logs, i < j
              PROVE  z.logs[i] < z.logs[j]
          <5>1. i \in 1 .. Len(s.logs) /\ (j \in 1 .. Len(s.logs) \/ j = Len(s.logs) + 1)
            BY <1>8, <4>2, <4>5
          <5> QED BY <1>8, <4>1, <4>2, <4>3, <4>5, <5>1
        <4> QED BY <4>4, <4>5
      <3> QED BY <3>1, <3>2
    <2> QED BY <1>7, <2>1, <2>2, <2>3 DEF Fair
  <1>12. ASSUME NEW f, Before(e, f), Tells(f, y, n), Place(s, f)
         PROVE  Place(z, f)
    <2> SUFFICES ASSUME f.type = "log"
                 PROVE  \/ \E i \in DOMAIN z.logs : z.logs[i] = f.seq
                        \/ \A i \in DOMAIN z.logs : z.logs[i] < f.seq
      BY DEF Place
    <2>1. CASE z.logs = s.logs
      BY <1>12, <2>1 DEF Place
    <2>2. CASE z.logs # s.logs
      <3>1. e.seq < f.seq
        BY <1>9, <1>12, <2>2 DEF Before
      <3>2. CASE \E i \in DOMAIN s.logs : s.logs[i] = f.seq
        BY <1>8, <1>9, <1>10, <2>2, <3>2
      <3>3. CASE \A i \in DOMAIN s.logs : s.logs[i] < f.seq
        <4>1. /\ e.seq \in 1 .. n /\ \A i \in DOMAIN s.logs : s.logs[i] < e.seq
              /\ z.logs = Append(s.logs, e.seq)
          BY <1>9, <2>2
        <4>2. /\ DOMAIN z.logs = 1 .. Len(s.logs) + 1
              /\ z.logs[Len(s.logs) + 1] = e.seq
              /\ \A i \in 1 .. Len(s.logs) : z.logs[i] = s.logs[i]
          BY <1>10, <4>1
        <4>3. ASSUME NEW i \in DOMAIN z.logs
              PROVE  z.logs[i] < f.seq
          <5>1. i \in DOMAIN s.logs \/ i = Len(s.logs) + 1
            BY <1>8, <4>2
          <5>2. CASE i \in DOMAIN s.logs
            BY <1>8, <3>3, <4>2, <5>2
          <5>3. CASE i = Len(s.logs) + 1
            BY <3>1, <4>2, <5>3
          <5> QED BY <5>1, <5>2, <5>3
        <4> QED BY <4>3
      <3> QED BY <1>12, <3>2, <3>3 DEF Place
    <2> QED BY <2>1, <2>2
  <1>13. Placed(z, t, out)
    BY <1>4, <1>5, <1>12 DEF Placed
  <1> QED BY <1>6, <1>11, <1>13 DEF e, z, t

-----------------------------------------------------------------------------
(* The Worker.                                                             *)

\* A step of the Worker that has one event to publish.
LEMMA WorkerSays ==
    ASSUME Inv, exec.out = <<>>, Later(x, x'), lines' \in Nat, lines <= lines',
           NEW e \in Exec, NEW f, Tells(f, x', lines'), f.type = "log" => lines < f.seq,
           Moves(e, <<f>>), Stands(e, x')
    PROVE  Inv'
  <1>1. <<f>> \in Seq(RunEvent) /\ Len(<<f>>) <= 1
    BY DEF Tells
  <1>2. \A k \in DOMAIN <<f>> : /\ Tells(<<f>>[k], x', lines')
                                /\ <<f>>[k].type = "log" => lines < <<f>>[k].seq
    OBVIOUS
  <1> QED BY <1>1, <1>2, WorkerKeeps

\* A step of the Worker that publishes nothing.
LEMMA WorkerSilent ==
    ASSUME Inv, exec.out = <<>>, Later(x, x'), UNCHANGED lines,
           NEW e \in Exec, Moves(e, <<>>), Stands(e, x')
    PROVE  Inv'
  <1>1. <<>> \in Seq(RunEvent) /\ Len(<<>>) <= 1 /\ DOMAIN <<>> = {}
    OBVIOUS
  <1>2. lines' \in Nat /\ lines <= lines'
    BY DEF Inv, TypeOK
  <1> QED BY <1>1, <1>2, WorkerKeeps

LEMMA ClaimSafe == Inv /\ Claim => Inv'
  <1> SUFFICES ASSUME Inv, Claim
               PROVE  Inv'
    OBVIOUS
  <1> DEFINE e == [exec EXCEPT !.pc = "head", !.phase = "automation"]
  <1>1. PICK w \in Workers : x' = claim(x, w)
    BY DEF Claim
  <1>2. x \in Row /\ exec \in Exec /\ x.status = "queued"
    BY DEF Inv, TypeOK, Claim, Claimable
  <1>3. x' \in Row /\ x'.status = "running" /\ x'.results = x.results
    BY <1>1, <1>2, ClaimKeeps
  <1>4. Later(x, x')
    BY <1>2, <1>3 DEF Later
  <1>5. e \in Exec
    BY <1>2 DEF Exec, Phase
  <1>6. Stands(e, x')
    BY <1>2, <1>3 DEF Stands, Exec
  <1>7. exec.out = <<>> /\ Moves(e, <<>>) /\ UNCHANGED lines
    BY DEF Claim, At
  <1> HIDE DEF e
  <1> QED BY <1>4, <1>5, <1>6, <1>7, WorkerSilent

\* Steps of the Worker that write nothing to the row.
LEMMA TellsSafe ==
    /\ Inv /\ (StartStep \/ LogStep \/ Challenge \/ SeeCancel \/ SeeHolder \/ SeeHandBack) => Inv'
    /\ \A met \in BOOLEAN : Inv /\ SeeCheck(met) => Inv'
  <1> SUFFICES ASSUME Inv, NEW met \in BOOLEAN,
                      StartStep \/ LogStep \/ Challenge \/ SeeCancel \/ SeeHolder
                        \/ SeeHandBack \/ SeeCheck(met)
               PROVE  Inv'
    OBVIOUS
  <1>1. /\ x \in Row /\ exec \in Exec /\ lines \in Nat /\ Stands(exec, x)
        /\ x.status \in RunStatus /\ x.auto \in BOOLEAN
    BY DEF Inv, TypeOK, Stands, Row
  <1>2. Later(x, x)
    BY <1>1, SameLater
  <1>3. exec.pos < NSteps => exec.pos \in Steps
    BY <1>1 DEF Exec, Steps
  <1>4. CASE StartStep
    <2> DEFINE e == [exec EXCEPT !.pc = "log"]
               f == [type |-> "step.started", step |-> exec.pos]
    <2>1. e \in Exec
      BY <1>1 DEF Exec
    <2>2. Stands(e, x)
      BY <1>1, <1>4 DEF Stands, StartStep, At, Exec
    <2>3. Tells(f, x, lines) /\ f.type # "log"
      BY <1>3, <1>4 DEF StartStep, Tells, RunEvent
    <2>4. exec.out = <<>> /\ Moves(e, <<f>>) /\ UNCHANGED <<x, lines>>
      BY <1>4 DEF StartStep, At
    <2> HIDE DEF e, f
    <2> QED BY <1>1, <1>2, <2>1, <2>2, <2>3, <2>4, WorkerSays
  <1>5. CASE LogStep
    <2> DEFINE e == [exec EXCEPT !.pc = "act"]
               f == [type |-> "log", seq |-> lines + 1]
    <2>1. e \in Exec
      BY <1>1 DEF Exec
    <2>2. Stands(e, x)
      BY <1>1, <1>5 DEF Stands, LogStep, At, Exec
    <2>3. Tells(f, x, lines + 1) /\ lines < f.seq
      BY <1>1 DEF Tells, RunEvent
    <2>4. exec.out = <<>> /\ Moves(e, <<f>>) /\ UNCHANGED x /\ lines' = lines + 1
      BY <1>5 DEF LogStep, At
    <2> HIDE DEF e, f
    <2>5. lines' \in Nat /\ lines <= lines'
      BY <1>1, <2>4
    <2> QED BY <1>2, <2>1, <2>2, <2>3, <2>4, <2>5, WorkerSays
  <1>6. CASE Challenge
    <2> DEFINE e == [exec EXCEPT !.told = TRUE]
               f == [type |-> "diagnostic", step |-> exec.pos]
    <2>1. e \in Exec
      BY <1>1 DEF Exec
    <2>2. Stands(e, x)
      BY <1>1, <1>6 DEF Stands, Exec
    <2>3. Tells(f, x, lines) /\ f.type # "log"
      BY <1>6 DEF Challenge, Tells, RunEvent
    <2>4. exec.out = <<>> /\ Moves(e, <<f>>) /\ UNCHANGED <<x, lines>>
      BY <1>6 DEF Challenge, At
    <2> HIDE DEF e, f
    <2> QED BY <1>1, <1>2, <2>1, <2>2, <2>3, <2>4, WorkerSays
  <1>7. CASE SeeCancel
    <2> DEFINE e == [exec EXCEPT !.pc = "skip", !.status = "cancelled"]
    <2>1. e \in Exec
      BY <1>1 DEF Exec
    <2>2. Stands(e, x)
      BY <1>1, <1>7 DEF Stands, SeeCancel, Checks, At, Exec
    <2>3. exec.out = <<>> /\ Moves(e, <<>>) /\ UNCHANGED <<x, lines>>
      BY <1>7 DEF SeeCancel, Checks, At
    <2> HIDE DEF e
    <2> QED BY <1>2, <2>1, <2>2, <2>3, WorkerSilent
  <1>8. CASE SeeHolder
    <2> DEFINE e == [exec EXCEPT !.phase = "human", !.met = None]
               f == [type |-> "control", phase |-> "human"]
    <2>1. e \in Exec
      BY <1>1 DEF Exec, Phase
    <2>2. Stands(e, x)
      BY <1>1, <1>8 DEF Stands, Exec
    <2>3. Tells(f, x, lines) /\ f.type # "log"
      BY DEF Tells, RunEvent, Phase
    <2>4. exec.out = <<>> /\ Moves(e, <<f>>) /\ UNCHANGED <<x, lines>>
      BY <1>8 DEF SeeHolder, At, Control
    <2> HIDE DEF e, f
    <2> QED BY <1>1, <1>2, <2>1, <2>2, <2>3, <2>4, WorkerSays
  <1>9. CASE SeeHandBack
    <2> DEFINE e == [exec EXCEPT !.pc = "verify", !.phase = "verifying"]
               f == [type |-> "control", phase |-> "verifying"]
    <2>1. e \in Exec
      BY <1>1 DEF Exec, Phase
    <2>2. Stands(e, x)
      BY <1>1, <1>9 DEF Stands, SeeHandBack, At, Exec
    <2>3. Tells(f, x, lines) /\ f.type # "log"
      BY DEF Tells, RunEvent, Phase
    <2>4. exec.out = <<>> /\ Moves(e, <<f>>) /\ UNCHANGED <<x, lines>>
      BY <1>9 DEF SeeHandBack, At, Control
    <2> HIDE DEF e, f
    <2> QED BY <1>1, <1>2, <2>1, <2>2, <2>3, <2>4, WorkerSays
  <1>10. CASE SeeCheck(met)
    <2> DEFINE g == met /\ exec.phase = "human" /\ x.auto
               e == [exec EXCEPT !.met = met]
               f == [type |-> "predicate", met |-> met, grace |-> g]
    <2>1. e \in Exec
      BY <1>1 DEF Exec
    <2>2. Stands(e, x)
      BY <1>1, <1>10 DEF Stands, Exec
    <2>3. exec.out = <<>> /\ Moves(e, <<f>>) /\ UNCHANGED <<x, lines>>
      BY <1>10 DEF SeeCheck, At
    <2>4. g \in BOOLEAN
      OBVIOUS
    <2> HIDE DEF g
    <2>5. Tells(f, x, lines) /\ f.type # "log"
      BY <2>4 DEF Tells, RunEvent
    <2> HIDE DEF e, f
    <2> QED BY <1>1, <1>2, <2>1, <2>2, <2>3, <2>5, WorkerSays
  <1> QED BY <1>4, <1>5, <1>6, <1>7, <1>8, <1>9, <1>10

(* park, resume and release_holder on a row where execute may stand.       *)
LEMMA ParkingLater ==
    ASSUME NEW y \in Row, y.status \in RunStatus, NEW z \in {park(y), resume(y), release_holder(y)}
    PROVE  /\ Later(y, z)
           /\ y.status \in Terminal => z.status = y.status
  <1>1. /\ z \in Row /\ z.results = y.results
        /\ z.status = y.status \/ {y.status, z.status} = Live
    BY ParkingKeeps
  <1>2. CASE z.status = y.status
    BY <1>1, <1>2 DEF Later
  <1>3. CASE {y.status, z.status} = Live
    <2>1. y.status \in Live /\ z.status \in Live
      BY <1>3
    <2> QED BY <1>1, <2>1 DEF Later
  <1> QED BY <1>1, <1>2, <1>3

\* park_for_human: a pause, or a takeover Step.
LEMMA ParkSafe == Inv /\ (Park \/ Unmet \/ Resume) => Inv'
  <1> SUFFICES ASSUME Inv, Park \/ Unmet \/ Resume
               PROVE  Inv'
    OBVIOUS
  <1>1. /\ x \in Row /\ exec \in Exec /\ lines \in Nat /\ Stands(exec, x)
        /\ x.status \in RunStatus
    BY DEF Inv, TypeOK, Stands
  <1>2. CASE Park
    <2> DEFINE why == IF Checks /\ x.pause THEN "pause" ELSE "takeover"
               e == [exec EXCEPT !.pc = "parked", !.phase = "waiting", !.met = None, !.stop = why]
               f == [type |-> "control", phase |-> "waiting"]
    <2>0. why \in {"pause", "takeover"}
      OBVIOUS
    <2>1. exec.out = <<>> /\ Moves(e, <<f>>) /\ x' = park(x) /\ UNCHANGED lines
      BY <1>2 DEF Park, At, Control
    <2> HIDE DEF why
    <2>2. e \in Exec
      BY <1>1, <2>0 DEF Exec, Phase
    <2>3. Later(x, x') /\ (x.status \in Terminal => x'.status = x.status)
      BY <1>1, <2>1, ParkingLater
    <2>4. x.status = "running" => x'.status = "waiting_for_human"
      BY <1>1, <2>1 DEF park, Row
    <2>5. Stands(e, x')
      BY <1>1, <1>2, <2>3, <2>4 DEF Stands, Park, At, Exec
    <2>6. Tells(f, x', lines') /\ f.type # "log"
      BY DEF Tells, RunEvent, Phase
    <2> HIDE DEF e, f
    <2> QED BY <1>1, <2>1, <2>2, <2>3, <2>5, <2>6, WorkerSays
  <1>3. CASE Unmet
    <2> DEFINE e == [exec EXCEPT !.pc = "parked", !.phase = "waiting", !.met = FALSE]
               f == [type |-> "control", phase |-> "waiting"]
    <2>1. exec.out = <<>> /\ Moves(e, <<f>>) /\ x' = release_holder(x) /\ UNCHANGED lines
      BY <1>3 DEF Unmet, At, Control
    <2>2. e \in Exec
      BY <1>1 DEF Exec, Phase
    <2>3. Later(x, x')
      BY <1>1, <2>1, ParkingLater
    <2>4. x'.status = x.status
      BY <1>1, <2>1 DEF release_holder, Row
    <2>5. Stands(e, x')
      BY <1>1, <1>3, <2>4 DEF Stands, Unmet, At, Exec
    <2>6. Tells(f, x', lines') /\ f.type # "log"
      BY DEF Tells, RunEvent, Phase
    <2> HIDE DEF e, f
    <2> QED BY <1>1, <2>1, <2>2, <2>3, <2>5, <2>6, WorkerSays
  <1>4. CASE Resume
    <2> DEFINE why == IF HasCheck THEN "verified" ELSE exec.stop
               e == [exec EXCEPT !.pc = "head", !.stop = why,
                                 !.phase = "automation", !.met = None]
               f == [type |-> "control", phase |-> "automation"]
    <2>0. why \in {"pause", "takeover", "verified", None}
      BY <1>1 DEF Exec
    <2>1. exec.out = <<>> /\ Moves(e, <<f>>) /\ x' = resume(x) /\ UNCHANGED lines
      BY <1>4 DEF Resume, At, Control
    <2> HIDE DEF why
    <2>2. e \in Exec
      BY <1>1, <2>0 DEF Exec, Phase
    <2>3. Later(x, x') /\ (x.status \in Terminal => x'.status = x.status)
      BY <1>1, <2>1, ParkingLater
    <2>4. x.status = "waiting_for_human" => x'.status = "running"
      BY <1>1, <2>1 DEF resume, Row
    <2>5. Stands(e, x')
      BY <1>1, <1>4, <2>3, <2>4 DEF Stands, Resume, At, Exec
    <2>6. Tells(f, x', lines') /\ f.type # "log"
      BY DEF Tells, RunEvent, Phase
    <2> HIDE DEF e, f
    <2> QED BY <1>1, <2>1, <2>2, <2>3, <2>5, <2>6, WorkerSays
  <1> QED BY <1>2, <1>3, <1>4

\* A Step Result is written where none is, and then told of.
LEMMA InsertLater ==
    ASSUME NEW y \in Row, NEW p \in Steps, NEW status \in StepResultStatus, CanInsert(y, p)
    PROVE  LET z == add_result(y, p, status) IN
           Later(y, z) /\ z.status = y.status /\ z.results[p] = status
  <1> DEFINE z == add_result(y, p, status)
  <1> SUFFICES Later(y, z) /\ z.status = y.status /\ z.results[p] = status
    OBVIOUS
  <1>1. /\ z \in Row /\ z.status = y.status
        /\ z.results = [y.results EXCEPT ![p] = status]
    BY InsertKeeps
  <1>2. y.results \in Results /\ y.status \in RunStatus /\ y.results[p] = None
    BY DEF Row, CanInsert
  <1> HIDE DEF z
  <1> QED BY <1>1, <1>2 DEF Later, Results

LEMMA EndStepSafe ==
    ASSUME Inv, NEW status \in {"passed", "failed"}, EndStep(status)
    PROVE  Inv'
  <1>1. /\ x \in Row /\ exec \in Exec /\ lines \in Nat /\ Stands(exec, x)
        /\ x.status \in RunStatus /\ exec.out = <<>> /\ exec.pc = "act" /\ UNCHANGED lines
    BY DEF Inv, TypeOK, Stands, EndStep, At
  <1>2. exec.pos \in Steps
    BY <1>1 DEF Stands, Exec, Steps
  <1>3. CASE CanInsert(x, exec.pos)
    <2> DEFINE pc == IF status = "failed" THEN "skip" ELSE "head"
               verdict == IF status = "failed" THEN "failed" ELSE exec.status
               e == [exec EXCEPT !.pc = pc, !.pos = exec.pos + 1, !.told = FALSE,
                                 !.stop = None, !.status = verdict]
               f == [type |-> "step.finished", step |-> exec.pos, status |-> status]
    <2>1. Moves(e, <<f>>) /\ x' = add_result(x, exec.pos, status)
      BY <1>3 DEF EndStep
    <2>2. pc \in {"skip", "head"} /\ verdict \in Terminal
      BY <1>1 DEF Exec
    <2> HIDE DEF pc, verdict
    <2>3. e \in Exec
      <3>1. exec.pos + 1 \in Nat /\ pc \in {"idle", "head", "log", "act", "parked",
                                            "verify", "skip", "finish", "gone"}
        BY <1>1, <2>2 DEF Exec
      <3> QED BY <1>1, <2>2, <3>1 DEF Exec
    <2>4. Later(x, x') /\ x'.status = x.status /\ x'.results[exec.pos] = status
      BY <1>1, <1>2, <1>3, <2>1, InsertLater DEF StepResultStatus
    <2>5. Stands(e, x')
      BY <1>1, <2>2, <2>4 DEF Stands, Exec
    <2>6. Tells(f, x', lines') /\ f.type # "log"
      BY <1>2, <2>4 DEF Tells, RunEvent, StepResultStatus
    <2> HIDE DEF e, f
    <2> QED BY <1>1, <2>1, <2>3, <2>4, <2>5, <2>6, WorkerSays
  <1>4. CASE ~CanInsert(x, exec.pos)
    <2> DEFINE e == [exec EXCEPT !.pc = "gone"]
    <2>1. Moves(e, <<>>) /\ UNCHANGED x
      BY <1>4 DEF EndStep
    <2>2. e \in Exec
      BY <1>1 DEF Exec
    <2>3. Later(x, x)
      BY <1>1, SameLater
    <2>4. Stands(e, x)
      BY <1>1 DEF Stands, Exec
    <2> HIDE DEF e
    <2> QED BY <1>1, <2>1, <2>2, <2>3, <2>4, WorkerSilent
  <1> QED BY <1>3, <1>4

LEMMA SkipStepSafe == Inv /\ SkipStep => Inv'
  <1> SUFFICES ASSUME Inv, SkipStep
               PROVE  Inv'
    OBVIOUS
  <1>1. /\ x \in Row /\ exec \in Exec /\ lines \in Nat /\ Stands(exec, x)
        /\ x.status \in RunStatus /\ exec.out = <<>> /\ exec.pc = "skip" /\ UNCHANGED lines
    BY DEF Inv, TypeOK, Stands, SkipStep, At
  <1>2. Later(x, x)
    BY <1>1, SameLater
  <1>3. CASE exec.pos >= NSteps
    <2> DEFINE e == [exec EXCEPT !.pc = "finish"]
    <2>1. Moves(e, <<>>) /\ UNCHANGED x
      BY <1>1, <1>3 DEF SkipStep, Exec
    <2>2. e \in Exec
      BY <1>1 DEF Exec
    <2>3. Stands(e, x)
      BY <1>1 DEF Stands, Exec
    <2> HIDE DEF e
    <2> QED BY <1>1, <1>2, <2>1, <2>2, <2>3, WorkerSilent
  <1>4. CASE exec.pos < NSteps /\ CanInsert(x, exec.pos)
    <2> DEFINE e == [exec EXCEPT !.pos = exec.pos + 1]
               f == [type |-> "step.finished", step |-> exec.pos, status |-> "skipped"]
    <2>1. Moves(e, <<f>>) /\ x' = add_result(x, exec.pos, "skipped")
      BY <1>1, <1>4 DEF SkipStep, Exec
    <2>2. e \in Exec
      BY <1>1 DEF Exec
    <2>3. exec.pos \in Steps
      BY <1>1, <1>4 DEF Exec, Steps
    <2>4. Later(x, x') /\ x'.status = x.status /\ x'.results[exec.pos] = "skipped"
      BY <1>1, <1>4, <2>1, <2>3, InsertLater DEF StepResultStatus
    <2>5. Stands(e, x')
      BY <1>1, <2>4 DEF Stands, Exec
    <2>6. Tells(f, x', lines') /\ f.type # "log"
      BY <2>3, <2>4 DEF Tells, RunEvent, StepResultStatus
    <2> HIDE DEF e, f
    <2> QED BY <1>1, <2>1, <2>2, <2>4, <2>5, <2>6, WorkerSays
  <1>5. CASE exec.pos < NSteps /\ ~CanInsert(x, exec.pos)
    <2> DEFINE e == [exec EXCEPT !.pc = "gone"]
    <2>1. Moves(e, <<>>) /\ UNCHANGED x
      BY <1>1, <1>5 DEF SkipStep, Exec
    <2>2. e \in Exec
      BY <1>1 DEF Exec
    <2>3. Stands(e, x)
      BY <1>1 DEF Stands, Exec
    <2> HIDE DEF e
    <2> QED BY <1>1, <1>2, <2>1, <2>2, <2>3, WorkerSilent
  <1>6. exec.pos \in Nat
    BY <1>1 DEF Exec
  <1> QED BY <1>3, <1>4, <1>5, <1>6

(* The event of finish_run is true also when the UPDATE matched nothing:   *)
(* the Run was closed then.                                                *)
LEMMA FinishRunSafe == Inv /\ FinishRun => Inv'
  <1> SUFFICES ASSUME Inv, FinishRun
               PROVE  Inv'
    OBVIOUS
  <1> DEFINE reason == IF exec.status = "failed" THEN "step_failed" ELSE None
             e == [exec EXCEPT !.pc = "gone"]
             f == [type |-> "run.status", status |-> exec.status]
  <1>1. /\ x \in Row /\ exec \in Exec /\ lines \in Nat /\ Stands(exec, x)
        /\ exec.out = <<>> /\ exec.pc \in {"finish", "head"} /\ UNCHANGED lines
        /\ Moves(e, <<f>>) /\ x' = finish_run(x, exec.status, reason)
    BY DEF Inv, TypeOK, FinishRun, At
  <1>2. reason \in FailureReason \cup {None} /\ exec.status \in Terminal
    BY <1>1 DEF FailureReason, Exec
  <1> HIDE DEF reason
  <1>3. x' \in Row /\ x'.status = (IF x.status = "running" THEN exec.status ELSE x.status)
        /\ Grows(x, x')
    BY <1>1, <1>2, FinishKeeps
  <1>4. x.status \in {"running"} \cup Terminal
    BY <1>1 DEF Stands
  <1>5. x'.status \in Terminal
    BY <1>2, <1>3, <1>4
  <1>6. Later(x, x')
    BY <1>3, <1>4, <1>5 DEF Later, Grows
  <1>7. e \in Exec
    BY <1>1 DEF Exec
  <1>8. Stands(e, x')
    BY <1>1, <1>5 DEF Stands, Exec
  <1>9. Tells(f, x', lines') /\ f.type # "log"
    BY <1>2, <1>5 DEF Tells, RunEvent
  <1> HIDE DEF e, f
  <1> QED BY <1>1, <1>6, <1>7, <1>8, <1>9, WorkerSays

-----------------------------------------------------------------------------
(* The others who write the row, and the pane.                             *)

\* What is left of a budget is one.
LEMMA BudgetLeft ==
    ASSUME left \in Budget, \/ \E op \in Op : Ask(op)
                            \/ \E k \in Kind : Trouble(k)
    PROVE  left' \in Budget
  BY DEF Budget, Ask, Trouble

LEMMA DeathSafe == Inv /\ (LetGo \/ Die \/ Tick) => Inv'
  <1> SUFFICES ASSUME Inv, LetGo \/ Die \/ Tick
               PROVE  Inv'
    OBVIOUS
  <1>1. /\ x \in Row /\ x.status \in RunStatus /\ left \in Budget /\ pane \in Pane
        /\ page \in Page /\ lock \in {None, "me", "other"}
    BY DEF Inv, TypeOK, Stands
  <1>2. Later(x, x)
    BY <1>1, SameLater
  <1>3. Later(x, x') /\ (x'.status = x.status \/ x'.status \in Terminal)
    <2>1. CASE LetGo
      BY <1>2, <2>1 DEF LetGo
    <2>2. CASE Die
      <3>1. x' = [x EXCEPT !.quiet = TRUE]
        BY <2>2 DEF Die
      <3> QED BY <1>1, <3>1 DEF Later, Row
    <2>3. CASE Tick
      BY <1>1, <2>3, ReapLater DEF Tick
    <2> QED BY <2>1, <2>2, <2>3
  <1>4. exec' \in {exec, [exec EXCEPT !.pc = "gone", !.out = <<>>]}
    BY DEF LetGo, Die, Tick, worker
  <1>5. UNCHANGED <<lines, lock, page, stream, inbox, load, pane>>
    BY DEF LetGo, Die, Tick, worker, tab
  <1>6. left' \in Budget
    BY <1>1, BudgetLeft DEF LetGo, Die, Tick, Kind
  <1> QED BY <1>1, <1>3, <1>4, <1>5, <1>6, OthersKeep

LEMMA ElsewhereSafe ==
    ASSUME Inv, NEW s \in Sessions, NEW op \in Op, Elsewhere(s, op)
    PROVE  Inv'
  <1>1. /\ x \in Row /\ x.status \in RunStatus /\ left \in Budget /\ pane \in Pane
        /\ page \in Page /\ lock \in {None, "me", "other"}
    BY DEF Inv, TypeOK, Stands
  <1>2. Later(x, x') /\ (x'.status = x.status \/ x'.status \in Terminal)
    BY <1>1, WriteLater DEF Elsewhere
  <1>3. /\ exec' = exec /\ UNCHANGED <<lines, page, stream, inbox, load, pane>>
        /\ lock' \in {None, "me", "other"}
    BY <1>1 DEF Elsewhere, worker, tab
  <1>4. left' \in Budget
    BY <1>1, BudgetLeft DEF Elsewhere
  <1> QED BY <1>1, <1>2, <1>3, <1>4, OthersKeep

LEMMA ServeSafe == Inv /\ Serve => Inv'
  <1> SUFFICES ASSUME Inv, Serve
               PROVE  Inv'
    OBVIOUS
  <1>1. /\ x \in Row /\ x.status \in RunStatus /\ left \in Budget /\ pane \in Pane
        /\ page \in Page /\ lock \in {None, "me", "other"} /\ Me \in Sessions
    BY DEF Inv, TypeOK, Stands
  <1>2. page.ask # None /\ page.ask \in [op : Op, answer : {"ok", "held", "refused", None}]
    BY <1>1 DEF Serve, Page
  <1>3. x' = x \/ x' = Write(page.ask.op, x, x, Me)
    BY DEF Serve
  <1>4. Later(x, x') /\ (x'.status = x.status \/ x'.status \in Terminal)
    BY <1>1, <1>2, <1>3, SameLater, WriteLater
  <1>5. \E a \in {"ok", "held", "refused"} : page' = [page EXCEPT !.ask.answer = a]
    BY DEF Serve
  <1>6. /\ page' \in Page /\ page'.shot = page.shot /\ page'.cached = page.cached
        /\ page'.open = page.open
    BY <1>1, <1>2, <1>5 DEF Page
  <1>7. exec' = exec /\ UNCHANGED <<lines, lock, stream, inbox, load, pane>>
    BY DEF Serve, worker
  <1>8. left' \in Budget
    BY <1>1, BudgetLeft DEF Serve, Kind
  <1> QED BY <1>1, <1>2, <1>4, <1>6, <1>7, <1>8, OthersKeep

LEMMA PaneSafe == Inv /\ (Mint \/ admit \/ Watch) => Inv'
  <1> SUFFICES ASSUME Inv, Mint \/ admit \/ Watch
               PROVE  Inv'
    OBVIOUS
  <1>1. /\ x \in Row /\ x.status \in RunStatus /\ left \in Budget /\ pane \in Pane
        /\ page \in Page /\ lock \in {None, "me", "other"} /\ Me \in Sessions
    BY DEF Inv, TypeOK, Stands
  <1>2. Later(x, x') /\ (x'.status = x.status \/ x'.status \in Terminal)
    <2>1. x' = x \/ x' = Write("take", x, x, Me)
      BY DEF Mint, admit, Watch
    <2>2. "take" \in Op
      BY DEF Op
    <2> QED BY <1>1, <2>1, <2>2, SameLater, WriteLater
  <1>3. pane' \in Pane
    <2>1. MayControl \in BOOLEAN
      BY DEF MayControl
    <2>2. CASE Mint
      BY <1>1, <2>2 DEF Mint, Pane
    <2>3. CASE admit
      BY <1>1, <2>1, <2>3 DEF admit, Pane
    <2>4. CASE Watch
      BY <1>1, <2>4 DEF Watch, Pane
    <2> QED BY <2>2, <2>3, <2>4
  <1>4. exec' = exec /\ UNCHANGED <<lines, lock, page, stream, inbox, load>>
    BY DEF Mint, admit, Watch, worker
  <1>5. left' \in Budget
    BY <1>1, BudgetLeft DEF Mint, admit, Watch, Kind
  <1> QED BY <1>1, <1>2, <1>3, <1>4, <1>5, OthersKeep

-----------------------------------------------------------------------------
(* The event stream.                                                       *)

LEMMA PublishSafe == Inv /\ Publish => Inv'
  <1> SUFFICES ASSUME Inv, Publish
               PROVE  Inv'
    OBVIOUS
  <1> DEFINE e == Head(exec.out)
  <1>1. /\ exec \in Exec /\ Events(inbox, exec.out, x, lines) /\ exec.out # <<>>
        /\ UNCHANGED <<x, lines, lock, page, stream, load, pane, left>>
        /\ exec' = [exec EXCEPT !.out = Tail(@)]
        /\ inbox' = IF stream = "open" THEN Append(inbox, e) ELSE inbox
    BY DEF Inv, TypeOK, Publish
  <1>2. /\ exec.out \in Seq(RunEvent) /\ Len(exec.out) = 1 /\ 1 \in DOMAIN exec.out
        /\ e = exec.out[1] /\ Tail(exec.out) = <<>> /\ e \in RunEvent
    <2>1. exec.out \in Seq(RunEvent) /\ Len(exec.out) <= 1 /\ exec.out # <<>>
      BY <1>1 DEF Events
    <2>2. Len(exec.out) \in Nat /\ Len(exec.out) # 0
      BY <2>1, EmptySeq
    <2>3. Len(exec.out) = 1 /\ 1 \in DOMAIN exec.out
      <3> DEFINE n == Len(exec.out)
      <3>1. n \in Nat /\ n # 0 /\ n <= 1 /\ DOMAIN exec.out = 1 .. n
        BY <2>1, <2>2, LenProperties
      <3> HIDE DEF n
      <3>2. n = 1 /\ 1 \in DOMAIN exec.out
        BY <3>1
      <3> QED BY <3>2 DEF n
    <2>4. e = exec.out[1] /\ e \in RunEvent
      BY <2>1, <2>3
    <2>5. Tail(exec.out) \in Seq(RunEvent) /\ Len(Tail(exec.out)) = 0
      BY <2>1, <2>3
    <2>6. Tail(exec.out) = <<>>
      BY <2>5, EmptySeq
    <2> QED BY <2>1, <2>3, <2>4, <2>6
  <1> HIDE DEF e
  <1>3. exec' \in Exec /\ exec'.out = <<>> /\ exec' = [exec EXCEPT !.out = <<>>]
    <2>1. <<>> \in Seq(RunEvent)
      OBVIOUS
    <2> QED BY <1>1, <1>2, <2>1 DEF Exec
  <1>4. /\ inbox \in Seq(RunEvent) /\ Len(inbox) \in Nat /\ DOMAIN inbox = 1 .. Len(inbox)
        /\ \A i \in DOMAIN inbox : Tells(inbox[i], x, lines) /\ Before(inbox[i], e)
        /\ \A i, j \in DOMAIN inbox : i < j => Before(inbox[i], inbox[j])
        /\ Tells(e, x, lines)
    BY <1>1, <1>2 DEF Events
  <1>5. Events(inbox, <<>>, x, lines)
    <2>1. <<>> \in Seq(RunEvent) /\ DOMAIN <<>> = {} /\ Len(<<>>) = 0
      OBVIOUS
    <2> QED BY <1>4, <2>1 DEF Events
  <1>6. ASSUME NEW i \in DOMAIN Append(inbox, e)
        PROVE  \/ i \in DOMAIN inbox /\ Append(inbox, e)[i] = inbox[i]
               \/ i = Len(inbox) + 1 /\ Append(inbox, e)[i] = e
    BY <1>2, <1>4
  <1>7. Events(Append(inbox, e), <<>>, x, lines)
    <2>1. Append(inbox, e) \in Seq(RunEvent)
      BY <1>2, <1>4
    <2>2. \A i \in DOMAIN Append(inbox, e) : Tells(Append(inbox, e)[i], x, lines)
      BY <1>4, <1>6
    <2>3. ASSUME NEW i \in DOMAIN Append(inbox, e), NEW j \in DOMAIN Append(inbox, e), i < j
          PROVE  Before(Append(inbox, e)[i], Append(inbox, e)[j])
      <3>1. i \in DOMAIN inbox /\ Append(inbox, e)[i] = inbox[i]
        BY <1>4, <1>6, <2>3
      <3> QED BY <1>4, <1>6, <2>3, <3>1
    <2>4. <<>> \in Seq(RunEvent) /\ DOMAIN <<>> = {} /\ Len(<<>>) = 0
      OBVIOUS
    <2> QED BY <2>1, <2>2, <2>3, <2>4 DEF Events
  <1>8. Events(inbox, exec.out, x, lines)'
    BY <1>1, <1>3, <1>5, <1>7
  <1>9. TypeOK'
    BY <1>1, <1>3, <1>8 DEF Inv, TypeOK, Events
  <1>10. Stands(exec, x)'
    BY <1>1, <1>3 DEF Inv, Stands, Exec
  <1>11. Shots(page, load, x, lines)'
    BY <1>1 DEF Inv, Shots
  <1>12. ASSUME page'.shot # None
         PROVE  Placed(page'.shot, inbox', exec'.out)
    <2>1. Placed(page.shot, inbox, exec.out)
      BY <1>1, <1>12 DEF Inv
    <2>2. \A i \in DOMAIN inbox' : Place(page.shot, inbox'[i])
      BY <1>1, <1>2, <1>6, <2>1 DEF Placed
    <2>3. DOMAIN <<>> = {}
      OBVIOUS
    <2> QED BY <1>1, <1>3, <2>2, <2>3 DEF Placed
  <1>13. Heard(page, stream, inbox)'
    BY <1>1 DEF Inv, Heard, Listens
  <1> QED BY <1>8, <1>9, <1>10, <1>11, <1>12, <1>13 DEF Inv

\* listen() goes on: what it forgets is no longer under way.
LEMMA ListenKeeps ==
    ASSUME Inv, UNCHANGED <<x, worker, lock, page, pane>>, left' \in Budget,
           load' \in Load \cup {None}, Shots(page, load', x, lines),
           stream # "off",
           stream' \in {"opening", "open", "broken", "refetching", "sleeping"},
           inbox' = <<>> \/ (inbox' = inbox /\ (stream = "open" => stream' = "open"))
    PROVE  Inv'
  <1>1. UNCHANGED <<x, exec, lines, lock, page, pane>>
    BY DEF worker
  <1>2. <<>> \in Seq(RunEvent) /\ DOMAIN <<>> = {}
    OBVIOUS
  <1>3. Events(inbox, exec.out, x, lines)'
    BY <1>1, <1>2 DEF Inv, Events
  <1>4. TypeOK'
    BY <1>1, <1>3 DEF Inv, TypeOK, Events
  <1>5. Stands(exec, x)' /\ Shots(page, load, x, lines)'
    BY <1>1 DEF Inv, Stands, Shots
  <1>6. page'.shot # None => Placed(page'.shot, inbox', exec'.out)
    BY <1>1, <1>2 DEF Inv, Placed
  <1>7. Heard(page, stream, inbox)'
    BY <1>1 DEF Inv, Heard, Listens
  <1> QED BY <1>3, <1>4, <1>5, <1>6, <1>7 DEF Inv

\* A fetch is started over.
LEMMA RefetchKeeps ==
    ASSUME load \in Load \cup {None}, NEW p, NEW y, NEW n, Shots(p, load, y, n),
           NEW why \in {"mount", "reconnect", "cancel", "pull"}, Refetch(why)
    PROVE  load' \in Load \cup {None} /\ Shots(p, load', y, n)
  <1>1. \E by \in SUBSET {"mount", "reconnect", "cancel", "pull"} : load' = Fetch(by)
    <2>1. CASE load = None
      BY <2>1 DEF Refetch
    <2>2. CASE load # None
      BY <2>2 DEF Refetch, Load
    <2> QED BY <2>1, <2>2
  <1>2. load' \in Load /\ load'.got = None /\ ~load'.done
    BY <1>1 DEF Fetch, Load
  <1> QED BY <1>2 DEF Shots

LEMMA ListeningSafe == Inv /\ (Subscribe \/ Break \/ Reconnect \/ Wake) => Inv'
  <1> SUFFICES ASSUME Inv, Subscribe \/ Break \/ Reconnect \/ Wake
               PROVE  Inv'
    OBVIOUS
  <1>1. left \in Budget /\ load \in Load \cup {None} /\ Shots(page, load, x, lines)
    BY DEF Inv, TypeOK
  <1>2. UNCHANGED <<x, worker, lock, page, pane>>
    BY DEF Subscribe, Break, Reconnect, Wake
  <1>3. left' \in Budget
    BY <1>1, BudgetLeft DEF Subscribe, Break, Reconnect, Wake, Kind
  <1>4. load' \in Load \cup {None} /\ Shots(page, load', x, lines)
    BY <1>1, RefetchKeeps DEF Subscribe, Break, Reconnect, Wake
  <1>5. /\ stream # "off"
        /\ stream' \in {"opening", "open", "broken", "refetching", "sleeping"}
        /\ inbox' = <<>> \/ (inbox' = inbox /\ (stream = "open" => stream' = "open"))
    BY DEF Subscribe, Break, Reconnect, Wake
  <1> QED BY <1>2, <1>3, <1>4, <1>5, ListenKeeps

LEMMA ReceiveSafe == Inv /\ Receive => Inv'
  <1> SUFFICES ASSUME Inv, Receive
               PROVE  Inv'
    OBVIOUS
  <1> DEFINE e == Head(inbox)
             answers == page.pending /\ e.type = "control" /\ e.phase \in {"waiting", "automation"}
             shot == applyRunEvent(page.shot, e)
             box == Tail(inbox)
             pending == page.pending /\ ~answers
             unmet == page.unmet \/ (answers /\ e.phase = "waiting")
             p == [page EXCEPT !.shot = shot, !.pending = pending, !.unmet = unmet]
  <1>1. /\ inbox # <<>> /\ UNCHANGED <<x, worker, lock, left>>
        /\ Renders(p, stream, box)
        /\ Refetch("pull") \/ UNCHANGED load
    BY DEF Receive
  <1>2. /\ x \in Row /\ lines \in Nat /\ page \in Page /\ left \in Budget
        /\ lock \in {None, "me", "other"} /\ load \in Load \cup {None}
        /\ stream = "open" /\ page.shot # None
        /\ Events(inbox, exec.out, x, lines) /\ Placed(page.shot, inbox, exec.out)
        /\ Shots(page, load, x, lines) /\ Fair(page.shot, x, lines)
    BY <1>1 DEF Inv, TypeOK, Heard, Listens, Shots
  <1>3. /\ Fair(shot, x, lines) /\ Events(box, exec.out, x, lines)
        /\ Placed(shot, box, exec.out)
    BY <1>1, <1>2, ApplyKeeps
  <1>4. shot \in CockpitSnapshot /\ shot # None
    BY <1>3 DEF Fair
  <1>5. pending \in BOOLEAN /\ unmet \in BOOLEAN
    <2>1. page.pending \in BOOLEAN /\ page.unmet \in BOOLEAN
      BY <1>2 DEF Page
    <2> HIDE DEF answers
    <2> QED BY <2>1
  <1> HIDE DEF answers, shot, box, pending, unmet
  <1>6. /\ p \in Page /\ p.shot = shot /\ p.cached = page.cached
    BY <1>2, <1>4, <1>5 DEF Page
  <1>7. load' \in Load \cup {None} /\ Shots(page, load', x, lines)
    BY <1>1, <1>2, RefetchKeeps
  <1>8. Shots(p, load', x, lines)
    BY <1>2, <1>3, <1>6, <1>7 DEF Shots
  <1> HIDE DEF p
  <1> QED BY <1>1, <1>2, <1>3, <1>4, <1>6, <1>7, <1>8, RendersKeep

-----------------------------------------------------------------------------
(* Loads.                                                                  *)

\* A load reads the row first and the log lines later.
LEMMA LoadSafe == Inv /\ (LoadDetail \/ LoadLogs) => Inv'
  <1> SUFFICES ASSUME Inv, LoadDetail \/ LoadLogs
               PROVE  Inv'
    OBVIOUS
  <1>1. /\ UNCHANGED <<x, exec, lines, lock, page, stream, inbox, pane, left>>
        /\ load # None
    BY DEF LoadDetail, LoadLogs, worker
  <1>2. /\ x \in Row /\ x.status \in RunStatus /\ exec \in Exec /\ lines \in Nat
        /\ load \in Load /\ Shots(page, load, x, lines)
    BY <1>1 DEF Inv, TypeOK, Stands
  <1>3. load' \in Load /\ Shots(page, load', x, lines)
    <2>1. CASE LoadDetail
      <3> DEFINE s == snapshotFromDetail(x, exec.phase, <<>>)
      <3>0. <<>> \in Seq(Nat) /\ DOMAIN <<>> = {}
        OBVIOUS
      <3>1. s \in CockpitSnapshot
        BY <1>2, <3>0 DEF snapshotFromDetail, CockpitSnapshot, Row, Exec
      <3>2. s.logs = <<>> /\ s.results = x.results /\ s.status = x.status
        BY DEF snapshotFromDetail
      <3>3. load' = [load EXCEPT !.got = s]
        BY <2>1 DEF LoadDetail
      <3> HIDE DEF s
      <3>4. Fair(s, x, lines) /\ Whole(s)
        BY <3>0, <3>1, <3>2 DEF Fair, Whole
      <3>5. load' \in Load /\ load'.got = s /\ s # None
        BY <1>2, <3>1, <3>3 DEF Load
      <3> QED BY <1>2, <3>4, <3>5 DEF Shots
    <2>2. CASE LoadLogs
      <3> DEFINE l == [i \in 1 .. lines |-> i]
                 s == [load.got EXCEPT !.logs = l]
      <3>1. l \in Seq(Nat) /\ DOMAIN l = 1 .. lines /\ \A i \in 1 .. lines : l[i] = i
        BY <1>2
      <3>2. load.got \in CockpitSnapshot /\ Fair(load.got, x, lines)
        BY <1>1, <1>2, <2>2 DEF LoadLogs, Load, Shots
      <3>3. load' = [load EXCEPT !.got = s, !.done = TRUE]
        BY <1>2, <2>2 DEF LoadLogs, Load
      <3> HIDE DEF l
      <3>4. /\ s \in CockpitSnapshot /\ s.logs = l /\ s.results = load.got.results
            /\ s.status = load.got.status
        BY <3>1, <3>2 DEF CockpitSnapshot
      <3> HIDE DEF s
      <3>5. Fair(s, x, lines) /\ Whole(s)
        BY <1>2, <3>1, <3>2, <3>4 DEF Fair, Whole
      <3>6. load' \in Load /\ load'.got = s /\ s # None
        BY <1>2, <3>3, <3>4 DEF Load
      <3> QED BY <1>2, <3>5, <3>6 DEF Shots
    <2> QED BY <2>1, <2>2
  <1>4. TypeOK'
    BY <1>1, <1>3 DEF Inv, TypeOK
  <1>5. Stands(exec, x)' /\ Events(inbox, exec.out, x, lines)' /\ Heard(page, stream, inbox)'
    BY <1>1 DEF Inv, Stands, Heard, Listens
  <1>6. Shots(page, load, x, lines)'
    BY <1>1, <1>3
  <1>7. page'.shot # None => Placed(page'.shot, inbox', exec'.out)
    BY <1>1 DEF Inv
  <1> QED BY <1>4, <1>5, <1>6, <1>7 DEF Inv

\* What is taken was cached or has just been read to the end.
LEMMA TakesKeep ==
    ASSUME Inv, UNCHANGED <<x, worker, lock>>, left' \in Budget, load # None,
           NEW got \in CockpitSnapshot \cup {None}, NEW ok \in BOOLEAN, Takes(got, ok),
           got # None => Fair(got, x, lines) /\ Whole(got),
           got = None => page.cached = None
    PROVE  Inv'
  <1> DEFINE shot == IF page.open /\ (load.by \ {"pull"} # {} \/ page.shot = None)
                     THEN got ELSE page.shot
             p == [page EXCEPT !.cached = got, !.error = ~ok, !.shot = shot]
             now == IF "reconnect" \in load.by /\ stream = "refetching"
                    THEN Reconnected(ok) ELSE stream
  <1>1. Renders(p, now, inbox) /\ load' = None
    BY DEF Takes
  <1>2. /\ lines \in Nat /\ page \in Page /\ lock \in {None, "me", "other"}
        /\ stream \in {"off", "opening", "open", "broken", "refetching", "sleeping"}
        /\ Shots(page, load, x, lines) /\ Heard(page, stream, inbox)
        /\ Events(inbox, exec.out, x, lines)
        /\ page.shot # None => Placed(page.shot, inbox, exec.out)
    BY DEF Inv, TypeOK
  <1>3. shot \in {got, page.shot}
    OBVIOUS
  <1>4. /\ now \in {"off", "opening", "open", "broken", "refetching", "sleeping"}
        /\ inbox # <<>> => now = "open"
    BY <1>2 DEF Reconnected, Heard
  <1> HIDE DEF shot, now
  <1>5. /\ p \in Page /\ p.shot = shot /\ p.cached = got /\ p.ask = page.ask
    BY <1>2, <1>3 DEF Page
  <1> HIDE DEF p
  <1>6. /\ shot # None => Fair(shot, x, lines) /\ got # None
        /\ page.shot # None => shot # None
    BY <1>2, <1>3 DEF Shots
  <1>7. Shots(p, load', x, lines)
    BY <1>1, <1>5, <1>6 DEF Shots
  <1>8. p.shot # None => Placed(p.shot, inbox, exec.out)
    <2>1. got # None => Placed(got, inbox, exec.out)
      BY <1>2, WholePlaced
    <2> QED BY <1>2, <1>3, <1>5, <2>1
  <1>9. p.ask # None => p.shot # None
    BY <1>2, <1>5, <1>6 DEF Heard
  <1> QED BY <1>1, <1>2, <1>4, <1>5, <1>7, <1>8, <1>9, RendersKeep

LEMMA TakenSafe == Inv /\ (LoadDone \/ LoadFails) => Inv'
  <1> SUFFICES ASSUME Inv, LoadDone \/ LoadFails
               PROVE  Inv'
    OBVIOUS
  <1>1. /\ load \in Load \cup {None} /\ page \in Page /\ left \in Budget
        /\ Shots(page, load, x, lines)
    BY DEF Inv, TypeOK
  <1>2. CASE LoadDone
    <2>1. /\ load # None /\ load.done /\ Takes(load.got, TRUE)
          /\ UNCHANGED <<x, worker, lock, left>>
      BY <1>2 DEF LoadDone
    <2>2. load.got # None /\ Fair(load.got, x, lines) /\ Whole(load.got)
      BY <1>1, <2>1 DEF Shots
    <2>3. load.got \in CockpitSnapshot \cup {None}
      BY <1>1, <2>1 DEF Load
    <2> QED BY <1>1, <2>1, <2>2, <2>3, TakesKeep
  <1>3. CASE LoadFails
    <2>1. /\ load # None /\ Takes(page.cached, FALSE) /\ Trouble("load")
          /\ UNCHANGED <<x, worker, lock>>
      BY <1>3 DEF LoadFails
    <2>2. left' \in Budget
      BY <1>1, <2>1, BudgetLeft DEF Kind
    <2>3. /\ page.cached \in CockpitSnapshot \cup {None}
          /\ page.cached # None => Fair(page.cached, x, lines) /\ Whole(page.cached)
      BY <1>1 DEF Page, Shots
    <2> QED BY <2>1, <2>2, <2>3, TakesKeep
  <1> QED BY <1>2, <1>3

-----------------------------------------------------------------------------
(* The person at the page.                                                 *)

LEMMA OpenSafe == Inv /\ Open => Inv'
  <1> SUFFICES ASSUME Inv, Open
               PROVE  Inv'
    OBVIOUS
  <1> DEFINE p == [page EXCEPT !.open = TRUE, !.shot = page.cached, !.sees = lock]
  <1>1. /\ page \in Page /\ lock \in {None, "me", "other"} /\ left \in Budget
        /\ load \in Load \cup {None} /\ Shots(page, load, x, lines)
        /\ Heard(page, stream, inbox)
    BY DEF Inv, TypeOK
  <1>2. /\ Becomes(p) /\ UNCHANGED <<x, worker, lock>> /\ left.visits > 0
        /\ left' = [left EXCEPT !.visits = @ - 1]
        /\ load' = IF load = None THEN Fetch({}) ELSE load
    BY DEF Open
  <1>3. /\ p \in Page /\ p.shot = page.cached /\ p.cached = page.cached /\ p.ask = page.ask
    BY <1>1 DEF Page
  <1> HIDE DEF p
  <1>4. left' \in Budget
    BY <1>1, <1>2 DEF Budget
  <1>5. load' \in Load \cup {None} /\ Shots(page, load', x, lines)
    <2>1. CASE load = None
      <3>1. load' = [by |-> {}, got |-> None, done |-> FALSE]
        BY <1>2, <2>1 DEF Fetch
      <3>2. load' \in Load /\ load'.got = None /\ ~load'.done
        BY <3>1 DEF Load
      <3> QED BY <1>1, <3>2 DEF Shots
    <2>2. CASE load # None
      BY <1>1, <1>2, <2>2
    <2> QED BY <2>1, <2>2
  <1>6. Shots(p, load', x, lines)
    BY <1>3, <1>5 DEF Shots
  <1>7. p.shot # None => Whole(p.shot)
    BY <1>1, <1>3 DEF Shots
  <1>8. p.ask # None => p.shot # None
    BY <1>1, <1>3 DEF Heard, Shots
  <1> QED BY <1>1, <1>2, <1>3, <1>4, <1>5, <1>6, <1>7, <1>8, BecomesKeep

\* The page changes in what it shows of nothing but itself.
LEMMA ClickSafe ==
    /\ Inv /\ Hear => Inv'
    /\ \A op \in Op : Inv /\ Click(op) => Inv'
    /\ \A c \in BOOLEAN : Inv /\ ConfirmCancel(c) => Inv'
    /\ \A s \in Steps : Inv /\ Dismiss(s) => Inv'
  <1>1. ASSUME Inv, NEW p \in Page, Becomes(p), p.shot = page.shot, p.cached = page.cached,
               p.ask # None => page.shot # None,
               UNCHANGED <<x, worker, lock, load>>, left' \in Budget
        PROVE  Inv'
    <2>1. /\ lock \in {None, "me", "other"} /\ load \in Load \cup {None}
          /\ Shots(p, load, x, lines)
      BY <1>1 DEF Inv, TypeOK, Shots
    <2> QED BY <1>1, <2>1, BecomesKeep
  <1>2. ASSUME Inv
        PROVE  /\ page \in Page /\ left \in Budget /\ lock \in {None, "me", "other"}
               /\ page.ask # None => page.shot # None
    BY <1>2 DEF Inv, TypeOK, Heard
  <1>3. ASSUME Inv, Hear
        PROVE  Inv'
    <2> DEFINE p == [page EXCEPT !.sees = lock]
    <2>1. /\ Becomes(p) /\ UNCHANGED <<x, worker, lock, load, left>>
      BY <1>3 DEF Hear
    <2>2. p \in Page /\ p.shot = page.shot /\ p.cached = page.cached /\ p.ask = page.ask
      BY <1>2, <1>3 DEF Page
    <2> HIDE DEF p
    <2> QED BY <1>1, <1>2, <1>3, <2>1, <2>2
  <1>4. ASSUME NEW op \in Op, Inv, Click(op)
        PROVE  Inv'
    <2> DEFINE unmet == IF op = "take" THEN FALSE ELSE page.unmet
               p == [page EXCEPT !.ask = [op |-> op, answer |-> None], !.unmet = unmet]
    <2>1. /\ Becomes(p) /\ UNCHANGED <<x, worker, lock, load>> /\ Ask(op)
          /\ page.shot # None
      BY <1>4 DEF Click, Screen
    <2>2. unmet \in BOOLEAN
      BY <1>2, <1>4 DEF Page
    <2> HIDE DEF unmet
    <2>3. p \in Page /\ p.shot = page.shot /\ p.cached = page.cached
      BY <1>2, <1>4, <2>2 DEF Page
    <2>4. left' \in Budget
      BY <1>2, <1>4, <2>1, BudgetLeft
    <2> HIDE DEF p
    <2> QED BY <1>1, <1>4, <2>1, <2>3, <2>4
  <1>5. ASSUME NEW c \in BOOLEAN, Inv, ConfirmCancel(c)
        PROVE  Inv'
    <2> DEFINE p == [page EXCEPT !.confirm = c]
    <2>1. /\ Becomes(p) /\ UNCHANGED <<x, worker, lock, load, left>>
      BY <1>5 DEF ConfirmCancel
    <2>2. p \in Page /\ p.shot = page.shot /\ p.cached = page.cached /\ p.ask = page.ask
      BY <1>2, <1>5 DEF Page
    <2> HIDE DEF p
    <2> QED BY <1>1, <1>2, <1>5, <2>1, <2>2
  <1>6. ASSUME NEW s \in Steps, Inv, Dismiss(s)
        PROVE  Inv'
    <2> DEFINE p == [page EXCEPT !.dismissed = page.dismissed \cup {s}]
    <2>1. /\ Becomes(p) /\ UNCHANGED <<x, worker, lock, load, left>>
      BY <1>6 DEF Dismiss
    <2>2. p \in Page /\ p.shot = page.shot /\ p.cached = page.cached /\ p.ask = page.ask
      BY <1>2, <1>6 DEF Page
    <2> HIDE DEF p
    <2> QED BY <1>1, <1>2, <1>6, <2>1, <2>2
  <1> QED BY <1>3, <1>4, <1>5, <1>6

(* What an answered request changes of the snapshot: of what was shown, a  *)
(* promise kept or a pause asked for.                                      *)
LEMMA AnsweredKeeps ==
    ASSUME page \in Page, lock \in {None, "me", "other"}, page.ask # None,
           page.ask.answer # None, page.shot # None
    PROVE  LET p == [Answered(page) EXCEPT !.ask = None] IN
           /\ p \in Page /\ p.cached = page.cached /\ p.ask = None
           /\ p.shot \in CockpitSnapshot /\ p.shot.logs = page.shot.logs
           /\ p.shot.results = page.shot.results /\ p.shot.status = page.shot.status
  <1> DEFINE a == Answered(page)
             Good(p) == /\ p \in Page /\ p.cached = page.cached
                        /\ p.shot \in CockpitSnapshot /\ p.shot.logs = page.shot.logs
                        /\ p.shot.results = page.shot.results
                        /\ p.shot.status = page.shot.status
  <1>1. page.shot \in CockpitSnapshot /\ page.ask.op \in Op
    BY DEF Page
  <1>2. Good(a)
    <2>1. CASE page.ask.answer = "held"
      <3>1. a = [page EXCEPT !.already = TRUE]
        BY <2>1 DEF Answered
      <3> QED BY <1>1, <3>1 DEF Page
    <2>2. CASE page.ask.answer = "refused"
      BY <1>1, <2>2 DEF Answered
    <2>3. CASE page.ask.answer \notin {"held", "refused"} /\ page.ask.op = "take"
      <3>1. a = [page EXCEPT !.already = FALSE, !.unmet = FALSE, !.hold = TRUE, !.sees = "me"]
        BY <2>3 DEF Answered, onTookOver
      <3> QED BY <1>1, <3>1 DEF Page
    <2>4. CASE page.ask.answer \notin {"held", "refused"} /\ page.ask.op \in {"handback", "abandon"}
      <3> DEFINE sees == IF lock = "me" THEN None ELSE page.sees
      <3>1. a = [page EXCEPT !.pending = page.hold, !.hold = FALSE, !.sees = sees]
        BY <2>4 DEF Answered, onReleased
      <3>2. sees \in {None, "me", "other"} /\ page.hold \in BOOLEAN
        BY DEF Page
      <3> HIDE DEF sees
      <3> QED BY <1>1, <3>1, <3>2 DEF Page
    <2>5. CASE page.ask.answer \notin {"held", "refused"} /\ page.ask.op = "hold"
      <3>1. a = [page EXCEPT !.shot = [page.shot EXCEPT !.auto = FALSE]]
        BY <2>5 DEF Answered, onStay
      <3>2. /\ [page.shot EXCEPT !.auto = FALSE] \in CockpitSnapshot
            /\ [page.shot EXCEPT !.auto = FALSE].logs = page.shot.logs
            /\ [page.shot EXCEPT !.auto = FALSE].results = page.shot.results
            /\ [page.shot EXCEPT !.auto = FALSE].status = page.shot.status
        BY <1>1 DEF CockpitSnapshot
      <3> QED BY <3>1, <3>2 DEF Page
    <2>6. CASE page.ask.answer \notin {"held", "refused"} /\ page.ask.op = "pause"
      <3>1. a = [page EXCEPT !.shot = [page.shot EXCEPT !.pause = TRUE]]
        BY <2>6 DEF Answered, onPause
      <3>2. /\ [page.shot EXCEPT !.pause = TRUE] \in CockpitSnapshot
            /\ [page.shot EXCEPT !.pause = TRUE].logs = page.shot.logs
            /\ [page.shot EXCEPT !.pause = TRUE].results = page.shot.results
            /\ [page.shot EXCEPT !.pause = TRUE].status = page.shot.status
        BY <1>1 DEF CockpitSnapshot
      <3> QED BY <3>1, <3>2 DEF Page
    <2>7. CASE page.ask.answer \notin {"held", "refused"} /\ page.ask.op = "cancel"
      <3>1. a = [page EXCEPT !.confirm = FALSE]
        BY <2>7 DEF Answered
      <3> QED BY <1>1, <3>1 DEF Page
    <2> QED BY <1>1, <2>1, <2>2, <2>3, <2>4, <2>5, <2>6, <2>7 DEF Op
  <1> DEFINE p == [a EXCEPT !.ask = None]
  <1>3. a \in Page
    BY <1>2
  <1> HIDE DEF a
  <1>4. p \in Page /\ p.cached = a.cached /\ p.ask = None /\ p.shot = a.shot
    BY <1>3 DEF Page
  <1> QED BY <1>2, <1>4 DEF a

LEMMA AnswerSafe == Inv /\ Answer => Inv'
  <1> SUFFICES ASSUME Inv, Answer
               PROVE  Inv'
    OBVIOUS
  <1> DEFINE p == [Answered(page) EXCEPT !.ask = None]
  <1>1. /\ Becomes(p) /\ UNCHANGED <<x, worker, left>>
        /\ page.ask # None /\ page.ask.answer # None
        /\ Refetch("cancel") \/ UNCHANGED load
        /\ lock' \in {"me", None, lock}
    BY DEF Answer
  <1>2. /\ page \in Page /\ lock \in {None, "me", "other"} /\ left \in Budget
        /\ load \in Load \cup {None} /\ Shots(page, load, x, lines) /\ page.shot # None
    BY <1>1 DEF Inv, TypeOK, Heard
  <1>3. /\ p \in Page /\ p.cached = page.cached /\ p.ask = None
        /\ p.shot \in CockpitSnapshot /\ p.shot.logs = page.shot.logs
        /\ p.shot.results = page.shot.results /\ p.shot.status = page.shot.status
    BY <1>1, <1>2, AnsweredKeeps
  <1> HIDE DEF p
  <1>4. load' \in Load \cup {None} /\ Shots(page, load', x, lines)
    BY <1>1, <1>2, RefetchKeeps
  <1>5. Fair(p.shot, x, lines)
    BY <1>2, <1>3 DEF Shots, Fair
  <1>6. Shots(p, load', x, lines)
    BY <1>2, <1>3, <1>4, <1>5 DEF Shots
  <1> QED BY <1>1, <1>2, <1>3, <1>4, <1>6, BecomesKeep

LEMMA LeaveSafe == Inv /\ (Leave \/ Kill) => Inv'
  <1> SUFFICES ASSUME Inv, Leave \/ Kill
               PROVE  Inv'
    OBVIOUS
  <1>1. /\ page \in Page /\ lock \in {None, "me", "other"} /\ left \in Budget
        /\ load \in Load \cup {None} /\ Shots(page, load, x, lines)
    BY DEF Inv, TypeOK
  <1>2. PICK p \in Page :
            /\ Becomes(p) /\ p.shot = None /\ p.ask = None
            /\ \/ p.cached = None /\ load' = None
               \/ /\ p.cached = page.cached
                  /\ load' = None \/ (load # None /\ load' = [load EXCEPT !.by = {}])
    <2>1. Closed \in Page /\ Closed.shot = None /\ Closed.ask = None /\ Closed.cached = None
      BY DEF Closed, Page
    <2>2. CASE Leave
      <3> DEFINE p == [Closed EXCEPT !.cached = page.cached]
      <3>1. p \in Page /\ p.shot = None /\ p.ask = None /\ p.cached = page.cached
        BY <1>1, <2>1 DEF Page
      <3>2. Becomes(p) /\ load' = IF load = None THEN None ELSE [load EXCEPT !.by = {}]
        BY <2>2 DEF Leave
      <3> HIDE DEF p
      <3> QED BY <3>1, <3>2
    <2>3. CASE Kill
      BY <2>1, <2>3 DEF Kill
    <2> QED BY <2>2, <2>3
  <1>3. UNCHANGED <<x, worker, left>> /\ lock' \in {None, "other", lock}
    BY DEF Leave, Kill
  <1>5. load' \in Load \cup {None} /\ Shots(p, load', x, lines)
    <2>1. CASE load' = None
      BY <1>1, <1>2, <2>1 DEF Shots
    <2>2. CASE load # None /\ load' = [load EXCEPT !.by = {}] /\ p.cached = page.cached
      <3>1. load' \in Load /\ load'.got = load.got /\ load'.done = load.done
        BY <1>1, <2>2 DEF Load
      <3> QED BY <1>1, <1>2, <2>2, <3>1 DEF Shots
    <2> QED BY <1>2, <2>1, <2>2
  <1> QED BY <1>1, <1>3, <1>2, <1>5, BecomesKeep

-----------------------------------------------------------------------------

LEMMA InitSafe == Init => Inv
  <1> SUFFICES ASSUME Init
               PROVE  Inv
    OBVIOUS
  <1>1. x \in Row /\ x.status = "queued"
    BY BlankRows DEF Init
  <1>2. <<>> \in Seq(RunEvent) /\ DOMAIN <<>> = {} /\ Len(<<>>) = 0
    OBVIOUS
  <1>3. exec \in Exec
    BY <1>2 DEF Init, Exec
  <1>4. page \in Page /\ pane \in Pane
    BY DEF Init, Closed, NoPane, Page, Pane
  <1>5. TypeOK
    BY <1>1, <1>2, <1>3, <1>4 DEF Init, TypeOK
  <1>6. Stands(exec, x)
    BY <1>1 DEF Init, Stands
  <1>7. Events(inbox, exec.out, x, lines)
    BY <1>2 DEF Init, Events
  <1>8. page.shot = None /\ page.cached = None /\ page.ask = None /\ load = None
    BY DEF Init, Closed
  <1> QED BY <1>2, <1>5, <1>6, <1>7, <1>8 DEF Inv, Shots, Heard, Init

LEMMA StepSafe == Inv /\ [Next]_vars => Inv'
  <1>1. Inv /\ Work => Inv'
    BY ClaimSafe, PublishSafe, TellsSafe, SkipStepSafe, FinishRunSafe, ParkSafe, DeathSafe,
       EndStepSafe DEF Work
  <1>2. Inv /\ (Loading \/ Listening \/ LoadFails \/ Break) => Inv'
    BY LoadSafe, TakenSafe, ListeningSafe DEF Loading, Listening
  <1>3. Inv /\ Person => Inv'
    BY OpenSafe, LeaveSafe, ClickSafe, ElsewhereSafe DEF Person
  <1>4. Inv /\ UNCHANGED vars => Inv'
    BY DEF vars, tab, worker, Inv, TypeOK, Stands, Heard, Listens
  <1> QED BY <1>1, <1>2, <1>3, <1>4, TellsSafe, DeathSafe, ServeSafe, ReceiveSafe, AnswerSafe,
             PaneSafe DEF Next

(* What the cockpit shows is true (applyRunEvent, CockpitLoad): its log    *)
(* has each line once and in order, its results are those of the database, *)
(* and a Run it shows as ended has ended; for any Run, any number of       *)
(* requests by anyone, and any stream, load or Worker that fails.          *)
THEOREM TruthShown == Spec => []ShowsTruth
  <1>1. Inv => ShowsTruth
    <2> SUFFICES ASSUME Inv
                 PROVE  ShowsTruth
      OBVIOUS
    <2>1. page.shot # None => Fair(page.shot, x, lines)
      BY DEF Inv, Shots
    <2>2. LogsOnce /\ ResultsTrue /\ EndedIsTrue
      BY <2>1 DEF LogsOnce, ResultsTrue, EndedIsTrue, Fair, isTerminal
    <2> QED BY <2>2 DEF ShowsTruth, Inv
  <1> QED BY <1>1, InitSafe, StepSafe, PTL DEF Spec
=============================================================================

-------------------------- MODULE RecordingProofs --------------------------
(***************************************************************************)
(* Proofs about the extension.                                             *)
(*                                                                         *)
(* Recording, for any number of events, inputs, handlers at work and       *)
(* troubles: a finalized session stays as it is, the API's buffer goes     *)
(* forward, and a recording leaves the extension only discarded or saved.  *)
(* The first two follow from the types.  The last needs to know whose      *)
(* answer is whose: a request somebody waits for is the only one of that   *)
(* handler, and is for what the handler waits for, so that a save granted  *)
(* is a save made.                                                         *)
(*                                                                         *)
(* Extension, for any page, Workflow, number of clicks and troubles.  It   *)
(* connects as asked, because what is still to come of clicks comes in     *)
(* their order: pages, codes, handshakes and what is stored are numbered   *)
(* by the click they come of (ConnInv).  It saves whole, because messages  *)
(* and Steps are mute about passwords from the page on (RecInv).  It       *)
(* records as done, because a click is told of in one place at a time      *)
(* (Once), it and its navigation pass each other only where the one that   *)
(* comes second can still claim the first (MoveInv), a key is given to one *)
(* element (Named), and a session is offered, recorded or answered         *)
(* (Sessions).                                                             *)
(***************************************************************************)
EXTENDS Recording, Extension, SequenceTheorems, FiniteSetTheorems, WellFoundedInduction, TLAPS

-----------------------------------------------------------------------------
(* The stored recording and its session: Recording.                        *)

Calls == {"checkpoint", "options", "prepare", "finalize"}

\* A request by a handler is for what that handler waits for.
Awaited ==
    \A r \in requests :
        r.by # None => /\ task[r.by] # None
                       /\ task[r.by].pc = "waiting" /\ task[r.by].op = r.op

\* A handler has one request on its way at most.
OneEach == \A q, r \in requests : q.by = r.by /\ r.by # None => q = r

\* A handler waits for a request, and one that was granted finalize has saved.
Honest ==
    \A t \in Threads : task[t] # None =>
        /\ task[t].pc = "waiting" => task[t].op \in Calls
        /\ task[t].pc = "granted" /\ task[t].op = "finalize" => session.finalized

RecordingInv == RecordingTypeOK /\ Awaited /\ OneEach /\ Honest

-----------------------------------------------------------------------------
(* Types.                                                                  *)

(* All but the last of a sequence.                                         *)
LEMMA FrontOfSteps == ASSUME NEW q \in Seq(Nat) PROVE Front(q) \in Seq(Nat)
  <1>0. Len(q) \in Nat
    BY LenProperties
  <1>1. CASE Len(q) = 0
    <2>1. 1 > Len(q) - 1 /\ Len(q) - 1 \in Int
      BY <1>1
    <2>2. SubSeq(q, 1, Len(q) - 1) = << >>
      BY <2>1, SubSeqEmpty
    <2> QED BY <2>2 DEF Front
  <1>2. CASE Len(q) # 0
    <2>1. 1 \in 1 .. Len(q) + 1 /\ Len(q) - 1 \in 1 - 1 .. Len(q)
      BY <1>0, <1>2
    <2>2. SubSeq(q, 1, Len(q) - 1) \in Seq(Nat)
      BY <2>1, SubSeqProperties
    <2> QED BY <2>2 DEF Front
  <1> QED BY <1>1, <1>2

(* assembleInteraction and its like leave a recording.                     *)
LEMMA BufferAssembled ==
    ASSUME NEW b \in Buffer, NEW e \in [kind : Event, id : Nat], e.kind # "visit", NEW so \in BOOLEAN
    PROVE  Assembled(b, e, so) \in Buffer
  <1> DEFINE next == [b EXCEPT !.seq = @ + 1, !.routed = FALSE]
             front == IF so /\ b.routed THEN Front(next.steps) ELSE next.steps
  <1>0. b.seq + 1 \in Nat
    BY DEF Buffer
  <1>1. next \in Buffer /\ next.steps \in Seq(Nat) /\ e.id \in Nat
    BY <1>0 DEF Buffer
  <1>2. e.kind \in {"interact", "navigate", "mark"}
    BY DEF Event
  <1>3. Front(next.steps) \in Seq(Nat)
    BY <1>1, FrontOfSteps
  <1>4. front \in Seq(Nat)
    BY <1>1, <1>3
  <1>5. Append(front, e.id) \in Seq(Nat) /\ Append(next.steps, e.id) \in Seq(Nat)
    BY <1>1, <1>4, AppendProperties
  <1>6. CASE e.kind = "interact"
    <2>1. Assembled(b, e, so) = [next EXCEPT !.steps = Append(front, e.id)]
      BY <1>6 DEF Assembled
    <2> HIDE DEF next, front
    <2> QED BY <1>1, <1>5, <2>1 DEF Buffer
  <1>7. CASE e.kind = "navigate"
    <2>1. Assembled(b, e, so) = [next EXCEPT !.steps = Append(next.steps, e.id), !.routed = so]
      BY <1>7 DEF Assembled
    <2> HIDE DEF next, front
    <2> QED BY <1>1, <1>5, <2>1 DEF Buffer
  <1>8. CASE e.kind = "mark"
    <2> DEFINE m == so /\ b.routed /\ b.state = "recording"
    <2>1. Assembled(b, e, so) = [next EXCEPT !.routed = m]
      BY <1>8 DEF Assembled
    <2>2. m \in BOOLEAN
      BY DEF Buffer
    <2> HIDE DEF next, front, m
    <2> QED BY <1>1, <2>1, <2>2 DEF Buffer
  <1> QED BY <1>2, <1>6, <1>7, <1>8

(* The state the API keeps, as a record.                                   *)
LEMMA SessionIs ==
    ASSUME RecordingTypeOK
    PROVE  /\ session.token \in Nat /\ session.lapsed \in BOOLEAN /\ session.finalized \in BOOLEAN
           /\ session.seq \in Nat /\ session.steps \in Seq(Nat)
  BY DEF RecordingTypeOK

-----------------------------------------------------------------------------
(* Steps of the extension.                                                 *)

(* What every action but a few leaves of the invariant: the session keeps  *)
(* or gains finalized, no request is added, and tasks change only to ones  *)
(* that neither wait nor claim a save.                                     *)
LEMMA TasksOnly ==
    ASSUME RecordingInv, RecordingTypeOK', NEW t \in Threads, NEW k, task' = [task EXCEPT ![t] = k],
           k = None \/ k.pc \in {"held", "again", "end"},
           \A r \in requests : r.by # t \/ r.by = None,
           UNCHANGED <<requests, session>>
    PROVE  RecordingInv'
  <1>0. task \in [Threads -> Task \cup {None}] /\ requests \subseteq Request
    BY DEF RecordingInv, RecordingTypeOK
  <1>1. \A u \in Threads : task'[u] = IF u = t THEN k ELSE task[u]
    BY <1>0
  <1>2. Awaited'
    BY <1>0, <1>1 DEF RecordingInv, Awaited, Request
  <1>3. OneEach'
    BY DEF RecordingInv, OneEach
  <1>4. Honest'
    BY <1>1 DEF RecordingInv, Honest
  <1> QED BY <1>2, <1>3, <1>4 DEF RecordingInv

(* A handler that does not wait has no request on its way.                 *)
LEMMA NoneOnItsWay ==
    ASSUME RecordingInv, NEW t \in Threads, task[t] = None \/ task[t].pc # "waiting"
    PROVE  \A r \in requests : r.by # t \/ r.by = None
  BY DEF RecordingInv, Awaited

(* A handler's task.                                                       *)
LEMMA TaskIs ==
    ASSUME NEW pc \in {"held", "again", "waiting", "granted", "denied", "end"}, NEW b \in Buffer,
           NEW op \in Calls \cup {"again", None}
    PROVE  [pc |-> pc, snap |-> b, op |-> op] \in Task
  BY DEF Task, Calls

(* A handler that holds what it read.                                      *)
LEMMA HoldKeeps ==
    ASSUME RecordingInv, NEW t \in Threads, NEW b \in Buffer, NEW op \in Calls \cup {"again", None},
           task[t] = None \/ task[t].pc # "waiting", Hold(t, b, op), UNCHANGED <<requests, session>>
    PROVE  /\ task' \in [Threads -> Task \cup {None}]
           /\ RecordingTypeOK' => RecordingInv'
  <1> DEFINE k == [pc |-> "held", snap |-> b, op |-> op]
  <1>1. k \in Task /\ k.pc = "held"
    BY TaskIs
  <1>2. task' = [task EXCEPT ![t] = k]
    BY DEF Hold
  <1> HIDE DEF k
  <1>3. task' \in [Threads -> Task \cup {None}]
    BY <1>1, <1>2 DEF RecordingInv, RecordingTypeOK
  <1>4. RecordingTypeOK' => RecordingInv'
    BY <1>1, <1>2, NoneOnItsWay, TasksOnly
  <1> QED BY <1>3, <1>4

(* A handler sends a request and waits for its answer.                     *)
LEMMA SendKeeps ==
    ASSUME RecordingInv, NEW t \in Threads, NEW b \in Buffer, NEW op \in Calls,
           task[t] = None \/ task[t].pc # "waiting", Send(t, b, op), UNCHANGED session
    PROVE  /\ task' \in [Threads -> Task \cup {None}] /\ requests' \subseteq Request
           /\ RecordingTypeOK' => RecordingInv'
  <1> DEFINE k == [pc |-> "waiting", snap |-> b, op |-> op]
             m == [by |-> t, op |-> op, token |-> b.token, seq |-> b.seq, steps |-> b.steps]
  <1>1. k \in Task /\ k.pc = "waiting" /\ k.op = op
    BY TaskIs
  <1>2. m \in Request /\ m.by = t /\ m.op = op
    BY DEF Request, Buffer, Calls
  <1>3. task' = [task EXCEPT ![t] = k] /\ requests' = requests \cup {m}
    BY DEF Send
  <1> HIDE DEF k, m
  <1>4. task \in [Threads -> Task \cup {None}] /\ requests \subseteq Request /\ k # None
    BY <1>1, RecordingAssumption DEF RecordingInv, RecordingTypeOK
  <1>5. task' \in [Threads -> Task \cup {None}] /\ requests' \subseteq Request
    BY <1>1, <1>2, <1>3, <1>4
  <1>6. \A r \in requests : r.by # t \/ r.by = None
    BY NoneOnItsWay
  <1>7. \A u \in Threads : task'[u] = IF u = t THEN k ELSE task[u]
    BY <1>3, <1>4
  <1>8. t # None
    BY RecordingAssumption
  <1>9. Awaited'
    BY <1>1, <1>2, <1>3, <1>4, <1>6, <1>7 DEF RecordingInv, Awaited, Request
  <1>10. OneEach'
    BY <1>2, <1>3, <1>6, <1>8 DEF RecordingInv, OneEach
  <1>11. Honest'
    BY <1>1, <1>7 DEF RecordingInv, Honest, Calls
  <1> QED BY <1>5, <1>9, <1>10, <1>11 DEF RecordingInv

(* What is asked for is counted.                                           *)
LEMMA Counted == ASSUME RecordingTypeOK, Ask \/ Mishap PROVE {events, asks, troubles}' \subseteq Nat
  BY DEF RecordingTypeOK, Ask, Mishap

(* Neither a request nor a handler changes.                                *)
LEMMA Beside ==
    ASSUME RecordingInv, RecordingTypeOK', UNCHANGED <<task, requests>>, session.finalized => session'.finalized
    PROVE  RecordingInv'
  <1>1. Awaited' /\ OneEach'
    BY DEF RecordingInv, Awaited, OneEach
  <1>2. Honest'
    BY DEF RecordingInv, Honest
  <1> QED BY <1>1, <1>2 DEF RecordingInv

LEMMA HappenKeeps == ASSUME RecordingInv, NEW e \in Event, Happen(e) PROVE RecordingInv'
  <1>1. events + 1 \in Nat /\ events + 2 \in Nat
    BY DEF RecordingInv, RecordingTypeOK
  <1>2. [kind |-> e, id |-> events + 2] \in [kind : Event, id : Nat]
    BY <1>1
  <1>3. recordingQueue' \in Seq([kind : Event, id : Nat])
    BY <1>2, AppendProperties DEF RecordingInv, RecordingTypeOK, Happen
  <1>4. RecordingTypeOK'
    BY <1>1, <1>3 DEF RecordingInv, RecordingTypeOK, Happen, server, page
  <1> QED BY <1>4, Beside DEF Happen, server

LEMMA BeginKeeps == ASSUME RecordingInv, Begin PROVE RecordingInv'
  <1>1. PICK so \in BOOLEAN :
          /\ task["queue"] = None /\ recordingQueue # <<>> /\ recordingQueue' = Tail(recordingQueue)
          /\ IF ~OfThisTab THEN UNCHANGED task
             ELSE IF Head(recordingQueue).kind = "visit" THEN Hold("queue", local, None)
             ELSE Hold("queue", Assembled(local, Head(recordingQueue), so), "checkpoint")
          /\ UNCHANGED <<local, requests, server, page, bounds>>
    BY DEF Begin, Free, Idle
  <1>2. recordingQueue \in Seq([kind : Event, id : Nat])
    BY DEF RecordingInv, RecordingTypeOK
  <1>3. recordingQueue' \in Seq([kind : Event, id : Nat]) /\ Head(recordingQueue) \in [kind : Event, id : Nat]
    BY <1>1, <1>2, HeadTailProperties
  <1>4. RecordingTypeOK' \/ task' \notin [Threads -> Task \cup {None}]
    BY <1>1, <1>3 DEF RecordingInv, RecordingTypeOK, server, page, bounds
  <1>5. CASE ~OfThisTab
    <2>1. task' = task
      BY <1>1, <1>5
    <2>2. RecordingTypeOK'
      BY <1>4, <2>1 DEF RecordingInv, RecordingTypeOK
    <2> QED BY <1>1, <2>1, <2>2, Beside DEF server
  <1>6. CASE OfThisTab
    <2>1. local \in Buffer
      BY <1>6 DEF OfThisTab, RecordingInv, RecordingTypeOK
    <2>2. PICK b \in Buffer, op \in {"checkpoint", None} : Hold("queue", b, op)
      <3>1. CASE Head(recordingQueue).kind = "visit"
        BY <1>1, <1>6, <2>1, <3>1
      <3>2. CASE Head(recordingQueue).kind # "visit"
        BY <1>1, <1>3, <1>6, <2>1, <3>2, BufferAssembled
      <3> QED BY <3>1, <3>2
    <2>3. task' \in [Threads -> Task \cup {None}] /\ (RecordingTypeOK' => RecordingInv')
      BY <1>1, <2>2, HoldKeeps DEF Threads, Calls, server
    <2> QED BY <1>4, <2>3
  <1> QED BY <1>5, <1>6

(* A handler reads the recording, with a change or without, and holds it.  *)
LEMMA StartingKeeps == ASSUME RecordingInv, Start PROVE RecordingInv'
  <1> DEFINE b == [local EXCEPT !.state = "recording", !.steps = <<1>>]
  <1>1. local \in Buffer /\ task["start"] = None /\ Hold("start", b, "again")
    BY DEF Start, Free, Idle, RecordingInv, RecordingTypeOK
  <1>2. b \in Buffer
    <2>1. <<1>> \in Seq(Nat)
      OBVIOUS
    <2> QED BY <1>1, <2>1 DEF Buffer
  <1> HIDE DEF b
  <1>3. UNCHANGED <<local, recordingQueue, requests, session, draft, notice, offers>>
    BY DEF Start, server, page
  <1>4. task' \in [Threads -> Task \cup {None}] /\ (RecordingTypeOK' => RecordingInv')
    BY <1>1, <1>2, <1>3, HoldKeeps DEF Threads
  <1>5. RecordingTypeOK'
    BY <1>3, <1>4, Counted DEF Start, RecordingInv, RecordingTypeOK
  <1> QED BY <1>4, <1>5

LEMMA StopKeeps == ASSUME RecordingInv, StopRecording PROVE RecordingInv'
  <1>1. local \in Buffer /\ task["stop"] = None /\ Hold("stop", local, "again")
    BY DEF StopRecording, Free, Idle, RecordingInv, RecordingTypeOK
  <1>2. UNCHANGED <<local, recordingQueue, requests, session, draft, notice, offers>>
    BY DEF StopRecording, server, page
  <1>3. task' \in [Threads -> Task \cup {None}] /\ (RecordingTypeOK' => RecordingInv')
    BY <1>1, <1>2, HoldKeeps DEF Threads
  <1>4. RecordingTypeOK'
    BY <1>2, <1>3, Counted DEF StopRecording, RecordingInv, RecordingTypeOK
  <1> QED BY <1>3, <1>4

LEMMA CaptureKeeps == ASSUME RecordingInv, Capture PROVE RecordingInv'
  <1>1. task["start"].pc = "again" /\ "start" \in Threads
    BY DEF Capture, Threads
  <1>2. UNCHANGED <<local, recordingQueue, requests, session, draft, notice, offers, events, asks, troubles>>
    BY DEF Capture, server, page, bounds
  <1>3. CASE local # None /\ local.state = "recording"
    <2>1. local \in Buffer /\ Hold("start", local, None)
      BY <1>3 DEF Capture, RecordingInv, RecordingTypeOK
    <2>2. task' \in [Threads -> Task \cup {None}] /\ (RecordingTypeOK' => RecordingInv')
      BY <1>1, <1>2, <2>1, HoldKeeps
    <2> QED BY <1>2, <2>2 DEF RecordingInv, RecordingTypeOK
  <1>4. CASE ~(local # None /\ local.state = "recording")
    <2>1. task' = [task EXCEPT !["start"] = None]
      BY <1>4 DEF Capture
    <2>2. RecordingTypeOK'
      BY <1>2, <2>1 DEF RecordingInv, RecordingTypeOK
    <2> QED BY <1>1, <1>2, <2>1, <2>2, NoneOnItsWay, TasksOnly
  <1> QED BY <1>3, <1>4

LEMMA TokenArrivesKeeps == ASSUME RecordingInv, NEW n \in offers, TokenArrives(n) PROVE RecordingInv'
  <1>1. task["token"] = None /\ "token" \in Threads /\ n \in Nat
    BY DEF TokenArrives, Free, Idle, Threads, RecordingInv, RecordingTypeOK
  <1>2. /\ UNCHANGED <<local, recordingQueue, requests, session, draft, notice, events, asks, troubles>>
        /\ offers' \subseteq Nat
    BY DEF TokenArrives, server, bounds, RecordingInv, RecordingTypeOK
  <1>3. CASE local = None
    <2>1. task' = task
      BY <1>3 DEF TokenArrives
    <2>2. RecordingTypeOK'
      BY <1>2, <2>1 DEF RecordingInv, RecordingTypeOK
    <2> QED BY <1>2, <2>1, <2>2, Beside
  <1>4. CASE local # None
    <2> DEFINE b == [local EXCEPT !.token = n, !.expired = FALSE]
               op == IF local.seq > 0 THEN "checkpoint" ELSE None
    <2>1. b \in Buffer
      BY <1>1, <1>4 DEF RecordingInv, RecordingTypeOK, Buffer
    <2>2. op \in Calls \cup {"again", None} /\ Hold("token", b, op)
      BY <1>4 DEF TokenArrives, Calls
    <2> HIDE DEF b, op
    <2>3. task' \in [Threads -> Task \cup {None}] /\ (RecordingTypeOK' => RecordingInv')
      BY <1>1, <1>2, <2>1, <2>2, HoldKeeps
    <2> QED BY <1>2, <2>3 DEF RecordingInv, RecordingTypeOK
  <1> QED BY <1>3, <1>4

-----------------------------------------------------------------------------
(* A handler that asks the API.                                            *)

LEMMA FreshKeeps == ASSUME RecordingInv, Fresh PROVE RecordingInv'
  <1> DEFINE old == task["stop"].snap
             b == IF local = None THEN old
                  ELSE [local EXCEPT !.expired = @ \/ old.expired, !.routed = @ \/ old.routed]
  <1>1. task["stop"] \in Task /\ task["stop"].pc = "again" /\ "stop" \in Threads
    BY DEF Fresh, Idle, Threads, RecordingInv, RecordingTypeOK
  <1>2. old \in Buffer /\ local \in Buffer \cup {None}
    BY <1>1 DEF Task, RecordingInv, RecordingTypeOK
  <1>3. old.expired \in BOOLEAN /\ old.routed \in BOOLEAN
    BY <1>2 DEF Buffer
  <1>4. b \in Buffer
    BY <1>2, <1>3 DEF Buffer
  <1>5. Send("stop", b, "options") /\ "options" \in Calls
    BY DEF Fresh, Calls
  <1> HIDE DEF b, old
  <1>6. UNCHANGED <<local, recordingQueue, session, draft, notice, offers, events, asks, troubles>>
    BY DEF Fresh, server, page, bounds
  <1>7. /\ task' \in [Threads -> Task \cup {None}] /\ requests' \subseteq Request
        /\ RecordingTypeOK' => RecordingInv'
    BY <1>1, <1>4, <1>5, <1>6, SendKeeps
  <1> QED BY <1>6, <1>7 DEF RecordingInv, RecordingTypeOK

LEMMA DetachKeeps == ASSUME RecordingInv, Detach PROVE RecordingInv'
  <1>1. local \in Buffer /\ task["stop"] = None /\ "stop" \in Threads
    BY DEF Detach, Free, Idle, Threads, RecordingInv, RecordingTypeOK
  <1>2. Send("stop", local, "options") /\ "options" \in Calls
    BY DEF Detach, Calls
  <1>3. UNCHANGED <<local, recordingQueue, session, draft, notice, offers>>
    BY DEF Detach, server, page
  <1>4. /\ task' \in [Threads -> Task \cup {None}] /\ requests' \subseteq Request
        /\ RecordingTypeOK' => RecordingInv'
    BY <1>1, <1>2, <1>3, SendKeeps
  <1> QED BY <1>3, <1>4, Counted DEF Detach, RecordingInv, RecordingTypeOK

LEMMA SavingKeeps == ASSUME RecordingInv, SaveRecording PROVE RecordingInv'
  <1>1. local \in Buffer /\ task["save"] = None /\ "save" \in Threads
    BY DEF SaveRecording, Free, Idle, Threads, RecordingInv, RecordingTypeOK
  <1>2. PICK op \in Calls : Send("save", local, op)
    BY DEF SaveRecording, Calls
  <1>3. UNCHANGED <<local, recordingQueue, session, draft, notice, offers>>
    BY DEF SaveRecording, server, page
  <1>4. /\ task' \in [Threads -> Task \cup {None}] /\ requests' \subseteq Request
        /\ RecordingTypeOK' => RecordingInv'
    BY <1>1, <1>2, <1>3, SendKeeps
  <1> QED BY <1>3, <1>4, Counted DEF SaveRecording, RecordingInv, RecordingTypeOK

LEMMA PreparedKeeps == ASSUME RecordingInv, Prepared PROVE RecordingInv'
  <1>1. task["save"] \in Task /\ task["save"].pc # "waiting" /\ "save" \in Threads
    BY DEF Prepared, Idle, Threads, RecordingInv, RecordingTypeOK
  <1>2. task["save"].snap \in Buffer
    BY <1>1 DEF Task
  <1>3. Send("save", task["save"].snap, "finalize") /\ "finalize" \in Calls
    BY DEF Prepared, Calls
  <1>4. UNCHANGED <<local, recordingQueue, session, draft, notice, offers, events, asks, troubles>>
    BY DEF Prepared, server, page, bounds
  <1>5. /\ task' \in [Threads -> Task \cup {None}] /\ requests' \subseteq Request
        /\ RecordingTypeOK' => RecordingInv'
    BY <1>1, <1>2, <1>3, <1>4, SendKeeps
  <1> QED BY <1>4, <1>5 DEF RecordingInv, RecordingTypeOK

-----------------------------------------------------------------------------
(* What a handler writes, and what is asked of nobody.                     *)

LEMMA WriteKeeps == ASSUME RecordingInv, NEW t \in Threads, Write(t) PROVE RecordingInv'
  <1>1. task[t] \in Task /\ task[t].pc = "held" /\ local' = task[t].snap
    BY DEF Write, Idle, RecordingInv, RecordingTypeOK
  <1>2. task[t].snap \in Buffer
    BY <1>1 DEF Task
  <1>3. UNCHANGED <<recordingQueue, session, draft, notice, offers, events, asks, troubles>>
    BY DEF Write, server, page, bounds
  <1>4. CASE task[t].op = "checkpoint"
    <2>1. Send(t, task[t].snap, "checkpoint") /\ "checkpoint" \in Calls
      BY <1>4 DEF Write, Calls
    <2>2. /\ task' \in [Threads -> Task \cup {None}] /\ requests' \subseteq Request
          /\ RecordingTypeOK' => RecordingInv'
      BY <1>1, <1>2, <1>3, <2>1, SendKeeps
    <2> QED BY <1>1, <1>2, <1>3, <2>2 DEF RecordingInv, RecordingTypeOK
  <1>5. CASE task[t].op # "checkpoint"
    <2> DEFINE k == [task[t] EXCEPT !.pc = "again"]
    <2>1. k \in Task /\ k.pc = "again"
      BY <1>1 DEF Task
    <2>2. (task' = [task EXCEPT ![t] = k] \/ task' = [task EXCEPT ![t] = None]) /\ UNCHANGED requests
      <3>1. CASE task[t].op = "again"
        BY <3>1 DEF Write
      <3>2. CASE task[t].op # "again"
        BY <1>5, <3>2 DEF Write
      <3> QED BY <3>1, <3>2
    <2> HIDE DEF k
    <2>3. task' \in [Threads -> Task \cup {None}]
      BY <2>1, <2>2 DEF RecordingInv, RecordingTypeOK
    <2>4. RecordingTypeOK'
      BY <1>1, <1>2, <1>3, <2>2, <2>3 DEF RecordingInv, RecordingTypeOK
    <2>5. \A r \in requests : r.by # t \/ r.by = None
      BY <1>1, NoneOnItsWay
    <2> QED BY <1>3, <2>1, <2>2, <2>4, <2>5, TasksOnly
  <1> QED BY <1>4, <1>5

LEMMA DeniedKeeps == ASSUME RecordingInv, NEW t \in Threads, Denied(t) PROVE RecordingInv'
  <1> DEFINE b == [task[t].snap EXCEPT !.expired = TRUE]
             k == IF task[t].op = "options" THEN [task[t] EXCEPT !.snap = b, !.pc = "end"] ELSE None
  <1>1. task[t] \in Task /\ task[t].pc = "denied"
    BY DEF Denied, Idle, RecordingInv, RecordingTypeOK
  <1>2. b \in Buffer
    BY <1>1 DEF Task, Buffer
  <1>3. local' = b /\ task' = [task EXCEPT ![t] = k]
    BY DEF Denied, RecordingInv, RecordingTypeOK
  <1> HIDE DEF b
  <1>4. (k \in Task /\ k.pc = "end") \/ k = None
    BY <1>1, <1>2 DEF Task
  <1> HIDE DEF k
  <1>5. notice' = TRUE /\ UNCHANGED <<recordingQueue, requests, session, draft, offers, events, asks, troubles>>
    BY DEF Denied, server, bounds
  <1>6. RecordingTypeOK'
    BY <1>2, <1>3, <1>4, <1>5 DEF RecordingInv, RecordingTypeOK
  <1>7. \A r \in requests : r.by # t \/ r.by = None
    BY <1>1, NoneOnItsWay
  <1> QED BY <1>3, <1>4, <1>5, <1>6, <1>7, TasksOnly

LEMMA EndKeeps == ASSUME RecordingInv, NEW t \in Threads, End(t) PROVE RecordingInv'
  <1>1. task[t] \in Task /\ task[t].pc = "end"
    BY DEF End, Idle, RecordingInv, RecordingTypeOK
  <1>2. local' \in Buffer /\ task' = [task EXCEPT ![t] = None]
    BY <1>1 DEF End, Task, Buffer
  <1>3. UNCHANGED <<recordingQueue, requests, session, draft, notice, offers, events, asks, troubles>>
    BY DEF End, server, page, bounds
  <1>4. RecordingTypeOK'
    BY <1>2, <1>3 DEF RecordingInv, RecordingTypeOK
  <1>5. \A r \in requests : r.by # t \/ r.by = None
    BY <1>1, NoneOnItsWay
  <1> QED BY <1>2, <1>3, <1>4, <1>5, TasksOnly

LEMMA SavedKeeps == ASSUME RecordingInv, Saved PROVE RecordingInv'
  <1>1. task["save"].pc = "granted" /\ "save" \in Threads
    BY DEF Saved, Threads
  <1>2. local' = None /\ task' = [task EXCEPT !["save"] = None]
    BY DEF Saved
  <1>3. UNCHANGED <<recordingQueue, requests, session, draft, notice, offers, events, asks, troubles>>
    BY DEF Saved, server, page, bounds
  <1>4. RecordingTypeOK'
    BY <1>1, <1>2, <1>3 DEF RecordingInv, RecordingTypeOK
  <1>5. \A r \in requests : r.by # "save" \/ r.by = None
    BY <1>1, NoneOnItsWay
  <1> QED BY <1>1, <1>2, <1>3, <1>4, <1>5, TasksOnly

LEMMA ReloadKeeps == ASSUME RecordingInv, Reload PROVE RecordingInv'
  <1>1. RecordingTypeOK'
    BY DEF Reload, server, bounds, RecordingInv, RecordingTypeOK
  <1> QED BY <1>1, Beside DEF Reload, server

LEMMA DiscardKeeps == ASSUME RecordingInv, Discard PROVE RecordingInv'
  <1>1. RecordingTypeOK'
    BY Counted DEF Discard, server, page, RecordingInv, RecordingTypeOK
  <1> QED BY <1>1, Beside DEF Discard, server

LEMMA MintKeeps == ASSUME RecordingInv, mint_session PROVE RecordingInv'
  <1>1. session.token + 1 \in Nat
    BY DEF RecordingInv, RecordingTypeOK
  <1>2. RecordingTypeOK' /\ session'.finalized = session.finalized
    BY <1>1 DEF mint_session, bounds, RecordingInv, RecordingTypeOK
  <1> QED BY <1>2, Beside DEF mint_session

LEMMA LapseKeeps == ASSUME RecordingInv, Lapse PROVE RecordingInv'
  <1>1. RecordingTypeOK' /\ session'.finalized = session.finalized
    BY Counted DEF Lapse, page, RecordingInv, RecordingTypeOK
  <1> QED BY <1>1, Beside DEF Lapse

-----------------------------------------------------------------------------
(* Answers.                                                                *)

(* What LeftAfter leaves of a handler that waited.                         *)
LEMMA LeftIs ==
    ASSUME NEW k \in Task, k.op \in Calls, NEW a \in {"granted", "denied", "refused", "failed"},
           LeftAfter(k, a) # None
    PROVE  /\ LeftAfter(k, a) \in Task /\ LeftAfter(k, a).op = k.op
           /\ LeftAfter(k, a).pc \in {"end", "granted", "denied"}
           /\ LeftAfter(k, a).pc = "granted" => a = "granted"
  <1>1. CASE k.op = "checkpoint"
    BY <1>1 DEF LeftAfter, Task
  <1>2. CASE k.op = "options"
    BY <1>2 DEF LeftAfter, Task
  <1>3. CASE k.op \in {"prepare", "finalize"}
    BY <1>3 DEF LeftAfter, Task
  <1> QED BY <1>1, <1>2, <1>3 DEF Calls

(* A handler gets its answer, and no request of its own is left.           *)
LEMMA AnswerKeeps ==
    ASSUME RecordingInv, RecordingTypeOK', NEW t \in Threads, NEW k, task' = [task EXCEPT ![t] = k],
           k # None => /\ k.pc \in {"end", "granted", "denied"}
                       /\ k.pc = "granted" /\ k.op = "finalize" => session'.finalized,
           \A r \in requests' : r.by # None => r \in requests /\ r.by # t,
           session.finalized => session'.finalized
    PROVE  RecordingInv'
  <1>1. task \in [Threads -> Task \cup {None}] /\ requests' \subseteq Request
    BY DEF RecordingInv, RecordingTypeOK
  <1>2. \A u \in Threads : task'[u] = IF u = t THEN k ELSE task[u]
    BY <1>1
  <1>3. \A r \in requests' : r.by # None => r.by \in Threads
    BY <1>1 DEF Request
  <1>4. Awaited'
    BY <1>2, <1>3 DEF RecordingInv, Awaited
  <1>5. OneEach'
    BY DEF RecordingInv, OneEach
  <1>6. Honest'
    BY <1>2 DEF RecordingInv, Honest
  <1> QED BY <1>4, <1>5, <1>6 DEF RecordingInv

(* Requests nobody waits for any more.                                     *)
LEMMA OrphansAre ==
    ASSUME RecordingTypeOK, NEW of \in SUBSET requests
    PROVE  \A r \in {[q EXCEPT !.by = None] : q \in of} : r \in Request /\ r.by = None
  <1>1. of \subseteq Request
    BY DEF RecordingTypeOK
  <1>2. ASSUME NEW q \in of
        PROVE  [q EXCEPT !.by = None] \in Request /\ [q EXCEPT !.by = None].by = None
    BY <1>1 DEF Request
  <1> QED BY <1>2

LEMMA FailKeeps == ASSUME RecordingInv, NEW t \in Threads, Fail(t) PROVE RecordingInv'
  <1> DEFINE k == LeftAfter(task[t], "failed")
             own == {[r EXCEPT !.by = None] : r \in {q \in requests : q.by = t}}
  <1>1. task[t] \in Task /\ task[t].op \in Calls
    BY DEF Fail, Idle, RecordingInv, RecordingTypeOK, Honest
  <1>2. k # None => k \in Task /\ k.pc \in {"end", "denied"}
    BY <1>1, LeftIs
  <1>3. task' = [task EXCEPT ![t] = k]
    BY DEF Fail, Answered
  <1> HIDE DEF k
  <1>4. PICK late \in {{}, own} : requests' = {r \in requests : r.by # t} \cup late
    BY DEF Fail
  <1>5. own \subseteq Request /\ \A r \in own : r.by = None
    BY OrphansAre DEF RecordingInv
  <1> HIDE DEF own
  <1>6. requests' \subseteq Request /\ \A r \in requests' : r.by # None => r \in requests /\ r.by # t
    BY <1>4, <1>5 DEF RecordingInv, RecordingTypeOK
  <1>7. UNCHANGED <<local, recordingQueue, session, draft, notice, offers>>
    BY DEF Fail, server, page
  <1>8. task' \in [Threads -> Task \cup {None}]
    BY <1>2, <1>3 DEF RecordingInv, RecordingTypeOK
  <1>9. RecordingTypeOK'
    BY <1>6, <1>7, <1>8, Counted DEF Fail, RecordingInv, RecordingTypeOK
  <1> QED BY <1>2, <1>3, <1>6, <1>7, <1>9, AnswerKeeps

LEMMA KillKeeps == ASSUME RecordingInv, Kill PROVE RecordingInv'
  <1>1. requests' \subseteq Request /\ \A r \in requests' : r.by = None
    BY OrphansAre DEF Kill, RecordingInv
  <1>2. task' = [t \in Threads |-> None] /\ recordingQueue' = <<>>
    BY DEF Kill
  <1>3. UNCHANGED <<local, session, draft, notice, offers>>
    BY DEF Kill, server, page
  <1>4. recordingQueue' \in Seq([kind : Event, id : Nat]) /\ task' \in [Threads -> Task \cup {None}]
    BY <1>2
  <1>5. RecordingTypeOK'
    BY <1>1, <1>3, <1>4, Counted DEF Kill, RecordingInv, RecordingTypeOK
  <1>6. Awaited' /\ OneEach' /\ Honest'
    BY <1>1, <1>2 DEF Awaited, OneEach, Honest
  <1> QED BY <1>5, <1>6 DEF RecordingInv

(* What the API writes.                                                    *)
LEMMA ServedIs ==
    ASSUME RecordingTypeOK, NEW r \in Request, NEW a \in {"granted", "denied", "refused"},
           CASE a = "granted" /\ r.op = "checkpoint" ->
                  session' = save_checkpoint(r) /\ UNCHANGED draft
             [] a = "granted" /\ r.op = "finalize" ->
                  session' = [session EXCEPT !.finalized = TRUE] /\ draft' = r.steps
             [] OTHER -> UNCHANGED server
    PROVE  /\ session' \in [token : Nat, lapsed : BOOLEAN, finalized : BOOLEAN,
                            seq : Nat, steps : Seq(Nat)]
           /\ draft' \in Seq(Nat) \cup {None}
           /\ session.finalized => session'.finalized
           /\ a = "granted" /\ r.op = "finalize" => session'.finalized
           /\ ~(a = "granted" /\ r.op \in {"checkpoint", "finalize"}) => UNCHANGED <<session, draft>>
           /\ session'.steps # session.steps => session'.seq > session.seq
  <1>0. r.seq \in Nat /\ r.steps \in Seq(Nat)
    BY DEF Request
  <1>1. CASE a = "granted" /\ r.op = "checkpoint"
    <2>1. session' = save_checkpoint(r) /\ draft' = draft
      BY <1>1
    <2> QED BY <1>0, <1>1, <2>1 DEF RecordingTypeOK, save_checkpoint
  <1>2. CASE a = "granted" /\ r.op = "finalize"
    <2>1. session' = [session EXCEPT !.finalized = TRUE] /\ draft' = r.steps
      BY <1>2
    <2> QED BY <1>0, <1>2, <2>1 DEF RecordingTypeOK
  <1>3. CASE ~(a = "granted" /\ r.op \in {"checkpoint", "finalize"})
    <2>1. UNCHANGED <<session, draft>>
      BY <1>3 DEF server
    <2> QED BY <1>3, <2>1 DEF RecordingTypeOK
  <1> QED BY <1>1, <1>2, <1>3

(* An answer is one of three, and a finalized session grants nothing.      *)
LEMMA AnswersAre ==
    ASSUME NEW r \in Request, NEW a \in AnswersTo(r)
    PROVE  /\ a \in {"granted", "denied", "refused"}
           /\ session.finalized => a # "granted"
  BY DEF AnswersTo, authorized_session

LEMMA ServeKeeps == ASSUME RecordingInv, NEW r \in requests, Serve(r) PROVE RecordingInv'
  <1>1. r \in Request /\ requests \subseteq Request /\ RecordingTypeOK
    BY DEF RecordingInv, RecordingTypeOK
  <1>2. PICK a \in AnswersTo(r) :
          /\ requests' = requests \ {r}
          /\ IF r.by = None THEN UNCHANGED task ELSE Answered(r.by, a)
          /\ CASE a = "granted" /\ r.op = "checkpoint" ->
                    session' = save_checkpoint(r) /\ UNCHANGED draft
               [] a = "granted" /\ r.op = "finalize" ->
                    session' = [session EXCEPT !.finalized = TRUE] /\ draft' = r.steps
               [] OTHER -> UNCHANGED server
    BY DEF Serve
  <1>3. a \in {"granted", "denied", "refused"}
    BY <1>1, AnswersAre
  <1>4. /\ session' \in [token : Nat, lapsed : BOOLEAN, finalized : BOOLEAN,
                         seq : Nat, steps : Seq(Nat)]
        /\ draft' \in Seq(Nat) \cup {None}
        /\ session.finalized => session'.finalized
        /\ a = "granted" /\ r.op = "finalize" => session'.finalized
    BY <1>1, <1>2, <1>3, ServedIs
  <1>5. UNCHANGED <<local, recordingQueue, notice, offers, events, asks, troubles>>
    BY DEF Serve, page, bounds
  <1>6. requests' \subseteq requests /\ r \notin requests'
    BY <1>2
  <1>7. CASE r.by = None
    <2>1. task' = task
      BY <1>2, <1>7
    <2>2. RecordingTypeOK'
      BY <1>1, <1>4, <1>5, <1>6, <2>1 DEF RecordingTypeOK
    <2>3. Awaited' /\ OneEach'
      BY <1>6, <2>1 DEF RecordingInv, Awaited, OneEach
    <2>4. Honest'
      BY <1>4, <2>1 DEF RecordingInv, Honest
    <2> QED BY <2>2, <2>3, <2>4 DEF RecordingInv
  <1>8. CASE r.by # None
    <2> DEFINE t == r.by
               k == LeftAfter(task[t], a)
    <2>1. t \in Threads /\ task[t] \in Task /\ task[t].op = r.op /\ r.op \in Calls
      BY <1>1, <1>8 DEF RecordingInv, RecordingTypeOK, Awaited, Request, Calls
    <2>2. task' = [task EXCEPT ![t] = k]
      BY <1>2, <1>8 DEF Answered
    <2>3. k # None => /\ k \in Task /\ k.op = r.op /\ k.pc \in {"end", "granted", "denied"}
                      /\ k.pc = "granted" => a = "granted"
      BY <1>3, <2>1, LeftIs
    <2> HIDE DEF k
    <2>4. task' \in [Threads -> Task \cup {None}]
      BY <2>2, <2>3 DEF RecordingInv, RecordingTypeOK
    <2>5. RecordingTypeOK'
      BY <1>1, <1>4, <1>5, <1>6, <2>4 DEF RecordingTypeOK
    <2>6. \A q \in requests' : q.by # None => q \in requests /\ q.by # t
      BY <1>6, <1>8 DEF RecordingInv, OneEach
    <2> HIDE DEF t
    <2> QED BY <1>4, <2>1, <2>2, <2>3, <2>5, <2>6, AnswerKeeps
  <1> QED BY <1>7, <1>8

-----------------------------------------------------------------------------
(* Together.                                                               *)

LEMMA InitHolds == RecordingInit => RecordingInv
  <1> SUFFICES ASSUME RecordingInit PROVE RecordingInv
    OBVIOUS
  <1>1. <<>> \in Seq(Nat) /\ recordingQueue \in Seq([kind : Event, id : Nat])
    BY DEF RecordingInit
  <1>2. local \in Buffer
    BY <1>1 DEF RecordingInit, Buffer
  <1>3. /\ session \in [token : Nat, lapsed : BOOLEAN, finalized : BOOLEAN,
                        seq : Nat, steps : Seq(Nat)]
        /\ task \in [Threads -> Task \cup {None}]
    BY <1>1 DEF RecordingInit
  <1>4. RecordingTypeOK
    BY <1>1, <1>2, <1>3 DEF RecordingInit, RecordingTypeOK
  <1>5. Awaited /\ OneEach /\ Honest
    BY DEF RecordingInit, Awaited, OneEach, Honest
  <1> QED BY <1>4, <1>5 DEF RecordingInv

LEMMA StepKeeps == RecordingInv /\ [RecordingNext]_recordingVars => RecordingInv'
  <1> SUFFICES ASSUME RecordingInv, [RecordingNext]_recordingVars PROVE RecordingInv'
    OBVIOUS
  <1>1. CASE \E e \in Event : Happen(e)
    BY <1>1, HappenKeeps
  <1>2. CASE Begin \/ Start \/ Capture \/ StopRecording \/ Fresh \/ Detach
    BY <1>2, BeginKeeps, StartingKeeps, CaptureKeeps, StopKeeps, FreshKeeps, DetachKeeps
  <1>3. CASE Discard \/ SaveRecording \/ Prepared \/ Saved
    BY <1>3, DiscardKeeps, SavingKeeps, PreparedKeeps, SavedKeeps
  <1>4. CASE \E t \in Threads : Write(t) \/ Fail(t) \/ Denied(t) \/ End(t)
    BY <1>4, WriteKeeps, FailKeeps, DeniedKeeps, EndKeeps
  <1>5. CASE Kill \/ Reload \/ mint_session \/ Lapse
    BY <1>5, KillKeeps, ReloadKeeps, MintKeeps, LapseKeeps
  <1>6. CASE \E k \in offers : TokenArrives(k)
    BY <1>6, TokenArrivesKeeps
  <1>7. CASE \E r \in requests : Serve(r)
    BY <1>7, ServeKeeps
  <1>8. CASE UNCHANGED recordingVars
    BY <1>8 DEF recordingVars, RecordingInv, RecordingTypeOK, Awaited, OneEach, Honest
  <1> QED BY <1>1, <1>2, <1>3, <1>4, <1>5, <1>6, <1>7, <1>8 DEF RecordingNext

LEMMA Invariance == RecordingSpec => []RecordingInv
  BY InitHolds, StepKeeps, PTL DEF RecordingSpec

(* Type correctness: the stored recording, the handlers, the requests and  *)
(* the session keep their shape, whatever is lost, late or killed.         *)
THEOREM TypeCorrect == RecordingSpec => []RecordingTypeOK
  <1>1. RecordingInv => RecordingTypeOK
    BY DEF RecordingInv
  <1> QED BY <1>1, Invariance, PTL

(* The only actions that change the session or the Draft.                  *)
LEMMA WhoWrites ==
    ASSUME RecordingNext
    PROVE  \/ UNCHANGED <<session, draft>>
           \/ mint_session \/ Lapse
           \/ \E r \in requests : Serve(r)
  <1>1. CASE \E e \in Event : Happen(e)
    BY <1>1 DEF Happen, server
  <1>2. CASE Begin \/ Start \/ Capture \/ StopRecording \/ Fresh \/ Detach
    BY <1>2 DEF Begin, Start, Capture, StopRecording, Fresh, Detach, server
  <1>3. CASE Discard \/ SaveRecording \/ Prepared \/ Saved
    BY <1>3 DEF Discard, SaveRecording, Prepared, Saved, server
  <1>4. CASE \E t \in Threads : Write(t) \/ Fail(t) \/ Denied(t) \/ End(t)
    BY <1>4 DEF Write, Fail, Denied, End, server
  <1>5. CASE Kill \/ Reload
    BY <1>5 DEF Kill, Reload, server
  <1>6. CASE \E k \in offers : TokenArrives(k)
    BY <1>6 DEF TokenArrives, server
  <1> QED BY <1>1, <1>2, <1>3, <1>4, <1>5, <1>6 DEF RecordingNext

(* What a request does to the session and the Draft.                       *)
LEMMA ServeWrites ==
    ASSUME RecordingTypeOK, NEW r \in requests, Serve(r)
    PROVE  /\ session.finalized => UNCHANGED <<session, draft>>
           /\ session'.steps # session.steps => session'.seq > session.seq
  <1>1. r \in Request
    BY DEF RecordingTypeOK
  <1>2. PICK a \in AnswersTo(r) :
          CASE a = "granted" /\ r.op = "checkpoint" ->
                 session' = save_checkpoint(r) /\ UNCHANGED draft
            [] a = "granted" /\ r.op = "finalize" ->
                 session' = [session EXCEPT !.finalized = TRUE] /\ draft' = r.steps
            [] OTHER -> UNCHANGED server
    BY DEF Serve
  <1>3. a \in {"granted", "denied", "refused"} /\ (session.finalized => a # "granted")
    BY <1>1, AnswersAre
  <1> QED BY <1>1, <1>2, <1>3, ServedIs

(* A finalized session and the Draft it wrote stay as they are, but for    *)
(* the lapse of the token: of any number of late checkpoints, repeated     *)
(* saves and renewals, none gets past authorized_session or mint_session.  *)
THEOREM FinalStays == RecordingSpec => FinalIsFinal
  <1>1. ASSUME RecordingTypeOK, [RecordingNext]_recordingVars, session.finalized
        PROVE  draft' = draft /\ [session' EXCEPT !.lapsed = session.lapsed] = session
    <2>0. [session EXCEPT !.lapsed = session.lapsed] = session
      BY <1>1 DEF RecordingTypeOK
    <2>1. CASE UNCHANGED <<session, draft>>
      BY <2>0, <2>1
    <2>2. CASE mint_session
      BY <1>1, <2>0, <2>2 DEF mint_session
    <2>3. CASE Lapse
      <3>1. session' = [session EXCEPT !.lapsed = TRUE] /\ draft' = draft
        BY <2>3 DEF Lapse
      <3> QED BY <1>1, <3>1 DEF RecordingTypeOK
    <2>4. CASE \E r \in requests : Serve(r)
      BY <1>1, <2>0, <2>4, ServeWrites
    <2> QED BY <1>1, <2>1, <2>2, <2>3, <2>4, WhoWrites DEF recordingVars
  <1>2. RecordingTypeOK /\ [RecordingNext]_recordingVars =>
          [session.finalized => draft' = draft /\ [session' EXCEPT !.lapsed = session.lapsed] = session]_recordingVars
    BY <1>1
  <1> QED BY <1>2, TypeCorrect, PTL DEF RecordingSpec, FinalIsFinal

(* The buffer of the API changes only for one with a higher seq, whatever  *)
(* order the checkpoints arrive in (save_checkpoint).                      *)
THEOREM BufferForward == RecordingSpec => BufferGoesForward
  <1>1. ASSUME RecordingTypeOK, [RecordingNext]_recordingVars, session'.steps # session.steps
        PROVE  session'.seq > session.seq
    <2>1. CASE mint_session
      BY <1>1, <2>1 DEF mint_session, RecordingTypeOK
    <2>2. CASE Lapse
      BY <1>1, <2>2 DEF Lapse, RecordingTypeOK
    <2>3. CASE \E r \in requests : Serve(r)
      BY <1>1, <2>3, ServeWrites
    <2> QED BY <1>1, <2>1, <2>2, <2>3, WhoWrites DEF recordingVars
  <1>2. RecordingTypeOK /\ [RecordingNext]_recordingVars =>
          [session'.steps # session.steps => session'.seq > session.seq]_recordingVars
    BY <1>1
  <1> QED BY <1>2, TypeCorrect, PTL DEF RecordingSpec, BufferGoesForward

(* A recording leaves the extension only discarded, or saved: the answer   *)
(* that removes it is the answer to its own finalize, which the API wrote. *)
THEOREM LeavesOnlySaved == RecordingSpec => LeavesSaved
  <1>1. ASSUME RecordingInv, [RecordingNext]_recordingVars, local # None, local' = None
        PROVE  session.finalized \/ Discard
    <2>1. CASE Saved
      <3>1. task["save"] # None /\ "save" \in Threads
        BY <2>1 DEF Saved, Idle, Threads
      <3> QED BY <1>1, <2>1, <3>1 DEF Saved, RecordingInv, Honest
    <2>2. ASSUME NEW t \in Threads, Write(t) \/ Denied(t) \/ End(t)
          PROVE  FALSE
      <3>1. task[t] \in Task
        BY <1>1, <2>2 DEF Write, Denied, End, Idle, RecordingInv, RecordingTypeOK
      <3>2. local' \in Buffer
        BY <2>2, <3>1 DEF Write, Denied, End, Task, Buffer
      <3> QED BY <1>1, <3>2, RecordingAssumption
    <2>3. CASE \E e \in Event : Happen(e)
      BY <1>1, <2>3 DEF Happen
    <2>4. CASE Begin \/ Start \/ Capture \/ StopRecording \/ Fresh \/ Detach \/ SaveRecording \/ Prepared
      BY <1>1, <2>4 DEF Begin, Start, Capture, StopRecording, Fresh, Detach, SaveRecording, Prepared
    <2>5. CASE \E t \in Threads : Fail(t)
      BY <1>1, <2>5 DEF Fail
    <2>6. CASE Kill \/ Reload \/ mint_session \/ Lapse
      BY <1>1, <2>6 DEF Kill, Reload, mint_session, Lapse
    <2>7. CASE (\E k \in offers : TokenArrives(k)) \/ (\E r \in requests : Serve(r))
      BY <1>1, <2>7 DEF TokenArrives, Serve
    <2>8. CASE UNCHANGED recordingVars
      BY <1>1, <2>8 DEF recordingVars
    <2> QED BY <1>1, <2>1, <2>2, <2>3, <2>4, <2>5, <2>6, <2>7, <2>8 DEF RecordingNext
  <1>2. RecordingInv /\ [RecordingNext]_recordingVars =>
          [local # None /\ local' = None => session.finalized \/ Discard]_recordingVars
    BY <1>1
  <1> QED BY <1>2, Invariance, PTL DEF RecordingSpec, LeavesSaved

-----------------------------------------------------------------------------
(* Clicks.                                                                 *)

\* A connect that was performed, or is being.
Performing == finish # None /\ finish.pc # "read"
Performed == Performing /\ finish.pc # "perform"

\* The click n is later than every click something has come of.
Later(n) ==
    /\ held # None => held.by < n
    /\ attempt # None => attempt.by < n
    /\ Performed => finish.took.by < n
    /\ \A s \in shakes : s.tab < n
    /\ \A t \in Clicks : tabs[t] # None \/ past.opened[t] > 0 => t < n

\* What is to come of clicks comes in their order, ...
InOrder ==
    /\ Later(clicks + 1)
    /\ At("perform") => finish.took.by <= clicks /\ Later(finish.took.by)
    /\ intent # None =>
         /\ intent.by <= clicks /\ Later(intent.by)
         /\ At("perform") => finish.took.by < intent.by
    /\ announcing # None =>
         /\ announcing.by <= clicks /\ Later(announcing.by)
         /\ At("perform") => finish.took.by < announcing.by
         /\ intent # None => intent.by < announcing.by
    /\ Performed => Later(finish.took.by + 1)

\* ... and the page of one that is being stored has met nobody yet.
Unmet ==
    At("store") =>
      /\ held # None => held.by < finish.took.by
      /\ attempt # None => attempt.by < finish.took.by
      /\ \A s \in shakes : s.tab < finish.took.by
      /\ \A t \in Clicks : tabs[t] # None => t < finish.took.by \/ (t = finish.took.by /\ ~tabs[t].bridge)

\* A newer connection than the attempt that is left is being finished.
Newest ==
    held # None /\ attempt # None /\ ~past.broken =>
      \/ attempt.by > held.by
      \/ \E s \in shakes : s.pc = "kept"
      \/ At("forget")

\* What is stored or under way was clicked after c.
Announced(c) == announcing # None => announcing.by > c
Intended(c) == intent # None => intent.by > c
Taken(c) == Performing => finish.took.by > c
Attempted(c) == attempt # None => attempt.by > c
\* ... or is of S,
Shaken(c, S) == \A s \in shakes : s.pc = "accepted" => s.tab > c \/ s.tab \in S
Held(c, S) == held # None => held.by > c \/ held.by \in S
CutOff(c, S) == Announced(c) /\ Intended(c) /\ Taken(c) /\ Attempted(c) /\ Shaken(c, S) /\ Held(c, S)

\* While a Disconnect that found nothing under way is done, only what was clicked
\* after it is performed.
Parted ==
    parting # None /\ parting.by # None =>
      LET c == parting.by IN
      /\ c <= clicks /\ Announced(c) /\ Taken(c)
      /\ announcing = None /\ (prompt # None \/ (popup # None /\ popup.waits = "announced")) => Intended(c)
      /\ At("read") => Intended(c)
      /\ parting.pc = "intent" => Attempted(c)

\* A Disconnect, and a connect that is complete, cut off what was clicked before.
Cut ==
    /\ past.cut # None => past.cut <= clicks /\ CutOff(past.cut, past.spared)
    /\ past.settled <= clicks /\ CutOff(past.settled - 1, past.racing)

SameCut == /\ past'.cut = past.cut /\ past'.spared = past.spared
           /\ past'.settled = past.settled /\ past'.racing = past.racing

\* What may yet turn the pill is of a connection there was.
Pill ==
    /\ ConnectedTo(Home) => app.since
    /\ app.coming => app.since
    /\ \A s \in shakes : s.pc = "kept" /\ s.origin = Home => app.since
    /\ At("forget") /\ finish.took.origin = Home => app.since
    /\ app.waiting = {} /\ app.version = "found" => app.since
    /\ app.waiting # {} => app.latest \in app.waiting \/ app.version # "found"

ConnInv == ConnectionTypeOK /\ InOrder /\ OneTabPerClick /\ Unmet /\ Newest /\ Parted /\ Cut /\ Pill


-----------------------------------------------------------------------------
(* What there is at first.                                                 *)

\* None is none of what it is compared with.
LEMMA NonesApart == None \notin Origins /\ None \notin Answer /\ None # "prompt" /\ None # "announced"
                    /\ None # "finish" /\ None # "accepted" /\ None # "kept" /\ None # "connected" /\ None # "out_of_date"
  BY NoneAssumption DEF Answer

\* What is later than a click is later still for a later click.
LEMMA LaterStill ==
    ASSUME ConnectionTypeOK, NEW m \in Nat, NEW n \in Nat, m <= n, Later(m)
    PROVE  Later(n)
  <1>1. MaxClicks \in Nat
    BY BoundAssumption
  <1>2. held # None => held.by \in Nat
    BY <1>1 DEF ConnectionTypeOK, Clicks
  <1>3. attempt # None => attempt.by \in Nat
    BY <1>1 DEF ConnectionTypeOK, Clicks
  <1>4. Performed => finish.took.by \in Nat
    BY <1>1 DEF ConnectionTypeOK, Clicks, Performed, Performing, Finish, Intent
  <1>5. \A s \in shakes : s.tab \in Nat
    BY <1>1 DEF ConnectionTypeOK, Clicks
  <1>6. Clicks \subseteq Nat
    BY <1>1 DEF Clicks
  <1> QED BY <1>2, <1>3, <1>4, <1>5, <1>6 DEF Later

\* At first nobody has clicked.
LEMMA ConnInitHolds == ConnectionInit => ConnInv
  <1> SUFFICES ASSUME ConnectionInit PROVE ConnInv
    OBVIOUS
  <1>1. PICK on \in BOOLEAN :
          /\ held = IF on THEN [origin |-> Home, by |-> 0] ELSE None
          /\ access = IF on THEN {Home} ELSE {}
          /\ app = AppPage(on)
    BY DEF ConnectionInit
  <1>2. held \in [origin : Origins, by : Clicks \cup {0}] \cup {None} /\ access \subseteq Origins /\ app \in App
    BY <1>1, AddressAssumption DEF AppPage, App
  <1>3. past \in Past
    BY DEF ConnectionInit, Past
  <1>4. ConnectionTypeOK
    <2>1. left \in Budget /\ clicks \in 0 .. MaxClicks
      BY BoundAssumption DEF ConnectionInit
    <2>2. app.waiting \cup app.asked \subseteq 1 .. app.latest
      BY <1>1 DEF AppPage
    <2>3. tabs \in [Clicks -> Tab \cup {None}]
      BY DEF ConnectionInit
    <2> QED BY <1>2, <1>3, <2>1, <2>2, <2>3 DEF ConnectionInit, ConnectionTypeOK
  <1>5. InOrder /\ OneTabPerClick /\ Unmet
    <2>1. held # None => held.by = 0
      BY <1>1
    <2>2. \A t \in Clicks : tabs[t] = None /\ past.opened[t] = 0
      BY DEF ConnectionInit
    <2> QED BY <2>1, <2>2 DEF ConnectionInit, InOrder, Later, OneTabPerClick, Unmet, Performed, Performing, At
  <1>6. Newest /\ Parted /\ Cut
    BY DEF ConnectionInit, Newest, Parted, Cut, CutOff, Announced, Intended, Taken, Attempted, Performing, Shaken, Held
  <1>7. Pill
    <2>1. app.since = on /\ app.coming = FALSE /\ app.waiting = {} /\ (app.version = "found" => on)
      BY <1>1 DEF AppPage
    <2>2. ConnectedTo(Home) => on
      BY <1>1 DEF ConnectedTo
    <2> QED BY <2>1, <2>2 DEF ConnectionInit, Pill, At
  <1> QED BY <1>4, <1>5, <1>6, <1>7 DEF ConnInv

-----------------------------------------------------------------------------
(* What only goes away leaves the rest in order.                           *)

\* Clicks stay in order when no more comes of them, ...
LEMMA LessInOrder ==
    ASSUME InOrder, OneTabPerClick, Unmet,
           held' \in {held, None}, attempt' \in {attempt, None}, intent' \in {intent, None},
           announcing' = announcing, finish' \in {finish, None}, shakes' \subseteq shakes,
           \A t \in Clicks : tabs'[t] # None => tabs[t] # None /\ (tabs'[t].bridge => tabs[t].bridge),
           past'.opened = past.opened, clicks' = clicks
    PROVE  InOrder' /\ OneTabPerClick' /\ Unmet'
  <1>1. \A n : Later(n) => Later(n)'
    BY DEF Later, Performed, Performing
  <1>2. At("perform")' => At("perform") /\ finish' = finish
    BY DEF At
  <1>3. At("store")' => At("store") /\ finish' = finish
    BY DEF At
  <1>4. InOrder'
    BY <1>1, <1>2 DEF InOrder, Performed, Performing
  <1>5. OneTabPerClick'
    BY DEF OneTabPerClick
  <1>6. Unmet'
    BY <1>3 DEF Unmet
  <1> QED BY <1>4, <1>5, <1>6

\* ... what a Disconnect cut off stays cut off, ...
LEMMA LessCut ==
    ASSUME Cut,
           held' \in {held, None}, attempt' \in {attempt, None}, intent' \in {intent, None},
           announcing' = announcing, finish' \in {finish, None},
           \A s \in shakes' : s \in shakes \/ s.pc = "sent",
           SameCut, clicks' = clicks
    PROVE  Cut'
  <1>1. \A c, S : /\ Announced(c) => Announced(c)'
                  /\ Intended(c) => Intended(c)'
                  /\ Taken(c) => Taken(c)'
                  /\ Attempted(c) => Attempted(c)'
                  /\ Shaken(c, S) => Shaken(c, S)'
                  /\ Held(c, S) => Held(c, S)'
    BY DEF Announced, Intended, Taken, Attempted, Shaken, Held, CutOff, SameCut, Performing
  <1>2. ASSUME NEW c, NEW S, CutOff(c, S) PROVE CutOff(c, S)'
    <2>1. Announced(c)' /\ Intended(c)' /\ Taken(c)' /\ Attempted(c)'
      BY <1>1, <1>2 DEF CutOff
    <2>2. Shaken(c, S)' /\ Held(c, S)'
      BY <1>1, <1>2 DEF CutOff
    <2> QED BY <2>1, <2>2 DEF CutOff
  <1>3. past.cut # None => CutOff(past.cut, past.spared)'
    BY <1>2 DEF Cut, SameCut
  <1>4. CutOff(past.settled - 1, past.racing)'
    BY <1>2 DEF Cut, SameCut
  <1> QED BY <1>3, <1>4 DEF Cut, SameCut

\* ... as does what one under way will cut off, ...
LEMMA LessParted ==
    ASSUME Parted,
           parting' \in {parting, None}, announcing' = announcing, intent' \in {intent, None},
           finish' \in {finish, None}, attempt' \in {attempt, None}, clicks' = clicks,
           prompt' \in {prompt, None},
           popup' # None /\ popup'.waits = "announced" =>
             (popup # None /\ popup.waits = "announced") \/ prompt # None
    PROVE  Parted'
  <1>1. \A c : /\ Announced(c) => Announced(c)'
               /\ Intended(c) => Intended(c)'
               /\ Taken(c) => Taken(c)'
               /\ Attempted(c) => Attempted(c)'
    BY DEF Announced, Intended, Taken, Attempted, Performing
  <1>2. At("read")' => At("read")
    BY DEF At
  <1> QED BY <1>1, <1>2 DEF Parted

\* ... and an attempt that goes leaves none that is older.
LEMMA LessNew ==
    ASSUME Newest, held' \in {held, None}, attempt' \in {attempt, None},
           \/ attempt' = None
           \/ past'.broken
           \/ past'.broken = past.broken /\ shakes \subseteq shakes' /\ finish' = finish
    PROVE  Newest'
  BY DEF Newest, At

\* The app page is as it was, and so is what may turn its pill, or is gone.
LEMMA SamePill ==
    ASSUME Pill, app' = app, held' \in {held, None},
           \A s \in shakes' : s \in shakes \/ s.pc # "kept",
           finish' = finish \/ ~At("forget")'
    PROVE  Pill'
  BY DEF Pill, ConnectedTo, At

-----------------------------------------------------------------------------
(* The popup.                                                              *)

Waits(w) == popup # None /\ popup.waits = w

\* What the popup shows is no matter to what it waits for, ...
LEMMA ShowIs == ASSUME NEW p \in Popup PROVE Show(p) \in Popup /\ Show(p).waits = p.waits
  BY DEF Show, Popup, Answer

\* ... nor is hearing of a stored connection, ...
LEMMA HearsIs ==
    ASSUME popup \in Popup \cup {None}
    PROVE  /\ Hears(popup) \in Popup \cup {None}
           /\ Hears(popup) # None => popup # None /\ Hears(popup).waits = popup.waits
  BY DEF Hears, Popup

\* ... and an answer that lands does not have it announce again.
LEMMA LandedIs ==
    ASSUME popup \in Popup \cup {None}, NEW a \in Answer
    PROVE  /\ landed(popup, a) \in Popup \cup {None}
           /\ landed(popup, a) # None /\ landed(popup, a).waits = "announced" => Waits("announced")
  <1>1. CASE popup = None \/ popup.waits # "finish"
    BY <1>1 DEF landed, Waits
  <1>2. CASE popup # None /\ popup.waits = "finish" /\ a \in {"late", "connected"}
    <2>1. [popup EXCEPT !.waits = None] \in Popup /\ [popup EXCEPT !.waits = None].waits = None
      BY <1>2 DEF Popup
    <2> QED BY <1>2, <2>1, ShowIs, NonesApart DEF landed
  <1>3. CASE popup # None /\ popup.waits = "finish" /\ a \notin {"late", "connected"}
    <2>1. [popup EXCEPT !.waits = None, !.says = a] \in Popup
          /\ [popup EXCEPT !.waits = None, !.says = a].waits = None
      BY <1>3 DEF Popup
    <2> QED BY <1>3, <2>1, NonesApart DEF landed
  <1> QED BY <1>1, <1>2, <1>3

\* Acts and troubles leave a budget.
LEMMA SpentIs ==
    ASSUME left \in Budget, (\E op \in Op : Act(op)) \/ Trouble \/ UNCHANGED left
    PROVE  left' \in Budget
  <1>1. CASE \E op \in Op : Act(op)
    <2>1. left' = [left EXCEPT !.acts = left.acts - 1] /\ left.acts > 0
      BY <1>1 DEF Act
    <2>2. left.acts - 1 \in Nat
      BY <2>1 DEF Budget
    <2> QED BY <2>1, <2>2 DEF Budget
  <1>2. CASE Trouble
    <2>1. left' = [left EXCEPT !.troubles = left.troubles - 1] /\ left.troubles > 0
      BY <1>2 DEF Trouble
    <2>2. left.troubles - 1 \in Nat
      BY <2>1 DEF Budget
    <2> QED BY <2>1, <2>2 DEF Budget
  <1> QED BY <1>1, <1>2

\* A popup that opens, closes or looks again.
LEMMA LooksKeep == ASSUME ConnInv, OpenPopup \/ ClosePopup \/ Refresh PROVE ConnInv'
  <1>1. UNCHANGED <<storage, worker, announcing, prompt, access, pages, clicks, past, left>>
    BY DEF OpenPopup, ClosePopup, Refresh
  <1>2. popup' \in Popup \cup {None} /\ (popup' # None /\ popup'.waits = "announced" => Waits("announced"))
    <2>1. CASE OpenPopup
      <3>1. PICK p : p = [shows |-> "connect", due |-> FALSE, waits |-> None, says |-> None]
        OBVIOUS
      <3>2. p \in Popup /\ p.waits = None
        BY <3>1 DEF Popup
      <3>3. popup' = Show(p)
        BY <2>1, <3>1 DEF OpenPopup
      <3> QED BY <3>2, <3>3, ShowIs, NonesApart
    <2>2. CASE ClosePopup
      BY <2>2 DEF ClosePopup
    <2>3. CASE Refresh
      BY <2>3, ShowIs DEF Refresh, Waits, ConnInv, ConnectionTypeOK
    <2> QED BY <2>1, <2>2, <2>3
  <1>3. ConnectionTypeOK'
    BY <1>1, <1>2 DEF ConnInv, ConnectionTypeOK, storage, worker, pages
  <1>4. InOrder' /\ OneTabPerClick' /\ Unmet' /\ Cut' /\ Newest'
    BY <1>1, LessInOrder, LessCut, LessNew DEF ConnInv, SameCut, storage, worker, pages
  <1>5. Parted'
    BY <1>1, <1>2, LessParted DEF ConnInv, storage, worker, pages, Waits
  <1>6. Pill'
    BY <1>1, SamePill DEF ConnInv, storage, worker, pages
  <1> QED BY <1>3, <1>4, <1>5, <1>6 DEF ConnInv

\* A click is announced, later than all that came before.
LEMMA ConnectKeeps ==
    ASSUME ConnInv, NEW typed \in Addresses, NEW how \in {"page", "code"}, Connect(typed, how)
    PROVE  ConnInv'
  <1>0. PICK o : o = readInstanceUrl(typed)
    OBVIOUS
  <1>1. /\ UNCHANGED <<storage, worker, access, pages, past>>
        /\ popup # None /\ popup \in Popup /\ announcing = None /\ prompt = None /\ Act("connect")
    BY DEF Connect, ConnInv, ConnectionTypeOK
  <1>2. left' \in Budget
    BY <1>1, SpentIs DEF Op, ConnInv, ConnectionTypeOK
  <1>3. CASE o = None
    <2>1. popup' = [popup EXCEPT !.says = "bad-address"] /\ UNCHANGED <<announcing, prompt, clicks>>
      BY <1>0, <1>3 DEF Connect
    <2>2. popup' \in Popup /\ popup'.waits = popup.waits
      BY <1>1, <2>1 DEF Popup, Answer
    <2>3. ConnectionTypeOK'
      BY <1>1, <1>2, <2>1, <2>2 DEF ConnInv, ConnectionTypeOK, storage, worker, pages
    <2>4. InOrder' /\ OneTabPerClick' /\ Unmet' /\ Cut' /\ Newest'
      BY <1>1, <2>1, LessInOrder, LessCut, LessNew DEF ConnInv, SameCut, storage, worker, pages
    <2>5. Parted'
      BY <1>1, <2>1, <2>2, LessParted DEF ConnInv, storage, worker, pages
    <2>6. Pill'
      BY <1>1, SamePill DEF ConnInv, storage, worker, pages
    <2> QED BY <2>3, <2>4, <2>5, <2>6 DEF ConnInv
  <1>4. CASE o # None
    <2>1. /\ clicks' = clicks + 1 /\ clicks < MaxClicks
          /\ announcing' = [origin |-> o, how |-> how, by |-> clicks + 1,
                            good |-> code = "issued" /\ o = Home]
          /\ prompt' = IF o \in access THEN None ELSE o
          /\ popup' = [popup EXCEPT !.waits = IF o \in access THEN "announced" ELSE "prompt",
                                    !.says = None]
      BY <1>0, <1>4 DEF Connect
    <2>2. o \in Origins
      BY <1>0, <1>4, AddressAssumption DEF readInstanceUrl
    <2>3. clicks \in Nat /\ MaxClicks \in Nat /\ clicks + 1 \in Clicks
      BY <2>1, BoundAssumption DEF ConnInv, ConnectionTypeOK, Clicks
    <2>4. announcing' \in Intent /\ announcing'.by = clicks + 1 /\ announcing' # None
      <3>1. PICK g \in BOOLEAN : g = (code = "issued" /\ o = Home)
        OBVIOUS
      <3>2. announcing' = [origin |-> o, how |-> how, by |-> clicks + 1, good |-> g]
        BY <2>1, <3>1
      <3>3. announcing' \in Intent /\ announcing'.by = clicks + 1
        BY <2>2, <2>3, <3>2 DEF Intent
      <3> QED BY <3>3, NoneAssumption
    <2>5. popup' \in Popup
      BY <1>1, <2>1 DEF Popup
    <2>6. ConnectionTypeOK'
      BY <1>1, <1>2, <2>1, <2>2, <2>3, <2>4, <2>5 DEF ConnInv, ConnectionTypeOK, storage, worker, pages, Clicks
    <2>7. \A n : Later(n) => Later(n)'
      BY <1>1 DEF Later, Performed, Performing, storage, worker, pages
    <2>8. PICK m, n : m = clicks + 1 /\ n = clicks + 2
      OBVIOUS
    <2>14. Later(m)' /\ Later(n)' /\ clicks' + 1 = n
      <3>1. Later(m) /\ m \in Nat /\ n \in Nat /\ m <= n /\ clicks' + 1 = n
        BY <2>1, <2>3, <2>8 DEF ConnInv, InOrder, Performed, Performing
      <3>2. Later(n)
        BY <3>1, LaterStill DEF ConnInv
      <3> QED BY <2>7, <3>1, <3>2
    <2>9. InOrder'
      <3>1. At("perform")' = At("perform")
        BY <1>1 DEF At, worker
      <3>2. finish' = finish /\ intent' = intent /\ Later(clicks + 1)'
        BY <1>1, <2>14 DEF storage, worker
      <3>3. (intent # None => intent.by \in Nat) /\ (At("perform") => finish.took.by \in Nat)
        BY BoundAssumption DEF ConnInv, ConnectionTypeOK, Intent, Finish, At, Clicks
      <3> QED BY <2>1, <2>3, <2>4, <2>7, <2>8, <2>14, <3>1, <3>2, <3>3 DEF ConnInv, InOrder, Performed, Performing
    <2>10. OneTabPerClick' /\ Unmet' /\ Newest'
      BY <1>1 DEF ConnInv, OneTabPerClick, Unmet, Newest, At, storage, worker, pages
    <2>11. Parted'
      <3>1. parting # None /\ parting.by # None => parting.by \in Nat
        BY DEF ConnInv, ConnectionTypeOK
      <3>2. \A c : Taken(c)' = Taken(c) /\ Attempted(c)' = Attempted(c) /\ Intended(c)' = Intended(c)
        BY <1>1 DEF Intended, Taken, Attempted, Performing, storage, worker
      <3>3. At("read")' = At("read") /\ parting' = parting
        BY <1>1 DEF At, worker
      <3> QED BY <2>1, <2>3, <2>4, <3>1, <3>2, <3>3 DEF ConnInv, Parted, Announced
    <2>12. Cut'
      <3>1. \A c, S : CutOff(c, S) /\ c < clicks + 1 => CutOff(c, S)'
        BY <1>1, <2>4 DEF Announced, Intended, Taken, Attempted, Performing, Shaken, Held, CutOff, storage, worker
      <3>2. past.settled \in Nat /\ (past.cut # None => past.cut \in Nat)
        BY DEF ConnInv, ConnectionTypeOK, Past
      <3>3. past.cut # None => past.cut <= clicks' /\ CutOff(past.cut, past.spared)'
        BY <1>1, <2>1, <2>3, <3>1, <3>2 DEF ConnInv, Cut
      <3>4. past.settled <= clicks' /\ past.settled - 1 < clicks + 1 /\ CutOff(past.settled - 1, past.racing)
        BY <2>1, <2>3, <3>2 DEF ConnInv, Cut
      <3>5. CutOff(past.settled - 1, past.racing)'
        BY <1>1, <3>1, <3>4
      <3> QED BY <1>1, <3>3, <3>4, <3>5 DEF Cut
    <2>13. Pill'
      BY <1>1, SamePill DEF ConnInv, storage, worker, pages
    <2> QED BY <2>6, <2>9, <2>10, <2>11, <2>12, <2>13 DEF ConnInv
  <1> QED BY <1>3, <1>4

\* The announcement arrives, and takes the place of an older one.
LEMMA AnnounceKeeps == ASSUME ConnInv, announce PROVE ConnInv'
  <1>1. /\ announcing # None /\ intent' = announcing /\ announcing' = None
        /\ UNCHANGED <<held, attempt, worker, popup, prompt, access, pages, clicks, past, left>>
    BY DEF announce
  <1>2. UNCHANGED <<held, attempt, finish, shakes, parting, leaving, tabs, app, code>>
    BY <1>1 DEF worker, pages
  <1>3. \A n : Later(n)' = Later(n)
    BY <1>1, <1>2 DEF Later, Performed, Performing
  <1>4. ConnectionTypeOK'
    BY <1>1, <1>2 DEF ConnInv, ConnectionTypeOK
  <1>5. InOrder'
    BY <1>1, <1>2, <1>3 DEF ConnInv, InOrder, At, Performed, Performing
  <1>6. OneTabPerClick' /\ Unmet' /\ Newest'
    BY <1>1, <1>2 DEF ConnInv, OneTabPerClick, Unmet, Newest, At
  <1>7. Parted'
    BY <1>1, <1>2 DEF ConnInv, Parted, Announced, Intended, Taken, Attempted, Performing, At
  <1>8. Cut'
    BY <1>1, <1>2 DEF ConnInv, Cut, Announced, Intended, Taken, Attempted, Performing, Shaken, Held, CutOff, SameCut
  <1>9. Pill'
    BY <1>1, <1>2, SamePill DEF ConnInv
  <1> QED BY <1>4, <1>5, <1>6, <1>7, <1>8, <1>9 DEF ConnInv

\* A connect begins: there is at most one, and after a Disconnect only that of a
\* click after it.
LEMMA BeginsKeep ==
    ASSUME ConnInv, NEW origins \in {None} \cup (SUBSET Origins), finishConnect(origins),
           announcing = None, prompt # None \/ Waits("announced"),
           popup' \in Popup \cup {None}, prompt' \in {prompt, None}, access' \subseteq Origins,
           UNCHANGED <<storage, shakes, parting, leaving, announcing, pages, clicks, left>>
    PROVE  ConnInv'
  <1>1. UNCHANGED <<held, attempt, intent, shakes, parting, tabs, app, code>>
    BY DEF storage, pages
  <1>2. CASE finish # None
    <2>1. UNCHANGED <<finish, past>>
      BY <1>2 DEF finishConnect
    <2>2. ConnectionTypeOK'
      BY <1>1, <2>1 DEF ConnInv, ConnectionTypeOK
    <2>3. InOrder' /\ OneTabPerClick' /\ Unmet' /\ Cut' /\ Newest'
      BY <1>1, <2>1, LessInOrder, LessCut, LessNew DEF ConnInv, SameCut
    <2>4. Parted'
      BY <1>1, <2>1, LessParted DEF ConnInv, Waits
    <2>5. Pill'
      BY <1>1, <2>1, SamePill DEF ConnInv
    <2> QED BY <2>2, <2>3, <2>4, <2>5 DEF ConnInv
  <1>3. CASE finish = None
    <2>1. finish' = [pc |-> "read", origins |-> origins] /\ past' = [past EXCEPT !.granted = past.granted \cup {clicks}]
      BY <1>3 DEF finishConnect
    <2>2. finish' \in Finish /\ finish'.pc = "read"
      BY <2>1 DEF Finish
    <2>3. clicks \in Nat
      BY BoundAssumption DEF ConnInv, ConnectionTypeOK
    <2>4. /\ past' \in Past
          /\ past'.opened = past.opened /\ past'.broken = past.broken /\ SameCut
      BY <2>1, <2>3 DEF ConnInv, ConnectionTypeOK, Past, SameCut
    <2>5. ConnectionTypeOK'
      BY <1>1, <2>2, <2>4 DEF ConnInv, ConnectionTypeOK
    <2>6. \A n : Later(n)' = Later(n)
      BY <1>1, <1>3, <2>2, <2>4 DEF Later, Performed, Performing
    <2>7. InOrder' /\ OneTabPerClick' /\ Unmet' /\ Newest'
      BY <1>1, <1>3, <2>2, <2>4, <2>6 DEF ConnInv, InOrder, OneTabPerClick, Unmet, Newest, At, Performed, Performing
    <2>8. Parted'
      BY <1>1, <1>3, <2>2 DEF ConnInv, Parted, Announced, Intended, Taken, Attempted, Performing, At, Waits
    <2>9. Cut'
      BY <1>1, <1>3, <2>2, <2>4 DEF ConnInv, Cut, Announced, Intended, Taken, Attempted, Performing, Shaken, Held, CutOff, SameCut
    <2>10. Pill'
      BY <1>1, <2>2, SamePill DEF ConnInv, At
    <2> QED BY <2>5, <2>7, <2>8, <2>9, <2>10 DEF ConnInv
  <1> QED BY <1>2, <1>3

\* Chrome grants or declines, though the popup may be gone.
LEMMA AllowKeeps == ASSUME ConnInv, Allow PROVE ConnInv'
  <1>1. prompt \in Origins /\ announcing = None /\ access' = access \cup {prompt} /\ prompt' = None
    BY DEF Allow, ConnInv, ConnectionTypeOK
  <1>2. PICK origins : origins = {prompt}
    OBVIOUS
  <1>3. finishConnect(origins) /\ origins \in {None} \cup (SUBSET Origins)
    BY <1>1, <1>2 DEF Allow
  <1>4. popup' \in Popup \cup {None}
    BY DEF Allow, ConnInv, ConnectionTypeOK, Popup
  <1>5. access' \subseteq Origins /\ prompt # None
    BY <1>1 DEF Allow, ConnInv, ConnectionTypeOK
  <1> QED BY <1>1, <1>3, <1>4, <1>5, BeginsKeep DEF Allow

LEMMA PopupFinishesKeeps == ASSUME ConnInv, PopupFinishes PROVE ConnInv'
  <1>1. PICK origins : origins = None
    OBVIOUS
  <1>2. finishConnect(origins) /\ origins \in {None} \cup (SUBSET Origins)
    BY <1>1 DEF PopupFinishes
  <1>3. popup' \in Popup \cup {None} /\ Waits("announced")
    BY DEF PopupFinishes, ConnInv, ConnectionTypeOK, Popup, Waits
  <1>4. access' \subseteq Origins /\ prompt' = prompt /\ announcing = None
    BY DEF PopupFinishes, ConnInv, ConnectionTypeOK
  <1> QED BY <1>2, <1>3, <1>4, BeginsKeep DEF PopupFinishes

LEMMA DeclineKeeps == ASSUME ConnInv, Decline PROVE ConnInv'
  <1>1. /\ prompt' = None /\ intent' \in {intent, None}
        /\ UNCHANGED <<held, attempt, worker, announcing, access, pages, clicks, past, left>>
    BY DEF Decline
  <1>2. UNCHANGED <<finish, shakes, parting, leaving, tabs, app, code>>
    BY <1>1 DEF worker, pages
  <1>3. popup' \in Popup \cup {None} /\ (popup' # None /\ popup'.waits = "announced" => Waits("announced"))
    <2>1. CASE popup # None /\ popup.waits = "prompt"
      <3>1. popup' = [popup EXCEPT !.waits = None, !.says = "declined"] /\ popup \in Popup
        BY <2>1 DEF Decline, ConnInv, ConnectionTypeOK
      <3> QED BY <3>1, NonesApart DEF Popup, Answer
    <2>2. CASE ~(popup # None /\ popup.waits = "prompt")
      BY <2>2 DEF Decline, ConnInv, ConnectionTypeOK, Waits
    <2> QED BY <2>1, <2>2
  <1>4. ConnectionTypeOK'
    BY <1>1, <1>2, <1>3 DEF ConnInv, ConnectionTypeOK
  <1>5. InOrder' /\ OneTabPerClick' /\ Unmet' /\ Cut' /\ Newest'
    BY <1>1, <1>2, LessInOrder, LessCut, LessNew DEF ConnInv, SameCut
  <1>6. Parted'
    BY <1>1, <1>2, <1>3, LessParted DEF ConnInv, Waits
  <1>7. Pill'
    BY <1>1, <1>2, SamePill DEF ConnInv
  <1> QED BY <1>4, <1>5, <1>6, <1>7 DEF ConnInv

-----------------------------------------------------------------------------
(* A connect is performed.                                                 *)

\* The intent that is performed is of a click.
LEMMA TookIs ==
    ASSUME ConnectionTypeOK, Performing
    PROVE  /\ finish \in [pc : {"perform", "store", "inject", "fetch", "remember", "forget"}, took : Intent]
           /\ finish.took \in Intent /\ finish.took.by \in Clicks /\ finish.took.origin \in Origins
           /\ finish.took.by \in Nat
  <1>1. finish \in [pc : {"perform", "store", "inject", "fetch", "remember", "forget"}, took : Intent]
    BY DEF ConnectionTypeOK, Performing, Finish
  <1> QED BY <1>1, BoundAssumption DEF Intent, Clicks

\* It ends, and what was stored for it may go with it.
LEMMA LandsKeep ==
    ASSUME ConnInv, NEW a \in Answer, Land(a), ~At("forget"), code' \in {"none", "issued", "spent"},
           left' \in Budget,
           UNCHANGED <<storage, shakes, parting, leaving, announcing, prompt, access, tabs, app, clicks, past>>
    PROVE  ConnInv'
  <1>1. finish' = None /\ popup' \in Popup \cup {None}
        /\ (popup' # None /\ popup'.waits = "announced" => Waits("announced"))
    BY LandedIs DEF Land, ConnInv, ConnectionTypeOK
  <1>2. UNCHANGED <<held, attempt, intent>>
    BY DEF storage
  <1>3. ConnectionTypeOK'
    BY <1>1, <1>2 DEF ConnInv, ConnectionTypeOK
  <1>4. InOrder' /\ OneTabPerClick' /\ Unmet' /\ Cut'
    BY <1>1, <1>2, LessInOrder, LessCut DEF ConnInv, SameCut
  <1>5. Newest'
    BY <1>2 DEF ConnInv, Newest
  <1>6. Parted'
    BY <1>1, <1>2, LessParted DEF ConnInv, Waits
  <1>7. Pill'
    BY <1>1, <1>2, SamePill DEF ConnInv, At
  <1> QED BY <1>3, <1>4, <1>5, <1>6, <1>7 DEF ConnInv

\* The intent is taken once, whoever takes it first, ...
LEMMA TakeKeeps == ASSUME ConnInv, take PROVE ConnInv'
  <1>1. /\ At("read") /\ finish # None /\ finish.pc = "read"
        /\ UNCHANGED <<held, attempt, shakes, parting, leaving, announcing, prompt, access, pages, clicks, past, left>>
    BY DEF take, At
  <1>2. UNCHANGED <<tabs, app, code>>
    BY <1>1 DEF pages
  <1>3. CASE ~Takes
    <2>1. Land("late") /\ intent' = intent
      BY <1>3 DEF take
    <2> QED BY <1>1, <1>2, <2>1, LandsKeep DEF ConnInv, ConnectionTypeOK, Answer, At, storage
  <1>4. CASE Takes
    <2>1. intent # None /\ intent \in Intent /\ finish' = [pc |-> "perform", took |-> intent]
          /\ popup' = popup /\ intent' = None
      BY <1>4 DEF take, Takes, ConnInv, ConnectionTypeOK
    <2>2. finish' \in Finish /\ finish'.pc = "perform" /\ finish'.took = intent
      BY <2>1 DEF Finish
    <2>3. ConnectionTypeOK'
      BY <1>1, <1>2, <2>1, <2>2 DEF ConnInv, ConnectionTypeOK
    <2>4. \A n : Later(n)' = Later(n)
      BY <1>1, <1>2, <2>2 DEF Later, Performed, Performing
    <2>5. InOrder' /\ OneTabPerClick' /\ Unmet' /\ Newest'
      BY <1>1, <1>2, <2>1, <2>2, <2>4 DEF ConnInv, InOrder, OneTabPerClick, Unmet, Newest, At, Performed, Performing
    <2>6. Parted'
      BY <1>1, <1>2, <2>1, <2>2 DEF ConnInv, Parted, Announced, Intended, Taken, Attempted, Performing, At
    <2>7. Cut'
      BY <1>1, <1>2, <2>1, <2>2 DEF ConnInv, Cut, Announced, Intended, Taken, Attempted, Performing, Shaken, Held, CutOff, SameCut
    <2>8. Pill'
      BY <1>1, <1>2, <2>2, SamePill DEF ConnInv, At
    <2> QED BY <2>3, <2>5, <2>6, <2>7, <2>8 DEF ConnInv
  <1> QED BY <1>3, <1>4

\* A connect goes on to pc, which is neither the store of an attempt nor after that
\* of a connection.
LEMMA GoesOnKeeps ==
    ASSUME ConnInv, Performing, ~At("forget"),
           NEW pc \in {"inject", "fetch", "remember"}, finish' = [finish EXCEPT !.pc = pc],
           At("perform") => pc = "fetch",
           UNCHANGED <<held, attempt, intent, shakes, parting, announcing, prompt, access, leaving, popup, tabs,
                       app, clicks, past>>,
           left' \in Budget, code' \in {"none", "issued", "spent"}
    PROVE  ConnInv'
  <1>1. finish' \in Finish /\ finish'.pc = pc /\ finish'.took = finish.took /\ finish'.took \in Intent
    BY TookIs DEF ConnInv, Finish
  <1>2. ConnectionTypeOK'
    BY <1>1 DEF ConnInv, ConnectionTypeOK
  <1>4. ~At("perform")' /\ ~At("read")' /\ ~At("store")' /\ ~At("forget")'
    BY <1>1 DEF At
  <1>5. InOrder'
    <2>1. \A n : Later(n) /\ (At("perform") => finish.took.by < n) => Later(n)'
      BY <1>1 DEF Later, Performed, Performing, At
    <2>2. At("perform") => finish.took.by < clicks + 1
      BY TookIs, BoundAssumption DEF ConnInv, InOrder, ConnectionTypeOK, Performed, Performing
    <2>3. finish.took.by \in Nat /\ Later(finish.took.by + 1)
      <3>1. finish.took.by \in Nat
        BY TookIs, BoundAssumption DEF ConnInv, Clicks
      <3>2. CASE At("perform")
        <4>1. PICK n \in Nat : n = finish.took.by + 1
          BY <3>1
        <4>2. Later(finish.took.by) /\ finish.took.by <= n
          BY <3>1, <3>2, <4>1 DEF ConnInv, InOrder
        <4>3. Later(n)
          BY <3>1, <4>2, LaterStill DEF ConnInv
        <4> QED BY <3>1, <4>1, <4>3
      <3>3. CASE ~At("perform")
        <4>1. Performed
          BY <3>3 DEF Performed, Performing, At
        <4> QED BY <3>1, <4>1 DEF ConnInv, InOrder
      <3> QED BY <3>1, <3>2, <3>3
    <2>4. Later(finish.took.by + 1)'
      BY <1>1, <2>1, <2>3
    <2>5. Later(clicks + 1)'
      BY <2>1, <2>2 DEF ConnInv, InOrder
    <2>6. At("perform") => /\ (intent # None => finish.took.by < intent.by)
                           /\ (announcing # None => finish.took.by < announcing.by)
      BY DEF ConnInv, InOrder
    <2>7. /\ intent # None => Later(intent.by)'
          /\ announcing # None => Later(announcing.by)'
      BY <2>1, <2>6 DEF ConnInv, InOrder
    <2> QED BY <1>4, <2>4, <2>5, <2>7 DEF ConnInv, InOrder
  <1>6. OneTabPerClick' /\ Unmet' /\ Newest'
    BY <1>4 DEF ConnInv, OneTabPerClick, Unmet, Newest
  <1>7. \A c, S : /\ Announced(c)' = Announced(c) /\ Intended(c)' = Intended(c) /\ (Taken(c) => Taken(c)')
                  /\ Attempted(c)' = Attempted(c) /\ Shaken(c, S)' = Shaken(c, S) /\ Held(c, S)' = Held(c, S)
    BY <1>1 DEF Announced, Intended, Taken, Attempted, Performing, Shaken, Held, CutOff, SameCut
  <1>8. Parted' /\ Cut'
    BY <1>4, <1>7 DEF ConnInv, Parted, Cut, CutOff, SameCut
  <1>9. Pill'
    BY <1>4, SamePill DEF ConnInv
  <1> QED BY <1>2, <1>5, <1>6, <1>8, <1>9 DEF ConnInv

\* The connect page is opened: of this click, the first and only one.
LEMMA OpensKeep ==
    ASSUME ConnInv, At("perform"), NEW t, t = finish.took.by,
           tabs' = [tabs EXCEPT ![t] = NewTab(finish.took.origin)],
           past' = [past EXCEPT !.opened[t] = @ + 1],
           finish' = [finish EXCEPT !.pc = "store"],
           UNCHANGED <<storage, shakes, parting, leaving, popup, announcing, prompt, access, app, code, clicks, left>>
    PROVE  ConnInv'
  <1>1. UNCHANGED <<held, attempt, intent>>
    BY DEF storage
  <1>2. Performing /\ t \in Clicks /\ finish.took.origin \in Origins /\ t \in Nat /\ clicks \in Nat
    BY TookIs, BoundAssumption DEF ConnInv, ConnectionTypeOK, At, Performing
  <1>3. finish' \in Finish /\ finish'.pc = "store" /\ finish'.took = finish.took
    BY <1>2, TookIs DEF ConnInv, Finish
  <1>4. NewTab(finish.took.origin) \in Tab /\ ~NewTab(finish.took.origin).bridge
    BY <1>2 DEF NewTab, Tab
  <1>5. /\ tabs' \in [Clicks -> Tab \cup {None}]
        /\ \A u \in Clicks : tabs'[u] = IF u = t THEN NewTab(finish.took.origin) ELSE tabs[u]
    BY <1>2, <1>4 DEF ConnInv, ConnectionTypeOK
  <1>6. PICK opened \in [Clicks -> Nat] :
          /\ past' = [past EXCEPT !.opened = opened]
          /\ \A u \in Clicks : opened[u] = IF u = t THEN past.opened[u] + 1 ELSE past.opened[u]
    <2>1. past.opened \in [Clicks -> Nat]
      BY DEF ConnInv, ConnectionTypeOK, Past
    <2>2. PICK opened : opened = [past.opened EXCEPT ![t] = @ + 1]
      OBVIOUS
    <2>3. opened \in [Clicks -> Nat] /\ \A u \in Clicks : opened[u] = IF u = t THEN past.opened[u] + 1 ELSE past.opened[u]
      BY <1>2, <2>1, <2>2
    <2>4. past' = [past EXCEPT !.opened = opened]
      BY <2>2
    <2> QED BY <2>3, <2>4
  <1>7. /\ past' \in Past
        /\ past'.opened = opened /\ past'.broken = past.broken /\ SameCut
    BY <1>6 DEF ConnInv, ConnectionTypeOK, Past, SameCut
  <1>8. ConnectionTypeOK'
    BY <1>1, <1>3, <1>5, <1>7 DEF ConnInv, ConnectionTypeOK
  <1>9. Later(t) /\ t <= clicks /\ (intent # None => t < intent.by) /\ (announcing # None => t < announcing.by)
    BY DEF ConnInv, InOrder, Performed, Performing
  <1>10. \A n : Later(n) /\ t < n => Later(n)'
    BY <1>1, <1>3, <1>5, <1>6, <1>7 DEF Later, Performed, Performing
  <1>11. InOrder'
    <2>1. Later(t + 1)'
      <3>1. PICK n \in Nat : n = t + 1
        BY <1>2
      <3>2. t <= n /\ t < n
        BY <1>2, <3>1
      <3>3. Later(n)
        BY <1>2, <1>9, <3>2, LaterStill DEF ConnInv
      <3> QED BY <1>10, <3>1, <3>2, <3>3
    <2>2. Later(clicks + 1)'
      BY <1>2, <1>9, <1>10 DEF ConnInv, InOrder
    <2>3. (intent # None => Later(intent.by)') /\ (announcing # None => Later(announcing.by)')
      <3>1. (intent # None => Later(intent.by)) /\ (announcing # None => Later(announcing.by))
        BY DEF ConnInv, InOrder
      <3> QED BY <1>1, <1>9, <1>10, <3>1
    <2>4. ~At("perform")' /\ Later(finish.took.by + 1)'
      BY <1>3, <2>1 DEF At
    <2>5. (intent # None => intent.by <= clicks) /\ (announcing # None => announcing.by <= clicks)
          /\ (announcing # None /\ intent # None => intent.by < announcing.by)
      BY DEF ConnInv, InOrder
    <2> QED BY <1>1, <2>2, <2>3, <2>4, <2>5 DEF InOrder
  <1>12. OneTabPerClick'
    <2>1. past.opened[t] = 0
      <3>1. past.opened[t] \in Nat
        BY <1>2 DEF ConnInv, ConnectionTypeOK, Past
      <3>2. ~(past.opened[t] > 0)
        BY <1>2, <1>9 DEF Later
      <3> QED BY <3>1, <3>2
    <2> QED BY <1>6, <1>7, <2>1 DEF ConnInv, OneTabPerClick
  <1>13. Unmet'
    BY <1>1, <1>3, <1>4, <1>5, <1>9 DEF Unmet, Later, At
  <1>14. Newest'
    BY <1>1, <1>7 DEF ConnInv, Newest, At
  <1>15. \A c, S : /\ Announced(c)' = Announced(c) /\ Intended(c)' = Intended(c) /\ (Taken(c) => Taken(c)')
                   /\ Attempted(c)' = Attempted(c) /\ Shaken(c, S)' = Shaken(c, S) /\ Held(c, S)' = Held(c, S)
    BY <1>1, <1>2, <1>3 DEF Announced, Intended, Taken, Attempted, Performing, Shaken, Held, CutOff, SameCut
  <1>16. Parted' /\ Cut'
    BY <1>3, <1>7, <1>15 DEF ConnInv, Parted, Cut, At, CutOff, SameCut
  <1>17. Pill'
    BY <1>1, <1>3, SamePill DEF ConnInv, At
  <1> QED BY <1>8, <1>11, <1>12, <1>13, <1>14, <1>16, <1>17 DEF ConnInv

\* ... and opens its page, the only one of that click.
LEMMA PerformKeeps == ASSUME ConnInv, perform PROVE ConnInv'
  <1>1. /\ At("perform") /\ Performing /\ ~At("forget")
        /\ UNCHANGED <<storage, shakes, parting, leaving, announcing, prompt, access, app, code, clicks, left>>
    BY DEF perform, At, Performing
  <1>2. left' \in Budget /\ code' \in {"none", "issued", "spent"}
    BY <1>1 DEF ConnInv, ConnectionTypeOK
  <1>3. CASE finish.took.origin \notin access
    <2>1. Land("not-permitted") /\ UNCHANGED <<tabs, past>>
      BY <1>3 DEF perform
    <2> QED BY <1>1, <1>2, <2>1, LandsKeep DEF Answer
  <1>4. CASE finish.took.origin \in access /\ finish.took.how = "code"
    <2>1. finish' = [finish EXCEPT !.pc = "fetch"] /\ UNCHANGED <<popup, tabs, past>>
      BY <1>4 DEF perform
    <2> QED BY <1>1, <1>2, <2>1, GoesOnKeeps DEF storage
  <1>5. CASE finish.took.origin \in access /\ finish.took.how # "code"
    <2>1. PICK t : t = finish.took.by
      OBVIOUS
    <2>2. /\ tabs' = [tabs EXCEPT ![t] = NewTab(finish.took.origin)]
          /\ past' = [past EXCEPT !.opened[t] = @ + 1]
          /\ finish' = [finish EXCEPT !.pc = "store"] /\ popup' = popup
      BY <1>5, <2>1 DEF perform
    <2> QED BY <1>1, <2>1, <2>2, OpensKeep
  <1> QED BY <1>3, <1>4, <1>5

\* The attempt is stored, and is newer than any connection there is.
LEMMA StoresKeep == ASSUME ConnInv, openTheConnectPage PROVE ConnInv'
  <1>1. /\ At("store") /\ attempt' = [origin |-> finish.took.origin, by |-> finish.took.by]
        /\ finish' = [finish EXCEPT !.pc = "inject"]
        /\ UNCHANGED <<held, intent, shakes, parting, leaving, desk, pages, clicks, past, left>>
    BY DEF openTheConnectPage
  <1>2. UNCHANGED <<popup, announcing, prompt, access, tabs, app, code>>
    BY <1>1 DEF desk, pages
  <1>3. Performing /\ Performed
    BY <1>1 DEF At, Performing, Performed
  <1>4. finish' \in Finish /\ finish'.pc = "inject" /\ finish'.took = finish.took
    BY <1>1, <1>3, TookIs DEF ConnInv, Finish
  <1>5. attempt' \in [origin : Origins, by : Clicks] /\ attempt'.by = finish.took.by
    BY <1>1, <1>3, TookIs DEF ConnInv
  <1>6. ConnectionTypeOK'
    BY <1>1, <1>2, <1>4, <1>5 DEF ConnInv, ConnectionTypeOK
  <1>7. \A n : Later(n) => Later(n)'
    BY <1>1, <1>2, <1>3, <1>4, <1>5 DEF Later, Performed, Performing
  <1>13. Later(finish.took.by + 1)'
    BY <1>3, <1>4, <1>7 DEF ConnInv, InOrder
  <1>8. InOrder' /\ OneTabPerClick' /\ Unmet'
    BY <1>1, <1>2, <1>4, <1>7, <1>13 DEF ConnInv, InOrder, OneTabPerClick, Unmet, At, Performed, Performing
  <1>9. Newest'
    BY <1>1, <1>5 DEF ConnInv, Newest, Unmet
  <1>10. \A c, S : /\ Announced(c)' = Announced(c) /\ Intended(c)' = Intended(c)
                   /\ Taken(c) => Taken(c)' /\ Attempted(c)'
                   /\ Shaken(c, S)' = Shaken(c, S) /\ Held(c, S)' = Held(c, S)
    BY <1>1, <1>2, <1>3, <1>4, <1>5 DEF Announced, Intended, Taken, Attempted, Performing, Shaken, Held, CutOff, SameCut
  <1>11. Cut'
    <2>1. ASSUME NEW c, NEW S, CutOff(c, S) PROVE CutOff(c, S)'
      BY <1>10, <2>1 DEF CutOff
    <2>2. past.cut # None => CutOff(past.cut, past.spared)'
      BY <1>1, <2>1 DEF ConnInv, Cut
    <2>3. CutOff(past.settled - 1, past.racing)'
      BY <1>1, <2>1 DEF ConnInv, Cut
    <2> QED BY <1>1, <2>2, <2>3 DEF ConnInv, Cut
  <1>14. Parted'
    BY <1>1, <1>2, <1>4, <1>10 DEF ConnInv, Parted, At
  <1>12. Pill'
    BY <1>1, <1>2, <1>4, SamePill DEF ConnInv, At
  <1> QED BY <1>6, <1>8, <1>9, <1>11, <1>12, <1>14 DEF ConnInv

-----------------------------------------------------------------------------
(* Connect pages.                                                          *)

\* What becomes of a page: it is as it was, gone, or says less.
LEMMA SentIs ==
    ASSUME ConnInv, NEW t \in Clicks, tabs[t] # None
    PROVE  /\ Sent(t) \in [tab : Clicks, origin : Origins, pc : {"sent", "accepted", "kept"}]
           /\ Sent(t).tab = t /\ Sent(t).pc = "sent" /\ tabs[t] \in Tab
  BY DEF Sent, ConnInv, ConnectionTypeOK, Tab

\* A page tells the worker of its nonce, which changes nothing yet.
LEMMA PagesKeep ==
    ASSUME ConnInv, NEW t \in Clicks, tabs[t] # None,
           At("store")' => finish.took.by # t \/ (shakes' = shakes /\ (tabs'[t] # None => ~tabs'[t].bridge)),
           shakes' \subseteq shakes \cup {Sent(t)}, shakes \subseteq shakes',
           tabs' \in [Clicks -> Tab \cup {None}],
           \A u \in Clicks : u # t => tabs'[u] = tabs[u],
           (finish' = finish /\ popup' = popup) \/ (~At("forget") /\ \E a \in Answer : Land(a)),
           left' \in Budget,
           UNCHANGED <<storage, parting, leaving, announcing, prompt, access, app, code, clicks, past>>
    PROVE  ConnInv'
  <1>1. UNCHANGED <<held, attempt, intent>>
    BY DEF storage
  <1>2. finish' \in {finish, None} /\ popup' \in Popup \cup {None}
        /\ (popup' # None /\ popup'.waits = "announced" => Waits("announced"))
        /\ (finish' = finish \/ ~At("forget"))
    BY LandedIs DEF Land, ConnInv, ConnectionTypeOK, Waits
  <1>3. ConnectionTypeOK'
    BY <1>1, <1>2, SentIs DEF ConnInv, ConnectionTypeOK
  <1>4. \A n : Later(n) => Later(n)'
    BY <1>1, <1>2, SentIs DEF Later, Performed, Performing, ConnInv, ConnectionTypeOK
  <1>5. InOrder' /\ OneTabPerClick'
    BY <1>1, <1>2, <1>4 DEF ConnInv, InOrder, OneTabPerClick, At, Performed, Performing
  <1>6. Unmet'
    <2> SUFFICES ASSUME At("store")' PROVE Unmet'
      BY DEF Unmet
    <2>1. At("store") /\ finish' = finish /\ Performing
      BY <1>2 DEF At, Performing
    <2>2. Unmet
      BY DEF ConnInv
    <2>3. t < finish.took.by \/ t = finish.took.by
      BY <2>1, <2>2 DEF Unmet
    <2>4. \A s \in shakes' : s.tab < finish.took.by
      BY <2>1, <2>2, <2>3, SentIs DEF Unmet
    <2>5. \A u \in Clicks : tabs'[u] # None =>
             u < finish.took.by \/ (u = finish.took.by /\ ~tabs'[u].bridge)
      <3> SUFFICES ASSUME NEW u \in Clicks, tabs'[u] # None
                   PROVE  u < finish.took.by \/ (u = finish.took.by /\ ~tabs'[u].bridge)
        OBVIOUS
      <3>1. CASE u # t
        BY <2>1, <2>2, <3>1 DEF Unmet
      <3>2. CASE u = t
        BY <2>1, <2>2, <2>3, <3>2 DEF Unmet
      <3> QED BY <3>1, <3>2
    <2> QED BY <1>1, <2>1, <2>2, <2>4, <2>5 DEF Unmet
  <1>7. Newest'
    BY <1>1, <1>2 DEF ConnInv, Newest, At
  <1>8. Cut'
    BY <1>1, <1>2, SentIs, LessCut DEF ConnInv, SameCut
  <1>9. Parted'
    BY <1>1, <1>2, LessParted DEF ConnInv, Waits
  <1>10. Pill'
    BY <1>1, <1>2, SentIs, SamePill DEF ConnInv, At
  <1> QED BY <1>3, <1>5, <1>6, <1>7, <1>8, <1>9, <1>10 DEF ConnInv

\* The bridge enters a page.
LEMMA InjectIs ==
    ASSUME ConnInv, NEW t \in Clicks, tabs[t] # None, Inject(t)
    PROVE  /\ shakes' \subseteq shakes \cup {Sent(t)} /\ shakes \subseteq shakes'
           /\ tabs' \in [Clicks -> Tab \cup {None}]
           /\ \A u \in Clicks : u # t => tabs'[u] = tabs[u]
  <1>0. tabs \in [Clicks -> Tab \cup {None}] /\ tabs[t] \in Tab
    BY DEF ConnInv, ConnectionTypeOK
  <1>1. CASE Reaches(t) /\ ~tabs[t].bridge
    <2>1. PICK p : p = [tabs[t] EXCEPT !.bridge = TRUE, !.event = FALSE]
      OBVIOUS
    <2>2. p \in Tab
      BY <1>0, <2>1 DEF Tab
    <2>3. tabs' = [tabs EXCEPT ![t] = p]
      BY <1>0, <1>1, <2>1 DEF Inject
    <2> QED BY <1>0, <1>1, <2>2, <2>3 DEF Inject
  <1>2. CASE ~(Reaches(t) /\ ~tabs[t].bridge)
    <2>1. PICK p : p = [tabs[t] EXCEPT !.event = FALSE]
      OBVIOUS
    <2>2. p \in Tab
      BY <1>0, <2>1 DEF Tab
    <2>3. tabs' = [tabs EXCEPT ![t] = p] /\ shakes' = shakes
      BY <1>0, <1>2, <2>1 DEF Inject
    <2> QED BY <1>0, <2>2, <2>3
  <1> QED BY <1>1, <1>2

\* The bridge enters a page that is loaded, by the worker or by the event of its loading.
LEMMA InjectIfLoadedKeeps == ASSUME ConnInv, injectIfLoaded PROVE ConnInv'
  <1>1. /\ At("inject") /\ Performing /\ ~At("forget")
        /\ UNCHANGED <<storage, parting, leaving, announcing, prompt, access, app, code, clicks, past, left>>
    BY DEF injectIfLoaded, At, Performing
  <1>2. PICK t : t = finish.took.by
    OBVIOUS
  <1>3. PICK a \in Answer : Land(a)
    BY DEF injectIfLoaded, Answer
  <1>4. t \in Clicks /\ left' \in Budget /\ code' \in {"none", "issued", "spent"} /\ finish' = None
    BY <1>1, <1>2, <1>3, TookIs DEF ConnInv, ConnectionTypeOK, Land
  <1>5. CASE tabs[t] # None /\ tabs[t].loaded /\ attempt # None /\ attempt.by = t
    <2>1. Inject(t)
      BY <1>2, <1>5 DEF injectIfLoaded
    <2>2. ~At("store")'
      BY <1>4 DEF At
    <2> QED BY <1>1, <1>3, <1>4, <1>5, <2>1, <2>2, InjectIs, PagesKeep
  <1>6. CASE ~(tabs[t] # None /\ tabs[t].loaded /\ attempt # None /\ attempt.by = t)
    <2>1. UNCHANGED <<tabs, shakes>>
      BY <1>2, <1>6 DEF injectIfLoaded
    <2> QED BY <1>1, <1>3, <1>4, <2>1, LandsKeep
  <1> QED BY <1>5, <1>6

LEMMA InjectsKeep == ASSUME ConnInv, NEW t \in Clicks, injectIntoTheConnectPage(t) PROVE ConnInv'
  <1>1. /\ tabs[t] # None /\ tabs[t].event
        /\ UNCHANGED <<storage, finish, parting, leaving, desk, app, code, clicks, past, left>>
    BY DEF injectIntoTheConnectPage
  <1>2. UNCHANGED <<popup, announcing, prompt, access>> /\ left' \in Budget
    BY <1>1 DEF desk, ConnInv, ConnectionTypeOK
  <1>3. CASE attempt # None /\ attempt.by = t
    <2>1. Inject(t)
      BY <1>3 DEF injectIntoTheConnectPage
    <2>2. At("store")' => finish.took.by # t
      <3>1. At("store")' => At("store") /\ Performing
        BY <1>1 DEF At, Performing
      <3>2. At("store") => attempt.by < finish.took.by
        BY <1>3 DEF ConnInv, Unmet
      <3>3. t \in Nat
        BY BoundAssumption DEF Clicks
      <3> QED BY <1>3, <3>1, <3>2, <3>3, TookIs DEF ConnInv
    <2> QED BY <1>1, <1>2, <2>1, <2>2, InjectIs, PagesKeep
  <1>4. CASE ~(attempt # None /\ attempt.by = t)
    <2>1. PICK p : p = [tabs[t] EXCEPT !.event = FALSE]
      OBVIOUS
    <2>2. tabs' = [tabs EXCEPT ![t] = p] /\ shakes' = shakes
      BY <1>4, <2>1 DEF injectIntoTheConnectPage
    <2>3. tabs \in [Clicks -> Tab \cup {None}] /\ tabs[t] \in Tab
      BY <1>1 DEF ConnInv, ConnectionTypeOK
    <2>4. p \in Tab /\ p.bridge = tabs[t].bridge
      BY <2>1, <2>3 DEF Tab
    <2>5. tabs' \in [Clicks -> Tab \cup {None}] /\ (\A u \in Clicks : u # t => tabs'[u] = tabs[u]) /\ tabs'[t] = p
      BY <2>2, <2>3, <2>4
    <2>6. At("store")' => finish.took.by # t \/ ~tabs'[t].bridge
      <3>1. At("store")' => At("store")
        BY <1>1 DEF At
      <3>2. At("store") => t < finish.took.by \/ (t = finish.took.by /\ ~tabs[t].bridge)
        BY <1>1 DEF ConnInv, Unmet
      <3> QED BY <2>4, <2>5, <3>1, <3>2, BoundAssumption, TookIs DEF ConnInv, At, Performing, Clicks
    <2> QED BY <1>1, <1>2, <2>2, <2>5, <2>6, PagesKeep
  <1> QED BY <1>3, <1>4

\* A page that is there while its attempt is being stored has no bridge.
LEMMA NoBridgeYet ==
    ASSUME ConnInv, NEW t \in Clicks, tabs[t] # None, finish' = finish, At("store")', finish.took.by = t
    PROVE  ~tabs[t].bridge
  <1>1. At("store") /\ t \in Nat
    BY BoundAssumption DEF At, Clicks
  <1> QED BY <1>1 DEF ConnInv, Unmet

LEMMA PageActsKeep ==
    ASSUME ConnInv, NEW t \in Clicks, Load(t) \/ Mount(t) \/ ReloadTab(t) \/ CloseTab(t)
    PROVE  ConnInv'
  <1>1. /\ tabs[t] # None /\ tabs[t] \in Tab /\ tabs \in [Clicks -> Tab \cup {None}]
        /\ UNCHANGED <<storage, finish, parting, leaving, desk, app, code, clicks, past>>
    BY DEF Load, Mount, ReloadTab, CloseTab, worker, ConnInv, ConnectionTypeOK
  <1>2. UNCHANGED <<popup, announcing, prompt, access>>
    BY <1>1 DEF desk
  <1>3. left' \in Budget
    BY SpentIs DEF Load, Mount, ReloadTab, CloseTab, ConnInv, ConnectionTypeOK, Op
  <1>4. PICK p : /\ tabs' = [tabs EXCEPT ![t] = p] /\ p \in Tab \cup {None}
                 /\ p # None => (p.bridge => tabs[t].bridge)
    <2>1. CASE Load(t)
      <3>1. PICK p : p = [tabs[t] EXCEPT !.loaded = TRUE, !.event = TRUE]
        OBVIOUS
      <3>2. tabs' = [tabs EXCEPT ![t] = p]
        BY <2>1, <3>1, <1>1 DEF Load
      <3>3. p \in Tab /\ p.bridge = tabs[t].bridge
        BY <1>1, <3>1 DEF Tab
      <3> QED BY <3>2, <3>3
    <2>2. CASE Mount(t)
      <3>1. PICK p : p = [tabs[t] EXCEPT !.mounted = TRUE]
        OBVIOUS
      <3>2. tabs' = [tabs EXCEPT ![t] = p]
        BY <2>2, <3>1, <1>1 DEF Mount
      <3>3. p \in Tab /\ p.bridge = tabs[t].bridge
        BY <1>1, <3>1 DEF Tab
      <3> QED BY <3>2, <3>3
    <2>3. CASE ReloadTab(t)
      <3>1. PICK p : p = NewTab(tabs[t].origin)
        OBVIOUS
      <3>2. tabs' = [tabs EXCEPT ![t] = p]
        BY <2>3, <3>1, <1>1 DEF ReloadTab
      <3>3. p \in Tab /\ ~p.bridge
        BY <1>1, <3>1 DEF Tab, NewTab
      <3> QED BY <3>2, <3>3
    <2>4. CASE CloseTab(t)
      BY <2>4 DEF CloseTab
    <2> QED BY <2>1, <2>2, <2>3, <2>4
  <1>5. /\ tabs' \in [Clicks -> Tab \cup {None}] /\ tabs'[t] = p
        /\ \A u \in Clicks : u # t => tabs'[u] = tabs[u]
    BY <1>1, <1>4
  <1>6. /\ shakes' \subseteq shakes \cup {Sent(t)} /\ shakes \subseteq shakes'
        /\ shakes' = shakes \/ tabs[t].bridge
    BY DEF Load, Mount, ReloadTab, CloseTab, worker
  <1>7. At("store")' => finish.took.by # t \/ (shakes' = shakes /\ (tabs'[t] # None => ~tabs'[t].bridge))
    BY <1>1, <1>4, <1>5, <1>6, NoBridgeYet
  <1> QED BY <1>1, <1>2, <1>3, <1>5, <1>6, <1>7, PagesKeep

-----------------------------------------------------------------------------
(* Connect codes.                                                          *)

\* The app page shows a code.
LEMMA ShowCodeKeeps == ASSUME ConnInv, showCode PROVE ConnInv'
  <1>1. code' = "issued" /\ UNCHANGED <<storage, worker, desk, tabs, app, clicks, past>>
    BY DEF showCode, issue
  <1>2. UNCHANGED <<held, attempt, intent, finish, shakes, parting, leaving, popup, announcing, prompt, access>>
    BY <1>1 DEF storage, worker, desk
  <1>3. left' \in Budget
    BY SpentIs DEF showCode, ConnInv, ConnectionTypeOK, Op
  <1>4. ConnectionTypeOK'
    BY <1>1, <1>2, <1>3 DEF ConnInv, ConnectionTypeOK
  <1>5. InOrder' /\ OneTabPerClick' /\ Unmet' /\ Cut' /\ Newest'
    BY <1>1, <1>2, LessInOrder, LessCut, LessNew DEF ConnInv, SameCut
  <1>6. Parted' /\ Pill'
    BY <1>1, <1>2, LessParted, SamePill DEF ConnInv
  <1> QED BY <1>4, <1>5, <1>6 DEF ConnInv

LEMMA SpendKeeps == ASSUME ConnInv, spendConnectCode PROVE ConnInv'
  <1>1. PICK answered \in BOOLEAN :
          /\ IF answered THEN UNCHANGED left ELSE Trouble
          /\ code' = IF claim THEN "spent" ELSE code
          /\ CASE ~answered -> Land("unreachable")
               [] answered /\ claim -> finish' = [finish EXCEPT !.pc = "remember"] /\ UNCHANGED popup
               [] OTHER -> Land("bad-code")
    BY DEF spendConnectCode
  <1>2. /\ At("fetch") /\ Performing /\ ~At("forget") /\ ~At("perform")
        /\ UNCHANGED <<storage, shakes, parting, leaving, announcing, prompt, access, tabs, app, clicks, past>>
    BY DEF spendConnectCode, At, Performing
  <1>3. left' \in Budget /\ code' \in {"none", "issued", "spent"}
    BY <1>1, SpentIs DEF ConnInv, ConnectionTypeOK
  <1>4. CASE \E a \in Answer : Land(a)
    BY <1>2, <1>3, <1>4, LandsKeep
  <1>5. CASE finish' = [finish EXCEPT !.pc = "remember"] /\ UNCHANGED popup
    BY <1>2, <1>3, <1>5, GoesOnKeeps DEF storage
  <1>6. "unreachable" \in Answer /\ "bad-code" \in Answer
    BY DEF Answer
  <1> QED BY <1>1, <1>4, <1>5, <1>6

-----------------------------------------------------------------------------
(* A connection is stored.                                                 *)

\* A connection is remembered for the click that made it, and everyone hears of it.
LEMMA RememberIs ==
    ASSUME ConnectionTypeOK, NEW o \in Origins, NEW n \in Clicks, Remember(o, n)
    PROVE  /\ held' \in [origin : Origins, by : Clicks \cup {0}] /\ held'.by = n /\ held'.origin = o
           /\ popup' \in Popup \cup {None}
           /\ popup' # None /\ popup'.waits = "announced" => Waits("announced")
           /\ app' \in App /\ app'.waiting = app.waiting /\ app'.asked = app.asked /\ app'.latest = app.latest
           /\ app'.coming = app.coming /\ app'.version = app.version
           /\ (app.since => app'.since) /\ (o = Home => app'.since)
  <1>1. held' = [origin |-> o, by |-> n]
    BY DEF Remember
  <1>2. popup' = Hears(popup)
    BY DEF Remember
  <1>3. app' = IF o = Home THEN [app EXCEPT !.since = TRUE] ELSE app
    BY DEF Remember
  <1>4. app \in App /\ popup \in Popup \cup {None}
    BY DEF ConnectionTypeOK
  <1>5. /\ app' \in App /\ app'.waiting = app.waiting /\ app'.asked = app.asked /\ app'.latest = app.latest
        /\ app'.coming = app.coming /\ app'.version = app.version
        /\ (app.since => app'.since) /\ (o = Home => app'.since)
    BY <1>3, <1>4 DEF App
  <1>6. /\ popup' \in Popup \cup {None}
        /\ popup' # None /\ popup'.waits = "announced" => Waits("announced")
    BY <1>2, <1>4, HearsIs DEF Waits
  <1>7. held' \in [origin : Origins, by : Clicks \cup {0}] /\ held'.by = n /\ held'.origin = o
    BY <1>1
  <1> QED BY <1>5, <1>6, <1>7

\* The connection of a code.
LEMMA CodeRememberedKeeps == ASSUME ConnInv, CodeRemembered PROVE ConnInv'
  <1>1. /\ At("remember") /\ Performing /\ Performed /\ finish' = [finish EXCEPT !.pc = "forget"]
        /\ UNCHANGED <<attempt, intent, shakes, parting, leaving, announcing, prompt, access, tabs, code, clicks,
                       past, left>>
    BY DEF CodeRemembered, At, Performing, Performed
  <1>2. PICK o, n : o = finish.took.origin /\ n = finish.took.by
    OBVIOUS
  <1>3. o \in Origins /\ n \in Clicks /\ Remember(o, n)
    BY <1>1, <1>2, TookIs DEF ConnInv, CodeRemembered
  <1>4. finish' \in Finish /\ finish'.pc = "forget" /\ finish'.took = finish.took /\ finish' # None
    <2>1. finish' \in [pc : {"forget"}, took : Intent]
      BY <1>1, TookIs DEF ConnInv
    <2> QED BY <1>1, <2>1, TookIs, NoneAssumption DEF ConnInv, Finish
  <1>5. ConnectionTypeOK'
    BY <1>1, <1>3, <1>4, RememberIs DEF ConnInv, ConnectionTypeOK
  <1>6. held'.by = finish.took.by /\ held'.origin = o
    BY <1>2, <1>3, RememberIs DEF ConnInv
  <1>7. \A m : Later(m) => Later(m)'
    BY <1>1, <1>4, <1>6 DEF Later, Performed, Performing
  <1>8. InOrder' /\ OneTabPerClick' /\ Unmet' /\ Newest'
    BY <1>1, <1>4, <1>7 DEF ConnInv, InOrder, OneTabPerClick, Unmet, Newest, At, Performed, Performing
  <1>9. \A c : /\ Announced(c)' = Announced(c) /\ Intended(c)' = Intended(c)
               /\ (Taken(c) => Taken(c)') /\ Attempted(c)' = Attempted(c)
               /\ \A S : Shaken(c, S)' = Shaken(c, S) /\ (Taken(c) => Held(c, S)')
    BY <1>1, <1>4, <1>6 DEF Announced, Intended, Taken, Attempted, Performing, Shaken, Held
  <1>10. Cut'
    BY <1>1, <1>9 DEF ConnInv, Cut, CutOff, SameCut
  <1>11. Parted'
    <2>1. popup' # None /\ popup'.waits = "announced" => Waits("announced")
      BY <1>3, RememberIs DEF ConnInv
    <2> QED BY <1>1, <1>4, <1>9, <2>1 DEF ConnInv, Parted, At, Waits
  <1>12. Pill'
    <2>1. /\ app'.waiting = app.waiting /\ app'.latest = app.latest
          /\ app'.coming = app.coming /\ app'.version = app.version
          /\ (app.since => app'.since) /\ (o = Home => app'.since)
      BY <1>3, RememberIs DEF ConnInv
    <2> QED BY <1>1, <1>2, <1>4, <1>6, <2>1 DEF ConnInv, Pill, ConnectedTo, At
  <1> QED BY <1>5, <1>8, <1>10, <1>11, <1>12 DEF ConnInv

\* The bridge that enters the app page is of an instance that was connected.
LEMMA ReachAppIs ==
    ASSUME ConnectionTypeOK, NEW o \in Origins, ReachApp(o), o = Home => app.since
    PROVE  /\ app' \in App /\ app'.waiting = app.waiting /\ app'.asked = app.asked /\ app'.latest = app.latest
           /\ app'.version = app.version /\ app'.since = app.since
           /\ (app'.coming => app.coming \/ app.since)
  <1>1. app' = IF o = Home /\ Home \in access /\ ~app.bridge
               THEN [app EXCEPT !.bridge = TRUE, !.coming = TRUE] ELSE app
    BY DEF ReachApp
  <1>2. app \in App
    BY DEF ConnectionTypeOK
  <1> QED BY <1>1, <1>2 DEF App

\* A connect that is complete cuts off what was clicked before it.
LEMMA SettlesKeep ==
    ASSUME ConnInv, Settles(shakes'), held' = held, attempt' = None, intent' = intent, announcing' = announcing,
           finish' \in {finish, None}, shakes' \subseteq shakes, clicks' = clicks
    PROVE  /\ Cut' /\ past' \in Past
           /\ past'.opened = past.opened /\ past'.broken = past.broken
  <1>1. CASE held = None
    <2>1. past' = past
      BY <1>1 DEF Settles
    <2> QED BY <2>1, LessCut DEF ConnInv, ConnectionTypeOK, SameCut
  <1>2. CASE held # None
    <2>1. PICK n, S : n = held.by /\ S = Accepted(shakes')
      OBVIOUS
    <2>2. n \in Nat /\ clicks \in Nat /\ S \in SUBSET Nat
      BY <1>2, <2>1, BoundAssumption DEF ConnInv, ConnectionTypeOK, Clicks, Accepted
    <2>3. past' = [past EXCEPT !.settled = n, !.racing = S]
      BY <1>2, <2>1 DEF Settles
    <2>4. /\ past' \in Past /\ past'.settled = n /\ past'.racing = S
          /\ past'.opened = past.opened /\ past'.broken = past.broken
          /\ past'.cut = past.cut /\ past'.spared = past.spared
      BY <2>2, <2>3 DEF ConnInv, ConnectionTypeOK, Past
    <2>5. n <= clicks
      BY <1>2, <2>1, <2>2 DEF ConnInv, InOrder, Later
    <2>6. Announced(n - 1) /\ Intended(n - 1)
      <3>1. announcing # None => n < announcing.by /\ announcing.by \in Nat
        BY <1>2, <2>1, BoundAssumption DEF ConnInv, ConnectionTypeOK, InOrder, Later, Intent, Clicks
      <3>2. intent # None => n < intent.by /\ intent.by \in Nat
        BY <1>2, <2>1, BoundAssumption DEF ConnInv, ConnectionTypeOK, InOrder, Later, Intent, Clicks
      <3> QED BY <2>2, <3>1, <3>2 DEF Announced, Intended
    <2>7. Taken(n - 1)
      <3> SUFFICES ASSUME Performing PROVE finish.took.by > n - 1
        BY DEF Taken
      <3>1. finish.took.by \in Nat
        BY TookIs, BoundAssumption DEF ConnInv, Clicks
      <3>2. Performed => n < finish.took.by + 1
        BY <1>2, <2>1 DEF ConnInv, InOrder, Later
      <3>3. ~Performed => n < finish.took.by
        BY <1>2, <2>1 DEF ConnInv, InOrder, Later, Performed, Performing, At
      <3> QED BY <2>2, <3>1, <3>2, <3>3
    <2>8. CutOff(n - 1, S)'
      <3>1. Shaken(n - 1, S)'
        BY <2>1 DEF Shaken, Accepted
      <3>2. Held(n - 1, S)'
        BY <2>1, <2>2 DEF Held
      <3> QED BY <2>6, <2>7, <3>1, <3>2
          DEF CutOff, Announced, Intended, Taken, Attempted, Performing
    <2>9. past.cut # None => past.cut <= clicks /\ CutOff(past.cut, past.spared)'
      BY <2>4 DEF ConnInv, Cut, CutOff, Announced, Intended, Taken, Attempted, Performing, Shaken, Held
    <2> QED BY <2>4, <2>5, <2>8, <2>9 DEF Cut
  <1> QED BY <1>1, <1>2

LEMMA CodeLandedKeeps == ASSUME ConnInv, CodeLanded PROVE ConnInv'
  <1>1. /\ At("forget") /\ Performing /\ attempt' = None /\ Land("connected") /\ Settles(shakes)
        /\ UNCHANGED <<held, intent, shakes, parting, leaving, announcing, prompt, access, tabs, code, clicks,
                       left>>
    BY DEF CodeLanded, At, Performing
  <1>2. PICK o : o = finish.took.origin
    OBVIOUS
  <1>3. o \in Origins /\ ReachApp(o) /\ (o = Home => app.since)
    BY <1>1, <1>2, TookIs DEF ConnInv, CodeLanded, Pill
  <1>4. "connected" \in Answer
    BY DEF Answer
  <1>5. finish' = None /\ popup' \in Popup \cup {None}
        /\ (popup' # None /\ popup'.waits = "announced" => Waits("announced"))
    BY <1>1, <1>4, LandedIs DEF Land, ConnInv, ConnectionTypeOK
  <1>10. Cut' /\ past' \in Past /\ past'.opened = past.opened /\ past'.broken = past.broken
    BY <1>1, <1>5, SettlesKeep
  <1>6. ConnectionTypeOK'
    BY <1>1, <1>3, <1>5, <1>10, ReachAppIs DEF ConnInv, ConnectionTypeOK
  <1>7. InOrder' /\ OneTabPerClick' /\ Unmet' /\ Cut' /\ Newest'
    BY <1>1, <1>5, <1>10, LessInOrder, LessNew DEF ConnInv
  <1>8. Parted'
    BY <1>1, <1>5, LessParted DEF ConnInv, Waits
  <1>9. Pill'
    <2>1. /\ app'.waiting = app.waiting /\ app'.latest = app.latest
          /\ app'.version = app.version /\ app'.since = app.since
          /\ (app'.coming => app.coming \/ app.since)
      BY <1>3, ReachAppIs DEF ConnInv
    <2> QED BY <1>1, <1>5, <2>1 DEF ConnInv, Pill, ConnectedTo, At
  <1> QED BY <1>6, <1>7, <1>8, <1>9 DEF ConnInv

-----------------------------------------------------------------------------
(* Handshakes.                                                             *)

\* A handshake goes on to its next await.
LEMMA HandledIs ==
    ASSUME ConnectionTypeOK, NEW s \in shakes, NEW pc \in {"accepted", "kept", None}
    PROVE  /\ Handled(s, pc) \subseteq [tab : Clicks, origin : Origins, pc : {"sent", "accepted", "kept"}]
           /\ \A r \in Handled(s, pc) :
                r \in shakes \/ (pc # None /\ r.pc = pc /\ r.tab = s.tab /\ r.origin = s.origin)
           /\ \A r \in shakes : r = s \/ r \in Handled(s, pc)
           /\ pc # None => [s EXCEPT !.pc = pc] \in Handled(s, pc) /\ [s EXCEPT !.pc = pc].pc = pc
  <1>1. s \in [tab : Clicks, origin : Origins, pc : {"sent", "accepted", "kept"}]
    BY DEF ConnectionTypeOK
  <1>2. PICK r : r = [s EXCEPT !.pc = pc]
    OBVIOUS
  <1>3. /\ r.pc = pc /\ r.tab = s.tab /\ r.origin = s.origin
        /\ pc # None => r \in [tab : Clicks, origin : Origins, pc : {"sent", "accepted", "kept"}]
    BY <1>1, <1>2
  <1>4. Handled(s, pc) = (shakes \ {s}) \cup (IF pc = None THEN {} ELSE {r})
    BY <1>2 DEF Handled
  <1> QED BY <1>1, <1>2, <1>3, <1>4 DEF ConnectionTypeOK

\* A handshake is accepted for the attempt that is stored, which was clicked after
\* a Disconnect that is done.
LEMMA AcceptKeeps == ASSUME ConnInv, NEW s \in shakes, acceptHandshake(s) PROVE ConnInv'
  <1>1. s.pc = "sent" /\ UNCHANGED <<storage, finish, parting, leaving, desk, pages, clicks, past, left>>
    BY DEF acceptHandshake
  <1>2. UNCHANGED <<held, attempt, intent, popup, announcing, prompt, access, tabs, app, code>>
    BY <1>1 DEF storage, desk, pages
  <1>3. PICK pc \in {"accepted", None} :
          shakes' = Handled(s, pc) /\ (pc = "accepted" => attempt # None /\ attempt.by = s.tab)
    <2>1. PICK pc : pc = IF judgeHandshake(s) THEN "accepted" ELSE None
      OBVIOUS
    <2>2. pc \in {"accepted", None} /\ shakes' = Handled(s, pc) /\ (pc # None => judgeHandshake(s))
      BY <2>1, NonesApart DEF acceptHandshake
    <2> QED BY <2>2, NonesApart DEF judgeHandshake
  <1>4. /\ shakes' \subseteq [tab : Clicks, origin : Origins, pc : {"sent", "accepted", "kept"}]
        /\ \A r \in shakes' : r \in shakes \/ (pc # None /\ r.pc = "accepted" /\ r.tab = s.tab)
        /\ \A r \in shakes : r = s \/ r \in shakes'
    BY <1>3, HandledIs DEF ConnInv
  <1>5. ConnectionTypeOK'
    BY <1>1, <1>2, <1>4 DEF ConnInv, ConnectionTypeOK
  <1>6. \A n : Later(n) => Later(n)'
    BY <1>1, <1>2, <1>4 DEF Later, Performed, Performing
  <1>7. InOrder' /\ OneTabPerClick' /\ Unmet'
    BY <1>1, <1>2, <1>4, <1>6 DEF ConnInv, InOrder, OneTabPerClick, Unmet, At, Performed, Performing
  <1>8. Newest'
    BY <1>1, <1>2, <1>4 DEF ConnInv, Newest, At
  <1>9. \A c, S : /\ Announced(c)' = Announced(c) /\ Intended(c)' = Intended(c) /\ Taken(c)' = Taken(c)
                  /\ Held(c, S)' = Held(c, S) /\ Attempted(c)' = Attempted(c)
    BY <1>1, <1>2 DEF Announced, Intended, Taken, Attempted, Performing, Held
  <1>10. \A c, S : Shaken(c, S) /\ Attempted(c) => Shaken(c, S)'
    BY <1>3, <1>4 DEF Attempted, Shaken
  <1>11. Parted' /\ Cut'
    BY <1>1, <1>2, <1>9, <1>10 DEF ConnInv, Parted, Cut, At, CutOff, SameCut
  <1>12. Pill'
    BY <1>1, <1>2, <1>4, SamePill DEF ConnInv
  <1> QED BY <1>5, <1>7, <1>8, <1>11, <1>12 DEF ConnInv

LEMMA ShakeRememberedKeeps == ASSUME ConnInv, NEW s \in shakes, ShakeRemembered(s) PROVE ConnInv'
  <1>1. /\ s.pc = "accepted" /\ shakes' = Handled(s, "kept")
        /\ UNCHANGED <<attempt, intent, finish, parting, leaving, announcing, prompt, access, tabs, code, clicks,
                       past, left>>
    BY DEF ShakeRemembered
  <1>2. PICK o, n : o = s.origin /\ n = s.tab
    OBVIOUS
  <1>3. o \in Origins /\ n \in Clicks /\ Remember(o, n)
    BY <1>2 DEF ConnInv, ConnectionTypeOK, ShakeRemembered
  <1>5. /\ shakes' \subseteq [tab : Clicks, origin : Origins, pc : {"sent", "accepted", "kept"}]
        /\ \A r \in shakes' : r \in shakes \/ (r.pc = "kept" /\ r.tab = n /\ r.origin = o)
        /\ \E r \in shakes' : r.pc = "kept"
    <2>1. PICK pc : pc = "kept"
      OBVIOUS
    <2>2. pc \in {"accepted", "kept", None} /\ pc # None /\ shakes' = Handled(s, pc)
      BY <1>1, <2>1, NonesApart
    <2> QED BY <1>2, <2>1, <2>2, HandledIs DEF ConnInv
  <1>6. ConnectionTypeOK'
    BY <1>1, <1>3, <1>5, RememberIs DEF ConnInv, ConnectionTypeOK
  <1>7. held'.by = n /\ held'.origin = o
    BY <1>3, RememberIs DEF ConnInv
  <1>8. \A m : Later(m) => Later(m)'
    BY <1>1, <1>2, <1>5, <1>7 DEF Later, Performed, Performing
  <1>9. InOrder' /\ OneTabPerClick'
    BY <1>1, <1>8 DEF ConnInv, InOrder, OneTabPerClick, At, Performed, Performing
  <1>10. Unmet'
    BY <1>1, <1>2, <1>5, <1>7 DEF ConnInv, Unmet, At
  <1>11. Newest'
    BY <1>5 DEF Newest
  <1>12. \A c : /\ Announced(c)' = Announced(c) /\ Intended(c)' = Intended(c) /\ Taken(c)' = Taken(c)
                /\ Attempted(c)' = Attempted(c)
                /\ \A S : Shaken(c, S) => Shaken(c, S)' /\ Held(c, S)'
    BY <1>1, <1>2, <1>5, <1>7 DEF Announced, Intended, Taken, Attempted, Performing, Shaken, Held
  <1>13. Cut'
    BY <1>1, <1>12 DEF ConnInv, Cut, CutOff, SameCut
  <1>14. Parted'
    <2>1. popup' # None /\ popup'.waits = "announced" => Waits("announced")
      BY <1>3, RememberIs DEF ConnInv
    <2> QED BY <1>1, <1>12, <2>1 DEF ConnInv, Parted, At, Waits
  <1>15. Pill'
    <2>1. /\ app'.waiting = app.waiting /\ app'.latest = app.latest
          /\ app'.coming = app.coming /\ app'.version = app.version
          /\ (app.since => app'.since) /\ (o = Home => app'.since)
      BY <1>3, RememberIs DEF ConnInv
    <2> QED BY <1>1, <1>2, <1>5, <1>7, <2>1 DEF ConnInv, Pill, ConnectedTo, At
  <1> QED BY <1>6, <1>9, <1>10, <1>11, <1>13, <1>14, <1>15 DEF ConnInv

LEMMA ShakeLandedKeeps == ASSUME ConnInv, NEW s \in shakes, ShakeLanded(s) PROVE ConnInv'
  <1>1. /\ s.pc = "kept" /\ attempt' = None /\ shakes' = Handled(s, None) /\ Settles(shakes')
        /\ UNCHANGED <<held, intent, finish, parting, leaving, desk, code, clicks, left>>
    BY DEF ShakeLanded, storage
  <1>2. UNCHANGED <<popup, announcing, prompt, access>>
    BY <1>1 DEF desk
  <1>3. PICK o, t : o = s.origin /\ t = s.tab
    OBVIOUS
  <1>4. o \in Origins /\ t \in Clicks /\ ReachApp(o) /\ (o = Home => app.since)
    BY <1>1, <1>3 DEF ConnInv, ConnectionTypeOK, ShakeLanded, Pill
  <1>5. shakes' \subseteq shakes
    BY <1>1, HandledIs DEF ConnInv
  <1>6. PICK p : /\ tabs' = [tabs EXCEPT ![t] = p] /\ p \in Tab \cup {None}
                 /\ p # None => tabs[t] # None /\ (p.bridge => tabs[t].bridge)
    <2>1. tabs[t] \in Tab \cup {None}
      BY <1>4 DEF ConnInv, ConnectionTypeOK
    <2>2. PICK p : p = IF tabs[t] = None THEN None ELSE [tabs[t] EXCEPT !.told = TRUE]
      OBVIOUS
    <2>3. p \in Tab \cup {None} /\ (p # None => tabs[t] # None /\ (p.bridge => tabs[t].bridge))
      BY <2>1, <2>2 DEF Tab
    <2>4. tabs' = [tabs EXCEPT ![t] = p]
      BY <1>3, <1>4, <2>2 DEF ShakeLanded, ConnInv, ConnectionTypeOK
    <2> QED BY <2>3, <2>4
  <1>7. /\ tabs' \in [Clicks -> Tab \cup {None}]
        /\ \A u \in Clicks : tabs'[u] # None => tabs[u] # None /\ (tabs'[u].bridge => tabs[u].bridge)
    <2>1. tabs \in [Clicks -> Tab \cup {None}]
      BY DEF ConnInv, ConnectionTypeOK
    <2> QED BY <1>4, <1>6, <2>1
  <1>12. Cut' /\ past' \in Past /\ past'.opened = past.opened /\ past'.broken = past.broken
    BY <1>1, <1>2, <1>5, SettlesKeep
  <1>8. ConnectionTypeOK'
    BY <1>1, <1>2, <1>4, <1>5, <1>7, <1>12, ReachAppIs DEF ConnInv, ConnectionTypeOK
  <1>9. InOrder' /\ OneTabPerClick' /\ Unmet' /\ Cut' /\ Newest'
    BY <1>1, <1>2, <1>5, <1>7, <1>12, LessInOrder, LessNew DEF ConnInv
  <1>10. Parted'
    BY <1>1, <1>2, LessParted DEF ConnInv
  <1>11. Pill'
    <2>1. /\ app'.waiting = app.waiting /\ app'.latest = app.latest
          /\ app'.version = app.version /\ app'.since = app.since
          /\ (app'.coming => app.coming \/ app.since)
      BY <1>4, ReachAppIs DEF ConnInv
    <2> QED BY <1>1, <1>5, <2>1 DEF ConnInv, Pill, ConnectedTo, At
  <1> QED BY <1>8, <1>9, <1>10, <1>11 DEF ConnInv

-----------------------------------------------------------------------------
(* Disconnecting.                                                          *)

\* Nothing is under way: only what is clicked from now on may be performed.
LEMMA DisconnectKeeps == ASSUME ConnInv, Disconnect PROVE ConnInv'
  <1>1. /\ popup # None /\ popup' = [popup EXCEPT !.shows = "connect", !.says = None]
        /\ UNCHANGED <<storage, finish, shakes, leaving, announcing, prompt, access, pages, clicks, past>>
    BY DEF Disconnect
  <1>2. UNCHANGED <<held, attempt, intent, tabs, app, code>>
    BY <1>1 DEF storage, pages
  <1>3. popup' \in Popup /\ popup'.waits = popup.waits
    BY <1>1 DEF ConnInv, ConnectionTypeOK, Popup
  <1>4. left' \in Budget
    BY SpentIs DEF Disconnect, ConnInv, ConnectionTypeOK, Op
  <1>5. PICK by \in Nat \cup {None} :
          /\ parting' = [pc |-> "held", origin |-> None, by |-> by]
          /\ by # None => /\ by = clicks /\ finish = None /\ popup.waits = None /\ announcing = None
                          /\ prompt = None
    <2>1. PICK by : by = IF finish = None /\ popup.waits = None /\ announcing = None /\ prompt = None
                         THEN clicks ELSE None
      OBVIOUS
    <2>2. clicks \in Nat
      BY BoundAssumption DEF ConnInv, ConnectionTypeOK
    <2>3. by \in Nat \cup {None} /\ parting' = [pc |-> "held", origin |-> None, by |-> by]
      BY <2>1, <2>2 DEF Disconnect
    <2> QED BY <2>1, <2>3
  <1>6. ConnectionTypeOK'
    BY <1>1, <1>2, <1>3, <1>4, <1>5 DEF ConnInv, ConnectionTypeOK
  <1>7. InOrder' /\ OneTabPerClick' /\ Unmet' /\ Cut' /\ Newest' /\ Pill'
    BY <1>1, <1>2, LessInOrder, LessCut, LessNew, SamePill DEF ConnInv, SameCut
  <1>8. Parted'
    <2> SUFFICES ASSUME by # None PROVE Parted'
      BY <1>5 DEF Parted
    <2>1. clicks \in Nat
      BY BoundAssumption DEF ConnInv, ConnectionTypeOK
    <2> QED BY <1>1, <1>3, <1>5, <2>1, NonesApart DEF Parted, Announced, Taken, Performing, At
  <1> QED BY <1>6, <1>7, <1>8 DEF ConnInv

\* Disconnect forgets the connection, or the attempt that is under way.
LEMMA ForgetsKeep == ASSUME ConnInv, disconnect \/ disconnectAttempt PROVE ConnInv'
  <1>1. /\ parting # None /\ parting \in [pc : {"held", "attempt", "intent"}, by : Nat \cup {None},
                                          origin : Origins \cup {None}]
        /\ held' \in {held, None} /\ attempt' \in {attempt, None}
        /\ UNCHANGED <<intent, finish, shakes, leaving, announcing, prompt, access, pages, clicks, past, left>>
    BY DEF disconnect, disconnectAttempt, Parts, ConnInv, ConnectionTypeOK, desk
  <1>2. UNCHANGED <<tabs, app, code>>
    BY <1>1 DEF pages
  <1>3. popup' \in Popup \cup {None} /\ (popup' # None /\ popup'.waits = "announced" => Waits("announced"))
    BY HearsIs DEF disconnect, disconnectAttempt, desk, Waits, ConnInv, ConnectionTypeOK
  <1>4. /\ parting' \in [pc : {"held", "attempt", "intent"}, by : Nat \cup {None}, origin : Origins \cup {None}]
        /\ parting'.by = parting.by
        /\ parting'.pc = "intent" => attempt' = None
    <2>1. CASE disconnect
      <3>1. PICK o : o = IF held = None THEN None ELSE held.origin
        OBVIOUS
      <3>2. o \in Origins \cup {None}
        BY <3>1 DEF ConnInv, ConnectionTypeOK
      <3>3. parting' = [parting EXCEPT !.pc = "attempt", !.origin = o]
        BY <2>1, <3>1 DEF disconnect
      <3> QED BY <1>1, <3>2, <3>3
    <2>2. CASE disconnectAttempt
      <3>1. parting' = [parting EXCEPT !.pc = "intent"] /\ attempt' = None
        BY <2>2 DEF disconnectAttempt
      <3> QED BY <1>1, <3>1
    <2> QED BY <2>1, <2>2
  <1>5. ConnectionTypeOK'
    BY <1>1, <1>2, <1>3, <1>4 DEF ConnInv, ConnectionTypeOK
  <1>6. InOrder' /\ OneTabPerClick' /\ Unmet' /\ Cut' /\ Newest' /\ Pill'
    BY <1>1, <1>2, LessInOrder, LessCut, LessNew, SamePill DEF ConnInv, SameCut
  <1>7. \A c : /\ Announced(c)' = Announced(c) /\ Intended(c)' = Intended(c) /\ Taken(c)' = Taken(c)
               /\ attempt' = None => Attempted(c)'
    BY <1>1 DEF Announced, Intended, Taken, Attempted, Performing
  <1>8. Parted'
    BY <1>1, <1>3, <1>4, <1>7 DEF ConnInv, Parted, At, Waits
  <1> QED BY <1>5, <1>6, <1>8 DEF ConnInv

\* What was clicked before it is gone, and stays so.
LEMMA DisconnectIntentKeeps == ASSUME ConnInv, disconnectIntent PROVE ConnInv'
  <1>1. /\ parting # None /\ parting.pc = "intent" /\ intent' = None /\ parting' = None
        /\ leaving' = IF parting.origin = None THEN leaving ELSE leaving \cup {parting.origin}
        /\ UNCHANGED <<held, attempt, finish, shakes, desk, pages, clicks, left>>
    BY DEF disconnectIntent, Parts
  <1>2. UNCHANGED <<popup, announcing, prompt, access, tabs, app, code>>
    BY <1>1 DEF desk, pages
  <1>3. parting.by \in Nat \cup {None} /\ parting.origin \in Origins \cup {None}
    BY <1>1 DEF ConnInv, ConnectionTypeOK
  <1>4. PICK S : S = Accepted(shakes) \cup (IF held = None THEN {} ELSE {held.by})
    OBVIOUS
  <1>5. S \in SUBSET Nat
    BY <1>4, BoundAssumption DEF Accepted, ConnInv, ConnectionTypeOK, Clicks
  <1>6. /\ past' = IF parting.by = None THEN past ELSE [past EXCEPT !.cut = parting.by, !.spared = S]
        /\ past' \in Past
        /\ past'.opened = past.opened /\ past'.broken = past.broken
        /\ past'.settled = past.settled /\ past'.racing = past.racing
    BY <1>3, <1>4, <1>5 DEF disconnectIntent, ConnInv, ConnectionTypeOK, Past
  <1>7. ConnectionTypeOK'
    BY <1>1, <1>2, <1>3, <1>6 DEF ConnInv, ConnectionTypeOK
  <1>8. InOrder' /\ OneTabPerClick' /\ Unmet' /\ Newest' /\ Parted' /\ Pill'
    BY <1>1, <1>2, <1>6, LessInOrder, LessNew, LessParted, SamePill DEF ConnInv
  <1>9. Cut'
    <2>1. CASE parting.by = None
      BY <1>1, <1>2, <1>6, <2>1, LessCut DEF ConnInv, SameCut
    <2>2. CASE parting.by # None
      <3>1. PICK c : c = parting.by
        OBVIOUS
      <3>2. c <= clicks /\ Announced(c) /\ Taken(c) /\ Attempted(c)
        BY <1>1, <2>2, <3>1 DEF ConnInv, Parted
      <3>3. Shaken(c, S) /\ Held(c, S)
        BY <1>4 DEF Accepted, Shaken, Held
      <3>4. CutOff(c, S)'
        BY <1>1, <1>2, <3>2, <3>3
        DEF Announced, Intended, Taken, Attempted, Performing, Shaken, Held, CutOff
      <3>5. past'.cut = c /\ past'.spared = S
        BY <1>3, <1>6, <2>2, <3>1 DEF ConnInv, ConnectionTypeOK, Past
      <3>6. CutOff(past.settled - 1, past.racing)'
        BY <1>1, <1>2, <1>6 DEF ConnInv, Cut, Announced, Intended, Taken, Attempted, Performing, Shaken, Held, CutOff
      <3> QED BY <1>1, <1>6, <3>2, <3>4, <3>5, <3>6 DEF ConnInv, Cut
    <2> QED BY <2>1, <2>2
  <1> QED BY <1>7, <1>8, <1>9 DEF ConnInv

LEMMA GiveBackKeeps == ASSUME ConnInv, NEW o \in leaving, giveTheAccessBack(o) PROVE ConnInv'
  <1>1. /\ access' = access \ {o} /\ leaving' = leaving \ {o}
        /\ UNCHANGED <<storage, finish, shakes, parting, popup, announcing, prompt, pages, clicks, left>>
    BY DEF giveTheAccessBack
  <1>2. UNCHANGED <<held, attempt, intent, tabs, app, code>>
    BY <1>1 DEF storage, pages
  <1>3. PICK lost \in BOOLEAN : past' = [past EXCEPT !.lost = lost]
    <2>1. PICK lost : lost = (past.lost \/ \E t \in Clicks : tabs[t] # None /\ tabs[t].origin = o)
      OBVIOUS
    <2>2. past' = [past EXCEPT !.lost = lost]
      BY <2>1 DEF giveTheAccessBack, Losing
    <2>3. lost \in BOOLEAN
      BY <2>1
    <2> QED BY <2>2, <2>3
  <1>4. /\ past' \in Past
        /\ past'.opened = past.opened /\ past'.broken = past.broken /\ SameCut
    BY <1>3 DEF ConnInv, ConnectionTypeOK, Past, SameCut
  <1>5. ConnectionTypeOK'
    BY <1>1, <1>2, <1>4 DEF ConnInv, ConnectionTypeOK
  <1>6. InOrder' /\ OneTabPerClick' /\ Unmet' /\ Newest' /\ Parted' /\ Pill' /\ Cut'
    BY <1>1, <1>2, <1>4, LessInOrder, LessNew, LessParted, LessCut, SamePill DEF ConnInv, SameCut
  <1> QED BY <1>5, <1>6 DEF ConnInv

-----------------------------------------------------------------------------
(* What is lost.                                                           *)

\* The worker is stopped, and a connection it was storing may be the older one.
LEMMA StopsKeep == ASSUME ConnInv, Stopping PROVE ConnInv'
  <1>1. /\ Stops /\ past'.opened = past.opened /\ SameCut
        /\ past'.broken = (past.broken \/ Busy)
        /\ past' \in Past
        /\ access' \subseteq Origins
        /\ UNCHANGED <<storage, announcing, prompt, pages, clicks>> /\ left' \in Budget
    <2>0. PICK broken \in BOOLEAN : broken = (past.broken \/ Busy)
      OBVIOUS
    <2>1. CASE Restart
      <3>1. past' = [past EXCEPT !.broken = broken] /\ Stops /\ access' = access
            /\ UNCHANGED <<storage, announcing, prompt, pages, clicks>>
        BY <2>0, <2>1 DEF Restart
      <3>2. left' \in Budget
        BY <2>1, SpentIs DEF Restart, ConnInv, ConnectionTypeOK
      <3> QED BY <2>0, <3>1, <3>2 DEF ConnInv, ConnectionTypeOK, Past, SameCut
    <2>2. CASE \E o \in leaving : RestartsFor(o)
      <3>1. PICK o \in leaving : RestartsFor(o)
        BY <2>2
      <3>2. PICK lost : lost = (past.lost \/ \E t \in Clicks : tabs[t] # None /\ tabs[t].origin = o)
        OBVIOUS
      <3>3. lost \in BOOLEAN
        BY <3>2
      <3>4. PICK p : p = [past EXCEPT !.broken = broken]
        OBVIOUS
      <3>5. /\ p.lost = past.lost /\ p.broken = broken /\ p.opened = past.opened
            /\ p.cut = past.cut /\ p.spared = past.spared /\ p.settled = past.settled /\ p.racing = past.racing
            /\ p \in Past
        BY <2>0, <3>4 DEF ConnInv, ConnectionTypeOK, Past, SameCut
      <3>6. past' = [p EXCEPT !.lost = lost]
        BY <2>0, <3>1, <3>2, <3>4, <3>5 DEF RestartsFor, Losing
      <3>7. /\ past'.opened = past.opened /\ SameCut /\ past'.broken = broken
            /\ past' \in Past
        BY <3>3, <3>5, <3>6 DEF SameCut, Past
      <3>8. /\ Stops /\ access' = access \ {o}
            /\ UNCHANGED <<storage, announcing, prompt, pages, clicks>> /\ left' = left
        BY <3>1 DEF RestartsFor
      <3> QED BY <2>0, <3>7, <3>8 DEF ConnInv, ConnectionTypeOK
    <2> QED BY <2>1, <2>2 DEF Stopping
  <1>2. /\ finish' = None /\ parting' = None /\ leaving' = {} /\ shakes' = {s \in shakes : s.pc = "sent"}
        /\ popup' = landed(popup, "failed")
    BY <1>1 DEF Stops
  <1>3. UNCHANGED <<held, attempt, intent, tabs, app, code>>
    BY <1>1 DEF storage, pages
  <1>4. popup' \in Popup \cup {None} /\ (popup' # None /\ popup'.waits = "announced" => Waits("announced"))
    BY <1>2, LandedIs DEF ConnInv, ConnectionTypeOK, Answer
  <1>5. ConnectionTypeOK'
    BY <1>1, <1>2, <1>3, <1>4 DEF ConnInv, ConnectionTypeOK
  <1>6. InOrder' /\ OneTabPerClick' /\ Unmet' /\ Cut'
    BY <1>1, <1>2, <1>3, LessInOrder, LessCut DEF ConnInv, SameCut
  <1>7. Newest'
    BY <1>1, <1>3 DEF ConnInv, Newest, Busy, At
  <1>8. Parted'
    BY <1>2 DEF Parted
  <1>9. Pill'
    BY <1>2, <1>3, SamePill DEF ConnInv, At
  <1> QED BY <1>5, <1>6, <1>7, <1>8, <1>9 DEF ConnInv

\* An intent or an attempt whose time is up goes.
LEMMA ExpireKeeps == ASSUME ConnInv, Expire PROVE ConnInv'
  <1>1. /\ intent' \in {intent, None} /\ attempt' \in {attempt, None}
        /\ UNCHANGED <<held, worker, desk, pages, clicks, past>>
    BY DEF Expire
  <1>2. UNCHANGED <<finish, shakes, parting, leaving, popup, announcing, prompt, access, tabs, app, code>>
    BY <1>1 DEF worker, desk, pages
  <1>3. left' \in Budget
    BY SpentIs DEF Expire, ConnInv, ConnectionTypeOK
  <1>4. ConnectionTypeOK'
    BY <1>1, <1>2, <1>3 DEF ConnInv, ConnectionTypeOK
  <1>5. InOrder' /\ OneTabPerClick' /\ Unmet' /\ Newest' /\ Parted' /\ Pill' /\ Cut'
    BY <1>1, <1>2, LessInOrder, LessNew, LessParted, LessCut, SamePill DEF ConnInv, SameCut
  <1> QED BY <1>4, <1>5 DEF ConnInv

-----------------------------------------------------------------------------
(* The pill.                                                               *)

\* Only the app page changes.
LEMMA AppKeeps ==
    ASSUME ConnInv, app' \in App, app'.waiting \cup app'.asked \subseteq 1 .. app'.latest, Pill', left' \in Budget,
           UNCHANGED <<storage, worker, desk, tabs, code, clicks, past>>
    PROVE  ConnInv'
  <1>1. UNCHANGED <<held, attempt, intent, finish, shakes, parting, leaving, popup, announcing, prompt, access>>
    BY DEF storage, worker, desk
  <1>2. ConnectionTypeOK'
    BY <1>1 DEF ConnInv, ConnectionTypeOK
  <1>3. InOrder' /\ OneTabPerClick' /\ Unmet' /\ Newest' /\ Parted' /\ Cut'
    BY <1>1, LessInOrder, LessNew, LessParted, LessCut DEF ConnInv, SameCut
  <1> QED BY <1>2, <1>3 DEF ConnInv

\* A new question is the latest, and is not answered; what is on its way is
\* remembered with it.
LEMMA ProbeIs ==
    ASSUME NEW a \in App, a.waiting \cup a.asked \subseteq 1 .. a.latest
    PROVE  /\ Probe(a) \in App /\ Probe(a).waiting \cup Probe(a).asked \subseteq 1 .. Probe(a).latest
           /\ Probe(a).latest \in Probe(a).waiting /\ Probe(a).coming = a.coming
           /\ Probe(a).since <=> ConnectedTo(Home) \/ (a.since /\ (a.asked # {} \/ a.coming \/ Reaching))
  <1>1. PICK n : n = a.latest + 1
    OBVIOUS
  <1>2. PICK since \in BOOLEAN : since <=> ConnectedTo(Home) \/ (a.since /\ (a.asked # {} \/ a.coming \/ Reaching))
    OBVIOUS
  <1>3. n \in Nat /\ a.latest \in Nat /\ n = a.latest + 1
    BY <1>1 DEF App
  <1>4. PICK waiting, asked : waiting = a.waiting \cup {n} /\ asked = IF a.bridge THEN a.asked \cup {n} ELSE a.asked
    OBVIOUS
  <1>5. waiting \in SUBSET Nat /\ asked \in SUBSET Nat /\ n \in waiting
    BY <1>3, <1>4 DEF App
  <1>6. waiting \cup asked \subseteq 1 .. n
    <2>1. 1 .. a.latest \subseteq 1 .. n /\ n \in 1 .. n
      BY <1>3
    <2> QED BY <1>4, <2>1
  <1>7. Probe(a) = [a EXCEPT !.latest = n, !.waiting = waiting, !.asked = asked, !.since = since]
    BY <1>1, <1>2, <1>4 DEF Probe
  <1>8. PICK p : p = Probe(a)
    OBVIOUS
  <1>9. p \in App /\ p.latest = n /\ p.waiting = waiting /\ p.asked = asked /\ p.coming = a.coming /\ p.since = since
    BY <1>3, <1>5, <1>7, <1>8 DEF App
  <1> QED BY <1>2, <1>5, <1>6, <1>8, <1>9

\* The app page asks, is answered or gives up waiting.
LEMMA ProbesKeep == ASSUME ConnInv, Focus \/ ReloadApp PROVE ConnInv'
  <1>1. UNCHANGED <<storage, worker, desk, tabs, code, clicks, past>>
    BY DEF Focus, ReloadApp
  <1>2. left' \in Budget
    BY SpentIs DEF Focus, ReloadApp, ConnInv, ConnectionTypeOK, Op
  <1>3. PICK a : /\ app' = Probe(a) /\ a \in App /\ a.waiting \cup a.asked \subseteq 1 .. a.latest
                 /\ a.since = app.since /\ (a.coming => app.coming)
    <2>1. CASE Focus
      BY <2>1 DEF Focus, ConnInv, ConnectionTypeOK
    <2>2. CASE ReloadApp
      <3>1. PICK a : a = [AppPage(FALSE) EXCEPT !.event = TRUE, !.version = "unknown", !.since = app.since]
        OBVIOUS
      <3>2. AppPage(FALSE) \in App /\ AppPage(FALSE).waiting = {} /\ AppPage(FALSE).asked = {}
            /\ AppPage(FALSE).coming = FALSE /\ app.since \in BOOLEAN
        BY DEF AppPage, App, ConnInv, ConnectionTypeOK
      <3>3. a \in App /\ a.waiting \cup a.asked \subseteq 1 .. a.latest /\ a.since = app.since /\ a.coming = FALSE
        BY <3>1, <3>2 DEF App
      <3> QED BY <2>2, <3>1, <3>3 DEF ReloadApp
    <2> QED BY <2>1, <2>2
  <1>4. /\ app' \in App /\ app'.waiting \cup app'.asked \subseteq 1 .. app'.latest
        /\ app'.latest \in app'.waiting /\ app'.coming = a.coming
        /\ app'.since <=> ConnectedTo(Home) \/ (a.since /\ (a.asked # {} \/ a.coming \/ Reaching))
    BY <1>3, ProbeIs
  <1>5. UNCHANGED <<held, finish, shakes>>
    BY <1>1 DEF storage, worker
  <1>6. Pill'
    <2>1. ConnectedTo(Home)' => app'.since
      BY <1>4, <1>5 DEF ConnectedTo
    <2>2. app'.coming => app'.since
      BY <1>3, <1>4 DEF ConnInv, Pill
    <2>3. \A s \in shakes' : s.pc = "kept" /\ s.origin = Home => app'.since
      BY <1>3, <1>4, <1>5 DEF ConnInv, Pill, Reaching
    <2>4. At("forget")' /\ finish'.took.origin = Home => app'.since
      BY <1>3, <1>4, <1>5 DEF ConnInv, Pill, Reaching, At
    <2> QED BY <1>4, <2>1, <2>2, <2>3, <2>4 DEF Pill
  <1> QED BY <1>1, <1>2, <1>4, <1>6, AppKeeps

LEMMA AnswersKeep ==
    ASSUME ConnInv,
           injectIntoConnectedPage \/ Ready \/ \E i \in app.waiting \cup app.asked : answerProbe(i) \/ ProbeTimesOut(i)
    PROVE  ConnInv'
  <1>1. UNCHANGED <<storage, worker, desk, tabs, code, clicks, past, left>>
    BY DEF injectIntoConnectedPage, Ready, answerProbe, ProbeTimesOut
  <1>2. app \in App /\ app.waiting \cup app.asked \subseteq 1 .. app.latest /\ Pill /\ left' \in Budget
    BY <1>1 DEF ConnInv, ConnectionTypeOK
  <1>3. UNCHANGED <<held, finish, shakes>>
    BY <1>1 DEF storage, worker
  <1>4. /\ app' \in App /\ app'.latest = app.latest /\ app'.since = app.since
        /\ app'.waiting \subseteq app.waiting /\ app'.asked \subseteq app.asked
        /\ app'.coming => app.coming \/ ConnectedTo(Home)
        /\ app'.waiting = {} /\ app'.version = "found" => app.since
        /\ app'.waiting # {} => app.latest \in app'.waiting \/ app'.version # "found"
    <2>1. CASE injectIntoConnectedPage
      BY <1>2, <2>1 DEF injectIntoConnectedPage, App, Pill
    <2>2. CASE Ready
      <3>1. PICK v \in {"unknown", "none", "found"} :
              app' = [app EXCEPT !.coming = FALSE, !.waiting = {}, !.version = v]
        <4>1. PICK v : v = IF app.latest \in app.waiting THEN "found" ELSE app.version
          OBVIOUS
        <4>2. v \in {"unknown", "none", "found"}
          BY <1>2, <4>1 DEF App
        <4>3. app' = [app EXCEPT !.coming = FALSE, !.waiting = {}, !.version = v]
          BY <2>2, <4>1 DEF Ready
        <4> QED BY <4>2, <4>3
      <3>2. app.since
        BY <1>2, <2>2 DEF Ready, Pill
      <3> QED BY <1>2, <3>1, <3>2 DEF App
    <2>3. CASE \E i \in app.waiting \cup app.asked : answerProbe(i)
      <3>1. PICK i : answerProbe(i)
        BY <2>3
      <3>2. PICK b \in BOOLEAN : b <=> app.coming \/ ConnectedTo(Home)
        OBVIOUS
      <3>3. PICK asked : asked = app.asked \ {i}
        OBVIOUS
      <3>4. app' = [app EXCEPT !.asked = asked, !.coming = b]
        <4>1. app.coming \in BOOLEAN
          BY <1>2 DEF App
        <4>2. b = (app.coming \/ Answers(i))
          BY <3>2, <4>1 DEF Answers
        <4> QED BY <3>1, <3>3, <4>2 DEF answerProbe
      <3> QED BY <1>2, <3>2, <3>3, <3>4 DEF App, Pill
    <2>4. CASE \E i \in app.waiting \cup app.asked : ProbeTimesOut(i)
      <3>1. PICK i : ProbeTimesOut(i)
        BY <2>4
      <3>2. PICK waiting, v : waiting = app.waiting \ {i} /\ v = IF i = app.latest THEN "none" ELSE app.version
        OBVIOUS
      <3>3. app' = [app EXCEPT !.waiting = waiting, !.version = v] /\ i \in app.waiting
        BY <3>1, <3>2 DEF ProbeTimesOut
      <3>4. v \in {"unknown", "none", "found"} /\ waiting \in SUBSET Nat
        BY <1>2, <3>2 DEF App
      <3>5. app' \in App /\ app'.waiting = waiting /\ app'.version = v /\ app'.latest = app.latest
            /\ app'.since = app.since /\ app'.asked = app.asked /\ app'.coming = app.coming
        BY <1>2, <3>3, <3>4 DEF App
      <3>6. app'.waiting = {} /\ app'.version = "found" => app.since
        BY <1>2, <3>2, <3>3, <3>5 DEF Pill
      <3>7. app'.waiting # {} => app.latest \in app'.waiting \/ app'.version # "found"
        BY <1>2, <3>2, <3>3, <3>5 DEF Pill
      <3> QED BY <3>2, <3>5, <3>6, <3>7
    <2> QED BY <2>1, <2>2, <2>3, <2>4
  <1>5. Pill'
    BY <1>2, <1>3, <1>4 DEF Pill, ConnectedTo, At
  <1>6. app'.waiting \cup app'.asked \subseteq 1 .. app'.latest
    BY <1>2, <1>4
  <1> QED BY <1>1, <1>2, <1>4, <1>5, <1>6, AppKeeps

-----------------------------------------------------------------------------
(* Every step of the extension.                                            *)

\* What recording does leaves connections alone.
LEMMA RecordingApart == ASSUME ConnInv, UNCHANGED connVars, left' \in Budget PROVE ConnInv'
  <1>1. UNCHANGED <<storage, worker, desk, tabs, code, clicks, past>> /\ app' = app /\ UNCHANGED <<held, finish, shakes>>
    BY DEF connVars, pages, storage, worker
  <1>2. Pill'
    BY <1>1, SamePill DEF ConnInv
  <1> QED BY <1>1, <1>2, AppKeeps DEF ConnInv, ConnectionTypeOK

\* No step of connecting breaks what connections keep to.
LEMMA ConnectionKeeps == ASSUME ConnInv, ConnectionNext PROVE ConnInv'
  <1>1. CASE OpenPopup \/ ClosePopup \/ Refresh
    BY <1>1, LooksKeep
  <1>2. CASE \E typed \in Addresses, how \in {"page", "code"} : Connect(typed, how)
    BY <1>2, ConnectKeeps
  <1>3. CASE announce \/ Allow \/ Decline \/ PopupFinishes
    BY <1>3, AnnounceKeeps, AllowKeeps, DeclineKeeps, PopupFinishesKeeps
  <1>4. CASE Finishing
    BY <1>4, TakeKeeps, PerformKeeps, StoresKeep, InjectIfLoadedKeeps, SpendKeeps, CodeRememberedKeeps,
       CodeLandedKeeps DEF Finishing
  <1>5. CASE Paging \/ \E t \in Clicks : ReloadTab(t) \/ CloseTab(t)
    BY <1>5, PageActsKeep, InjectsKeep DEF Paging
  <1>6. CASE Shaking
    BY <1>6, AcceptKeeps, ShakeRememberedKeeps, ShakeLandedKeeps DEF Shaking
  <1>7. CASE showCode
    BY <1>7, ShowCodeKeeps
  <1>8. CASE Disconnect \/ Parting
    BY <1>8, DisconnectKeeps, ForgetsKeep, DisconnectIntentKeeps, GiveBackKeeps DEF Parting
  <1>9. CASE Expire
    BY <1>9, ExpireKeeps
  <1>10. CASE Focus \/ ReloadApp
    BY <1>10, ProbesKeep
  <1>11. CASE Probing
    BY <1>11, AnswersKeep DEF Probing
  <1> QED BY <1>1, <1>2, <1>3, <1>4, <1>5, <1>6, <1>7, <1>8, <1>9, <1>10, <1>11 DEF ConnectionNext

-----------------------------------------------------------------------------
(* What a recording is made of.                                            *)

\* Sequences: one more, ...
LEMMA AppendIs ==
    ASSUME NEW S, NEW s \in Seq(S), NEW e \in S
    PROVE  /\ Append(s, e) \in Seq(S) /\ DOMAIN Append(s, e) = DOMAIN s \cup {Len(s) + 1} /\ Len(s) + 1 \notin DOMAIN s
           /\ DOMAIN s = 1 .. Len(s) /\ Len(s) \in Nat /\ Len(Append(s, e)) = Len(s) + 1
           /\ Append(s, e)[Len(s) + 1] = e /\ \A k \in DOMAIN s : Append(s, e)[k] = s[k]
  OBVIOUS

\* ... the first taken off, ...
LEMMA TailIs ==
    ASSUME NEW S, NEW s \in Seq(S), s # <<>>
    PROVE  /\ Tail(s) \in Seq(S) /\ Head(s) \in S /\ 1 \in DOMAIN s /\ s[1] = Head(s)
           /\ \A k \in DOMAIN Tail(s) : k + 1 \in DOMAIN s /\ Tail(s)[k] = s[k + 1] /\ k \in Nat
           /\ \A k \in DOMAIN s : k \in Nat /\ (k = 1 \/ (k - 1 \in DOMAIN Tail(s) /\ Tail(s)[k - 1] = s[k]))
  OBVIOUS

\* ... and the last.
LEMMA FrontIs ==
    ASSUME NEW S, NEW s \in Seq(S), s # <<>>
    PROVE  /\ Front(s) \in Seq(S) /\ DOMAIN Front(s) = DOMAIN s \ {Len(s)} /\ Last(s) = s[Len(s)] /\ Last(s) \in S
           /\ Len(s) \in DOMAIN s /\ Len(Front(s)) = Len(s) - 1 /\ \A k \in DOMAIN Front(s) : Front(s)[k] = s[k]
  <1>1. PICK n : n = Len(s)
    OBVIOUS
  <1>2. n \in Nat /\ n >= 1 /\ DOMAIN s = 1 .. n
    BY <1>1
  <1>3. Front(s) = SubSeq(s, 1, n - 1) /\ Last(s) = s[n]
    BY <1>1 DEF Front, Last
  <1>4. SubSeq(s, 1, n - 1) = [k \in 1 .. n - 1 |-> s[k]]
    BY <1>2
  <1>5. PICK f : f = [k \in 1 .. n - 1 |-> s[k]]
    OBVIOUS
  <1>6. f \in Seq(S) /\ Len(f) = n - 1 /\ DOMAIN f = 1 .. n - 1 /\ \A k \in DOMAIN f : f[k] = s[k]
    BY <1>2, <1>5
  <1> QED BY <1>1, <1>2, <1>3, <1>4, <1>5, <1>6

\* One thing added to none is that thing.
LEMMA OneIs == ASSUME NEW m PROVE Append(<<>>, m) = <<m>>
  <1>1. PICK s : s = <<>>
    OBVIOUS
  <1>2. s \in Seq({m}) /\ Len(s) = 0
    BY <1>1
  <1>3. PICK t : t = Append(s, m)
    OBVIOUS
  <1>4. t \in Seq({m}) /\ Len(t) = 1 /\ t[1] = m
    BY <1>2, <1>3
  <1>5. PICK u : u = <<m>>
    OBVIOUS
  <1>6. u \in Seq({m}) /\ Len(u) = 1 /\ u[1] = m
    BY <1>5
  <1>7. t = u
    BY <1>4, <1>6, SeqEqual
  <1> QED BY <1>1, <1>3, <1>5, <1>7

LEMMA OnlyIs ==
    ASSUME NEW S, NEW s \in Seq(S), s = <<>>, NEW e \in S
    PROVE  \A j \in DOMAIN Append(s, e) : j = 1 /\ Append(s, e)[j] = e
  <1>1. Len(s) = 0 /\ DOMAIN s = {}
    OBVIOUS
  <1>2. PICK t : t = Append(s, e)
    OBVIOUS
  <1>3. DOMAIN t = DOMAIN s \cup {Len(s) + 1} /\ t[Len(s) + 1] = e
    BY <1>2, AppendIs
  <1> QED BY <1>1, <1>2, <1>3

\* A page that has met an element numbers it.
LEMMA MetIs ==
    ASSUME NEW d \in Page, NEW el \in DOMAIN Elements
    PROVE  /\ Met(d, el) \in Page
           /\ Met(d, el).load = d.load /\ Met(d, el).url = d.url /\ Met(d, el).press = d.press
           /\ Met(d, el).gone = d.gone /\ Met(d, el).installed = d.installed /\ Met(d, el).by = d.by
           /\ Number(d, el) \in DOMAIN Met(d, el).seen /\ Number(d, el) \in Nat
           /\ Met(d, el).seen[Number(d, el)] = el
           /\ \A k \in DOMAIN d.seen : k \in DOMAIN Met(d, el).seen /\ Met(d, el).seen[k] = d.seen[k]
  <1>1. d.seen \in Seq(DOMAIN Elements)
    BY DEF Page
  <1>2. /\ Met(d, el) \in Page
        /\ Met(d, el).load = d.load /\ Met(d, el).url = d.url /\ Met(d, el).press = d.press
        /\ Met(d, el).gone = d.gone /\ Met(d, el).installed = d.installed /\ Met(d, el).by = d.by
        /\ \A k \in DOMAIN d.seen : k \in DOMAIN Met(d, el).seen /\ Met(d, el).seen[k] = d.seen[k]
        /\ \E k \in DOMAIN Met(d, el).seen : Met(d, el).seen[k] = el
    <2>1. CASE el \in Range(d.seen)
      BY <2>1 DEF Met, Range
    <2>2. CASE el \notin Range(d.seen)
      <3>1. PICK seen : seen = Append(d.seen, el)
        OBVIOUS
      <3>2. /\ seen \in Seq(DOMAIN Elements) /\ Len(d.seen) + 1 \in DOMAIN seen /\ seen[Len(d.seen) + 1] = el
            /\ \A k \in DOMAIN d.seen : k \in DOMAIN seen /\ seen[k] = d.seen[k]
        BY <1>1, <3>1, AppendIs
      <3>3. Met(d, el) = [d EXCEPT !.seen = seen]
        BY <2>2, <3>1 DEF Met
      <3> QED BY <3>2, <3>3 DEF Page
    <2> QED BY <2>1, <2>2
  <1>3. Number(d, el) \in DOMAIN Met(d, el).seen /\ Met(d, el).seen[Number(d, el)] = el
    BY <1>2 DEF Number
  <1>4. Met(d, el).seen \in Seq(DOMAIN Elements)
    BY <1>2 DEF Page
  <1> QED BY <1>2, <1>3, <1>4

\* The values of a password are not in its candidates, nor in what is told of it.
Silent(m) == Elements[m.el].is = "password" => Mute(m)

\* What the content script says is of its page, and says nothing of a password.
LEMMA MessageIs ==
    ASSUME NEW type \in {"ax", "click", "type", "extract"}, NEW d \in Page, NEW el \in DOMAIN Elements, NEW act \in Nat
    PROVE  LET m == Message(type, d, el, act) IN
           /\ m \in Told /\ m.type = type /\ m.load = d.load /\ m.el = el /\ m.act = act /\ Silent(m)
           /\ m.key = <<d.load, Number(d, el)>>
  <1>1. PICK m : m = Message(type, d, el, act)
    OBVIOUS
  <1>2. Elements[el] \in Element
    BY PageAssumption
  <1>3. PICK cands, value, secret :
          /\ cands = (IF type = "ax" THEN {} ELSE candidatesFor(el))
          /\ value = (IF type = "type" /\ Elements[el].is = "field" THEN "typed" ELSE "")
          /\ secret = (type = "type" /\ Elements[el].is = "password")
    OBVIOUS
  <1>4. /\ cands \in SUBSET Kinds /\ value \in {"", "typed"} /\ secret \in BOOLEAN
        /\ Elements[el].is = "password" => "text" \notin cands /\ value = ""
    BY <1>2, <1>3 DEF candidatesFor, Element
  <1>5. <<d.load, Number(d, el)>> \in Nat \X Nat
    BY MetIs DEF Page
  <1>6. m = [type |-> type, load |-> d.load, key |-> <<d.load, Number(d, el)>>, el |-> el, act |-> act,
             cands |-> cands, value |-> value, secret |-> secret]
    BY <1>1, <1>3 DEF Message, Key
  <1>7. m \in Told
    BY <1>4, <1>5, <1>6 DEF Told, Page
  <1>8. Silent(m)
    BY <1>4, <1>6 DEF Silent, Mute
  <1> QED BY <1>1, <1>6, <1>7, <1>8

\* Everything said of passwords is silent: on its way, queued, recorded.
Told1(s) == s \in Seq(Told) /\ \A k \in DOMAIN s : Silent(s[k])
Queue1(s) ==
    /\ s \in Seq(Queued)
    /\ \A k \in DOMAIN s : s[k].type \notin {"nav", "download"} => s[k] \in Told /\ s[k].type # "ax" /\ Silent(s[k])
    /\ \A k \in DOMAIN s : s[k].type = "nav" => s[k].nav \in Navigation
Steps1(s) ==
    /\ s \in Seq(Step)
    /\ \A k \in DOMAIN s : s[k].on # None /\ Elements[s[k].on].is = "password" => Mute(s[k])

\* The page and what is on its way from it, ...
OnPage ==
    /\ doc \in Page /\ (doc.press # None => Silent(doc.press.event))
    /\ down \in [act : Nat, el : DOMAIN Elements, moved : BOOLEAN] \cup {None}
    /\ Told1(wire) /\ navs \in Seq(Navigation)
    /\ slow \subseteq Nat /\ acts \in Nat

\* ... what the worker has of it in memory, ...
InMemory ==
    /\ Queue1(queue)
    /\ queries \subseteq [key : Nat \X Nat, answer : {"asked", "none"} \cup DOMAIN Elements]
    /\ \A p, q \in queries : p.key = q.key => p = q

\* ... the recording, ...
InStore ==
    /\ rec \in Record \cup {None} /\ (rec # None => Steps1(rec.steps))
    /\ starting \in {None, "told", "asked", "taken"}
    /\ offer \in [mode : Mode, session : Nat] \cup {None}
    /\ heard \in Seq(Nat)

\* ... and what is being saved, and was: a Secret that was made is one, and the worker
\* found the site it reads the login of permitted.
InSaving ==
    /\ vault \subseteq Known \cup {NewSecret} /\ Known \subseteq vault
    /\ site \in BOOLEAN /\ cookies \in BOOLEAN
    /\ login \in {"kept", "captured", "bare", "raced", "empty"} /\ LoginKept
    /\ saving # None =>
         /\ saving = [steps |-> saving.steps, bindings |-> saving.bindings, made |-> saving.made, raced |-> saving.raced,
                      upload |-> saving.upload]
         /\ saving.upload = "permitted" => site \/ saving.raced
         /\ saving.steps \in Seq(Step)
         /\ saving.bindings \in [NeedsSecret(saving.steps) -> Binding]
         /\ saving.made # {} => NewSecret \in vault
    /\ SavedBinds

RecInv == OnPage /\ InMemory /\ InStore /\ InSaving

\* The types and the secrecy of passwords follow.
LEMMA RecTypes == ASSUME RecInv PROVE RecorderTypeOK
  BY DEF RecInv, OnPage, InMemory, InStore, InSaving, RecorderTypeOK, Told1, Queue1

LEMMA PasswordsAreKept == ASSUME RecInv PROVE PasswordsStay
  BY DEF RecInv, OnPage, InStore, PasswordsStay, Told1, Steps1, Silent, Recorded

\* Messages and Steps stay silent about passwords whatever is said, heard, queued and worked at.
LEMMA SaidIs ==
    ASSUME NEW s, Told1(s), NEW m \in Told, Silent(m)
    PROVE  Told1(Append(s, m))
  BY AppendIs DEF Told1

LEMMA HeardIs ==
    ASSUME NEW s, Told1(s), s # <<>>
    PROVE  Told1(Tail(s)) /\ Head(s) \in Told /\ Silent(Head(s))
  BY TailIs DEF Told1

LEMMA QueuedIs ==
    ASSUME NEW s, Queue1(s), NEW e,
           \/ e \in Told /\ e.type # "ax" /\ Silent(e)
           \/ \E n \in Navigation : e = [type |-> "nav", nav |-> n]
           \/ e = [type |-> "download"]
    PROVE  Queue1(Append(s, e))
  <1>1. e \in Queued
    BY DEF Queued
  <1>2. /\ e.type \notin {"nav", "download"} => e \in Told /\ e.type # "ax" /\ Silent(e)
        /\ e.type = "nav" => e.nav \in Navigation
    <2>1. CASE e \in Told /\ e.type # "ax" /\ Silent(e)
      BY <2>1 DEF Told
    <2>2. CASE \E n \in Navigation : e = [type |-> "nav", nav |-> n]
      BY <2>2
    <2>3. CASE e = [type |-> "download"]
      BY <2>3
    <2> QED BY <2>1, <2>2, <2>3
  <1> QED BY <1>1, <1>2, AppendIs DEF Queue1

LEMMA WorkedIs ==
    ASSUME NEW s, Queue1(s), s # <<>>
    PROVE  /\ Queue1(Tail(s))
           /\ Head(s).type \notin {"nav", "download"} => Head(s) \in Told /\ Head(s).type # "ax" /\ Silent(Head(s))
           /\ Head(s).type = "nav" => Head(s).nav \in Navigation
  BY TailIs DEF Queue1

\* At first nothing is recorded.
LEMMA RecInitHolds == RecorderInit => RecInv
  <1> SUFFICES ASSUME RecorderInit PROVE RecInv
    OBVIOUS
  <1>1. <<>> \in Seq(Told) /\ <<>> \in Seq(Navigation) /\ <<>> \in Seq(Queued) /\ <<>> \in Seq(Nat)
        /\ <<>> \in Seq(DOMAIN Elements) /\ DOMAIN (<<>>) = {}
    OBVIOUS
  <1>2. Document \in Page /\ Document.press = None
    BY <1>1 DEF Document, Page
  <1>3. OnPage /\ InMemory
    BY <1>1, <1>2 DEF OnPage, InMemory, RecorderInit, Told1, Queue1
  <1>4. InStore /\ InSaving
    BY <1>1 DEF InStore, InSaving, RecorderInit, LoginKept, SavedBinds
  <1> QED BY <1>3, <1>4 DEF RecInv

\* What an act or a handler leaves as it is stays as it was.
LEMMA RestIs ==
    ASSUME RecInv
    PROVE  /\ UNCHANGED <<tab, acts>> => OnPage'
           /\ UNCHANGED assembly => InMemory'
           /\ UNCHANGED <<rec, starting, offer, heard>> => InStore'
           /\ UNCHANGED <<saving, vault, saved, logins>> => InSaving'
  <1>1. UNCHANGED <<tab, acts>> => OnPage'
    BY DEF RecInv, OnPage, tab, Told1, Silent
  <1>2. UNCHANGED assembly => InMemory'
    BY DEF RecInv, InMemory, assembly, Queue1, Silent
  <1>3. UNCHANGED <<rec, starting, offer, heard>> => InStore'
    BY DEF RecInv, InStore
  <1>4. UNCHANGED <<saving, vault, saved, logins>> => InSaving'
    BY DEF RecInv, InSaving, logins, LoginKept, SavedBinds
  <1> QED BY <1>1, <1>2, <1>3, <1>4

-----------------------------------------------------------------------------
(* What a recording keeps to: every act of it.                             *)

\* A recording is offered, kept and started, ...
LEMMA OffersKeep ==
    ASSUME RecInv,
           (\E mode \in Mode : Offer(mode)) \/ acceptRecordingPageMessage \/ startPendingRecording
             \/ announceRecordingStart \/ takeRecordingIntent
    PROVE  RecInv'
  <1>1. acts \in Nat
    BY DEF RecInv, OnPage
  <1>2. UNCHANGED <<tab, assembly, outside>>
    BY DEF Offer, acceptRecordingPageMessage, startPendingRecording, announceRecordingStart, takeRecordingIntent
  <1>3. acts' \in Nat
    BY <1>1 DEF Offer, acceptRecordingPageMessage, startPendingRecording, announceRecordingStart, takeRecordingIntent
  <1>4. OnPage'
    BY <1>2, <1>3 DEF RecInv, OnPage, tab, Told1, Silent
  <1>5. InStore'
    <2>1. CASE \E mode \in Mode : Offer(mode)
      <3>1. offer' \in [mode : Mode, session : Nat]
        BY <1>1, <2>1 DEF Offer
      <3> QED BY <1>2, <2>1, <3>1 DEF Offer, RecInv, InStore, outside
    <2>2. CASE acceptRecordingPageMessage
      <3>1. CASE rec' = rec
        BY <1>2, <2>2, <3>1 DEF acceptRecordingPageMessage, RecInv, InStore, outside
      <3>2. CASE rec' = readPendingRecording
        <4>1. <<>> \in Seq(Step) /\ DOMAIN (<<>>) = {}
          OBVIOUS
        <4>2. offer \in [mode : Mode, session : Nat]
          BY <2>2 DEF acceptRecordingPageMessage, RecInv, InStore
        <4>3. rec' \in Record /\ rec'.steps = <<>>
          BY <3>2, <4>1, <4>2 DEF readPendingRecording, Record
        <4> QED BY <1>2, <2>2, <4>1, <4>3 DEF acceptRecordingPageMessage, RecInv, InStore, outside, Steps1
      <3> QED BY <2>2, <3>1, <3>2 DEF acceptRecordingPageMessage
    <2>3. CASE startPendingRecording \/ announceRecordingStart \/ takeRecordingIntent
      BY <1>2, <2>3 DEF startPendingRecording, announceRecordingStart, takeRecordingIntent, RecInv, InStore, outside
    <2> QED BY <2>1, <2>2, <2>3
  <1> QED BY <1>2, <1>4, <1>5, RestIs DEF RecInv, outside

\* ... with the page it begins on as its first Step.
LEMMA NavigateIs ==
    ASSUME NEW act \in Nat, NEW again \in BOOLEAN
    PROVE  LET s == NavigateStep(act, again) IN
           /\ s \in Step /\ s.on = None /\ s.type = "navigate" /\ s.act = act /\ s.role = None
           /\ ~s.secret /\ ~s.late /\ s.again = again
  BY DEF NavigateStep, Step

LEMMA StepsAre ==
    ASSUME NEW s, Steps1(s), NEW e \in Step, e.on # None /\ Elements[e.on].is = "password" => Mute(e)
    PROVE  Steps1(Append(s, e))
  BY AppendIs DEF Steps1

LEMMA StartKeeps == ASSUME RecInv, startRecording PROVE RecInv'
  <1>1. UNCHANGED <<offer, down, wire, navs, slow, assembly, outside, acts>> /\ starting' = None
    BY DEF startRecording
  <1>2. CASE UNCHANGED <<rec, doc>>
    BY <1>1, <1>2, RestIs DEF RecInv, tab, InStore, outside
  <1>3. CASE rec # None /\ rec' = [rec EXCEPT !.state = "recording",
                                  !.steps = IF rec.mode = "record" THEN <<NavigateStep(0, FALSE)>> ELSE @]
                        /\ doc' = [doc EXCEPT !.installed = TRUE]
    <2>1. doc' \in Page /\ doc'.press = doc.press
      BY <1>3 DEF Page, RecInv, OnPage
    <2>2. OnPage'
      BY <1>1, <2>1 DEF RecInv, OnPage, Told1, Silent
    <2>3. Steps1(<<NavigateStep(0, FALSE)>>)
      <3>1. PICK d : d = NavigateStep(0, FALSE)
        OBVIOUS
      <3>2. d \in Step /\ d.on = None
        BY <3>1, NavigateIs
      <3>3. Steps1(<<d>>)
        BY <3>2 DEF Steps1
      <3> QED BY <3>1, <3>3
    <2>4. rec' \in Record /\ Steps1(rec'.steps)
      BY <1>3, <2>3 DEF Record, RecInv, InStore, Steps1
    <2>5. InStore'
      BY <1>1, <2>4 DEF RecInv, InStore, outside, Steps1, Mute
    <2> QED BY <1>1, <2>2, <2>5, RestIs DEF RecInv, outside
  <1> QED BY <1>2, <1>3 DEF startRecording

\* A page that an act moves: it routes, and takes an element away, or is left.
Turned(d, act) == [d EXCEPT !.url = @ + 1, !.by = act]
TakenAway(d, el, act) == [d EXCEPT !.url = @ + 1, !.by = act, !.gone = @ \cup {el}]
Leaves(act) == [NewPage EXCEPT !.by = act]

LEMMA RoutedIs ==
    ASSUME NEW d \in Page, NEW el \in DOMAIN Elements, NEW act \in Nat
    PROVE  LET e == TakenAway(d, el, act) IN
           /\ e \in Page /\ e.press = d.press /\ e.load = d.load /\ e.seen = d.seen /\ e.gone = d.gone \cup {el}
           /\ e.by = act
  <1>1. PICK u, g : u = d.url + 1 /\ g = d.gone \cup {el}
    OBVIOUS
  <1>2. u \in Nat /\ g \in SUBSET DOMAIN Elements
    BY <1>1 DEF Page
  <1>3. PICK e : e = [d EXCEPT !.url = u, !.by = act, !.gone = g]
    OBVIOUS
  <1>4. e \in Page /\ e.press = d.press /\ e.load = d.load /\ e.seen = d.seen /\ e.gone = g /\ e.by = act
    BY <1>2, <1>3 DEF Page
  <1>5. TakenAway(d, el, act) = e
    BY <1>1, <1>3 DEF TakenAway
  <1> QED BY <1>1, <1>4, <1>5

\* A page that routes.
LEMMA TurnedIs ==
    ASSUME NEW d \in Page, NEW act \in Nat
    PROVE  LET e == Turned(d, act) IN
           /\ e \in Page /\ e.press = d.press /\ e.load = d.load /\ e.seen = d.seen /\ e.gone = d.gone
           /\ e.by = act
  <1>1. PICK u : u = d.url + 1
    OBVIOUS
  <1>2. u \in Nat
    BY <1>1 DEF Page
  <1>3. PICK e : e = [d EXCEPT !.url = u, !.by = act]
    OBVIOUS
  <1>4. e \in Page /\ e.press = d.press /\ e.load = d.load /\ e.seen = d.seen /\ e.gone = d.gone /\ e.by = act
    BY <1>2, <1>3 DEF Page
  <1>5. Turned(d, act) = e
    BY <1>1, <1>3 DEF Turned
  <1> QED BY <1>4, <1>5

\* A press describes its element before it says so, ...
LEMMA PressKeeps ==
    ASSUME RecInv, NEW el \in DOMAIN Elements, NEW effect \in {"none", "route", "replace"}, Press(el, effect)
    PROVE  RecInv'
  <1>1. doc \in Page /\ acts \in Nat /\ acts + 1 \in Nat /\ navs \in Seq(Navigation) /\ Told1(wire)
    BY DEF RecInv, OnPage
  <1>2. PICK m : m = Message("click", doc, el, acts + 1)
    OBVIOUS
  <1>3. PICK x : x = Message("ax", doc, el, acts + 1)
    OBVIOUS
  <1>4. m \in Told /\ Silent(m) /\ x \in Told /\ Silent(x)
    BY <1>1, <1>2, <1>3, MessageIs
  <1>5. PICK d : d = Met(doc, el)
    OBVIOUS
  <1>6. d \in Page /\ d.url \in Nat
    BY <1>1, <1>5, MetIs DEF Page
  <1>7. PICK pressed : pressed = [d EXCEPT !.press = [event |-> m, url |-> d.url]]
    OBVIOUS
  <1>8. pressed \in Page /\ pressed.press.event = m
    BY <1>4, <1>6, <1>7 DEF Page
  <1>9. doc' \in Page /\ doc'.press.event = m
    <2>1. CASE effect = "none"
      <3>1. doc' = pressed
        BY <1>2, <1>5, <1>7, <2>1 DEF Press
      <3> QED BY <1>8, <3>1
    <2>2. CASE effect = "route"
      <3>1. doc' = Turned(pressed, acts + 1)
        BY <1>2, <1>5, <1>7, <2>2 DEF Press, Turned
      <3> QED BY <1>1, <1>8, <3>1, TurnedIs
    <2>3. CASE effect = "replace"
      <3>1. doc' = TakenAway(pressed, el, acts + 1)
        BY <1>2, <1>5, <1>7, <2>3 DEF Press, TakenAway
      <3> QED BY <1>1, <1>8, <3>1, RoutedIs
    <2> QED BY <2>1, <2>2, <2>3
  <1>10. Told1(wire')
    BY <1>1, <1>3, <1>4, SaidIs DEF Press
  <1>11. Routed(acts + 1, doc) \in Navigation
    BY <1>1 DEF Routed, Navigation, Page
  <1>12. navs' \in Seq(Navigation)
    BY <1>1, <1>11, AppendIs DEF Press
  <1>13. down' \in [act : Nat, el : DOMAIN Elements, moved : BOOLEAN]
    BY <1>1 DEF Press
  <1>14. OnPage'
    BY <1>1, <1>4, <1>9, <1>10, <1>12, <1>13 DEF Press, RecInv, OnPage, Silent, Told1
  <1> QED BY <1>14, RestIs DEF Press, outside, assembly, RecInv

\* ... its timer tells what the press described, ...
LEMMA PressTimerKeeps == ASSUME RecInv, PressTimer PROVE RecInv'
  <1>1. doc \in Page /\ doc.press # None /\ Told1(wire) /\ Silent(doc.press.event)
    BY DEF RecInv, OnPage, PressTimer
  <1>2. doc.press.event \in Told
    BY <1>1 DEF Page
  <1>3. doc' \in Page /\ doc'.press = None
    BY <1>1 DEF PressTimer, Page
  <1>4. Told1(wire')
    BY <1>1, <1>2, SaidIs DEF PressTimer
  <1>5. slow' \subseteq Nat
    BY DEF PressTimer, RecInv, OnPage
  <1>6. OnPage'
    BY <1>3, <1>4, <1>5 DEF PressTimer, RecInv, OnPage, Silent, Told1
  <1> QED BY <1>6, RestIs DEF PressTimer, outside, RecInv

\* The release of what was down.
LEMMA ClickedIs ==
    ASSUME doc \in Page, down # None, down \in [act : Nat, el : DOMAIN Elements, moved : BOOLEAN]
    PROVE  /\ Clicked(doc) \in Page /\ Clicked(doc).press = None /\ Clicked(doc).load = doc.load
           /\ Clicked(doc).gone = doc.gone /\ Clicked(doc).by = doc.by
           /\ \A k \in DOMAIN doc.seen : k \in DOMAIN Clicked(doc).seen /\ Clicked(doc).seen[k] = doc.seen[k]
           /\ Clicked(doc).seen = Met(doc, down.el).seen
  <1>1. PICK d : d = Met(doc, down.el)
    OBVIOUS
  <1>2. /\ d \in Page /\ d.load = doc.load /\ d.gone = doc.gone /\ d.by = doc.by
        /\ \A k \in DOMAIN doc.seen : k \in DOMAIN d.seen /\ d.seen[k] = doc.seen[k]
    BY <1>1, MetIs
  <1>3. Clicked(doc) = [d EXCEPT !.press = None, !.armed = FALSE]
    BY <1>1 DEF Clicked
  <1> QED BY <1>1, <1>2, <1>3 DEF Page

LEMMA NewPageIs ==
    ASSUME doc \in Page
    PROVE  /\ NewPage \in Page /\ NewPage.press = None /\ NewPage.load = doc.load + 1 /\ NewPage.seen = <<>>
           /\ NewPage.by = 0
  <1>1. <<>> \in Seq(DOMAIN Elements) /\ doc.load + 1 \in Nat
    BY DEF Page
  <1> QED BY <1>1 DEF NewPage, Document, Page

LEMMA LeavesIs ==
    ASSUME doc \in Page, NEW act \in Nat
    PROVE  LET e == Leaves(act) IN
           e \in Page /\ e.press = None /\ e.load = doc.load + 1 /\ e.seen = <<>> /\ e.by = act
  <1>1. PICK d : d = NewPage
    OBVIOUS
  <1>2. d \in Page /\ d.press = None /\ d.load = doc.load + 1 /\ d.seen = <<>>
    BY <1>1, NewPageIs
  <1>3. PICK e : e = [d EXCEPT !.by = act]
    OBVIOUS
  <1>4. e \in Page /\ e.press = None /\ e.load = doc.load + 1 /\ e.seen = <<>> /\ e.by = act
    BY <1>2, <1>3 DEF Page
  <1> QED BY <1>1, <1>3, <1>4 DEF Leaves

\* ... and the release is a click on the page that may go with it.
LEMMA ReleaseKeeps ==
    ASSUME RecInv, NEW effect \in {"none", "route", "load", "download"}, Release(effect)
    PROVE  RecInv'
  <1>1. /\ doc \in Page /\ navs \in Seq(Navigation) /\ Told1(wire) /\ Queue1(queue)
        /\ down # None /\ down \in [act : Nat, el : DOMAIN Elements, moved : BOOLEAN] /\ down' = None
    BY DEF RecInv, OnPage, InMemory, Release
  <1>2. CASE ~There(down.el)
    <2>1. UNCHANGED <<doc, wire, navs, queue>>
      BY <1>2 DEF Release
    <2>2. OnPage' /\ InMemory'
      BY <1>1, <2>1, RestIs DEF Release, RecInv, OnPage, Silent, Told1, assembly
    <2> QED BY <2>2, RestIs DEF Release, RecInv, outside
  <1>3. CASE There(down.el)
    <2>1. PICK m : m = Message(IF doc.armed THEN "extract" ELSE "click", doc, down.el, down.act)
      OBVIOUS
    <2>2. m \in Told /\ Silent(m)
      BY <1>1, <2>1, MessageIs
    <2>3. Told1(wire')
      BY <1>1, <1>3, <2>1, <2>2, SaidIs DEF Release
    <2>4. doc' \in Page /\ doc'.press = None
      <3>1. CASE effect = "route"
        <4>1. doc' = TakenAway(Clicked(doc), down.el, down.act)
          BY <1>3, <3>1 DEF Release, TakenAway
        <4> QED BY <1>1, <4>1, ClickedIs, RoutedIs
      <3>2. CASE effect = "load"
        <4>1. doc' = Leaves(down.act)
          BY <1>3, <3>2 DEF Release, Leaves
        <4> QED BY <1>1, <4>1, LeavesIs
      <3>3. CASE effect \in {"none", "download"}
        BY <1>1, <1>3, <3>3, ClickedIs DEF Release
      <3> QED BY <3>1, <3>2, <3>3
    <2>5. Routed(down.act, doc) \in Navigation /\ Committed(down.act, TRUE) \in Navigation
      BY <1>1 DEF Routed, Committed, Navigation, Page
    <2>6. navs' \in Seq(Navigation)
      <3>1. \/ navs' = navs \/ navs' = Append(navs, Routed(down.act, doc))
            \/ navs' = Append(navs, Committed(down.act, TRUE))
        BY <1>3 DEF Release
      <3>2. /\ Append(navs, Routed(down.act, doc)) \in Seq(Navigation)
            /\ Append(navs, Committed(down.act, TRUE)) \in Seq(Navigation)
        BY <1>1, <2>5, AppendIs
      <3> QED BY <1>1, <3>1, <3>2
    <2>7. Queue1(queue')
      <3>1. queue' \in {queue, Append(queue, [type |-> "download"])}
        BY <1>3 DEF Release
      <3>2. Queue1(Append(queue, [type |-> "download"]))
        BY <1>1, QueuedIs
      <3> QED BY <1>1, <3>1, <3>2
    <2>8. OnPage'
      BY <1>1, <2>3, <2>4, <2>6 DEF Release, RecInv, OnPage, Silent, Told1
    <2>9. InMemory'
      BY <2>7 DEF Release, RecInv, InMemory, Queue1
    <2> QED BY <2>8, <2>9, RestIs DEF Release, RecInv, outside
  <1> QED BY <1>2, <1>3

\* Two messages said at once.
LEMMA PairIs == ASSUME NEW x, NEW y PROVE <<x>> \o <<y>> = <<x, y>> /\ <<x>> \o <<>> = <<x>>
  <1>1. PICK a, b, c : a = <<x>> /\ b = <<y>> /\ c = <<>>
    OBVIOUS
  <1>2. a \in Seq({x, y}) /\ b \in Seq({x, y}) /\ c \in Seq({x, y}) /\ Len(a) = 1 /\ Len(b) = 1 /\ Len(c) = 0
        /\ a[1] = x /\ b[1] = y
    BY <1>1
  <1>3. /\ Len(a \o b) = 2 /\ (a \o b)[1] = x /\ (a \o b)[2] = y /\ a \o b \in Seq({x, y})
        /\ a \o c = a
    BY <1>2, ConcatProperties, ConcatEmptySeq, <1>1
  <1>4. a \o b = <<x, y>>
    <2>1. PICK c2 : c2 = <<x, y>>
      OBVIOUS
    <2>2. c2 \in Seq({x, y}) /\ Len(c2) = 2 /\ c2[1] = x /\ c2[2] = y
      BY <2>1
    <2>3. \A i \in 1 .. 2 : (a \o b)[i] = c2[i]
      BY <1>3, <2>2
    <2> QED BY <1>3, <2>1, <2>2, <2>3, SeqEqual
  <1> QED BY <1>1, <1>3, <1>4

\* A typed value is told, that of a password is not.
LEMMA TypingKeeps ==
    ASSUME RecInv, NEW el \in DOMAIN Elements, (\E typed \in BOOLEAN : Change(el, typed)) \/ WatchFrames(el)
    PROVE  RecInv'
  <1>1. doc \in Page /\ acts \in Nat /\ acts + 1 \in Nat /\ Told1(wire) /\ wire = <<>> /\ acts' = acts + 1
        /\ (doc.press # None => Silent(doc.press.event))
    BY DEF RecInv, OnPage, Change, WatchFrames, Room
  <1>2. UNCHANGED <<rec, starting, offer, down, navs, slow, assembly, outside>>
    BY DEF Change, WatchFrames
  <1>3. doc' \in Page /\ doc'.press = doc.press
    <2>1. PICK d : d = Met(doc, el)
      OBVIOUS
    <2>2. d \in Page /\ d.press = doc.press
      BY <1>1, <2>1, MetIs
    <2>3. doc' = d \/ doc' = [d EXCEPT !.warned = @ \cup {el}]
      BY <2>1 DEF Change, WatchFrames
    <2> QED BY <2>2, <2>3 DEF Page
  <1>4. \A type \in {"ax", "click", "type", "extract"} :
          Message(type, doc, el, acts + 1) \in Told /\ Silent(Message(type, doc, el, acts + 1))
    BY <1>1, MessageIs
  <1>5. Told1(wire')
    <2>1. PICK x, y, m :
            x = Message("ax", doc, el, acts + 1) /\ y = Message("type", doc, el, acts + 1)
              /\ m = Message("click", doc, el, acts + 1)
      OBVIOUS
    <2>2. x \in Told /\ Silent(x) /\ y \in Told /\ Silent(y) /\ m \in Told /\ Silent(m)
      BY <1>4, <2>1
    <2>3. wire' \in {<<x>>, <<x, y>>, Append(wire, m)}
      <3>1. CASE \E typed \in BOOLEAN : Change(el, typed)
        <4>1. wire' = <<x>> \o <<y>> \/ wire' = <<x>> \o <<>>
          BY <2>1, <3>1 DEF Change
        <4> QED BY <4>1, PairIs
      <3>2. CASE WatchFrames(el)
        BY <2>1, <3>2 DEF WatchFrames
      <3> QED BY <3>1, <3>2
    <2>4. CASE wire' = <<x>>
      BY <2>2, <2>4 DEF Told1
    <2>5. CASE wire' = <<x, y>>
      BY <2>2, <2>5 DEF Told1
    <2>6. CASE wire' = Append(wire, m)
      BY <1>1, <2>2, <2>6, SaidIs
    <2> QED BY <2>3, <2>4, <2>5, <2>6
  <1>6. OnPage'
    BY <1>1, <1>2, <1>3, <1>5 DEF RecInv, OnPage, Silent, Told1
  <1> QED BY <1>2, <1>6, RestIs DEF RecInv, outside

LEMMA TurnsKeep == ASSUME RecInv, armExtract \/ Visit PROVE RecInv'
  <1>1. doc \in Page /\ acts \in Nat /\ navs \in Seq(Navigation)
    BY DEF RecInv, OnPage
  <1>2. UNCHANGED <<rec, starting, offer, wire, slow, assembly, outside>>
    BY DEF armExtract, Visit
  <1>3. doc' \in Page /\ (doc'.press = None \/ doc'.press = doc.press)
    <2>1. CASE armExtract
      BY <1>1, <2>1 DEF armExtract, Armed, Page
    <2>2. CASE Visit
      BY <1>1, <2>2, NewPageIs DEF Visit
    <2> QED BY <2>1, <2>2
  <1>4. navs' \in Seq(Navigation)
    <2>1. Committed(acts + 1, FALSE) \in Navigation
      BY <1>1 DEF Committed, Navigation, Page
    <2>2. Append(navs, Committed(acts + 1, FALSE)) \in Seq(Navigation)
      BY <1>1, <2>1, AppendIs
    <2>3. navs' = navs \/ navs' = Append(navs, Committed(acts + 1, FALSE))
      BY DEF armExtract, Visit
    <2> QED BY <1>1, <2>2, <2>3
  <1>5. acts' \in Nat /\ (down' = down \/ down' = None)
    <2>1. acts' = acts \/ acts' = acts + 1
      BY DEF armExtract, Visit
    <2>2. down' = down \/ down' = None
      BY DEF armExtract, Visit
    <2> QED BY <1>1, <2>1, <2>2
  <1>6. OnPage'
    BY <1>2, <1>3, <1>4, <1>5 DEF RecInv, OnPage, Silent, Told1
  <1> QED BY <1>2, <1>6, RestIs DEF RecInv, outside

\* What an act set off moves the page once more.
LEMMA AgainIs ==
    ASSUME NEW n \in Navigation
    PROVE  LET m == [n EXCEPT !.again = TRUE] IN
           /\ m \in Navigation /\ m.act = n.act /\ m.routed = n.routed /\ m.link = n.link /\ m.load = n.load /\ m.again
  BY DEF Navigation

LEMMA RerouteKeeps == ASSUME RecInv, NEW effect \in {"route", "load"}, Reroute(effect) PROVE RecInv'
  <1>1. doc \in Page /\ doc.by \in Nat /\ doc.load \in Nat
    BY DEF RecInv, OnPage, Page
  <1>2. UNCHANGED <<rec, starting, offer, wire, slow, assembly, outside, acts>> /\ (down' = down \/ down' = None)
    BY DEF Reroute
  <1>3. doc' \in Page /\ (doc'.press = None \/ doc'.press = doc.press)
    <2>1. CASE doc' = NewPage
      BY <1>1, <2>1, NewPageIs
    <2>2. CASE doc' = Turned(doc, 0)
      BY <1>1, <2>2, TurnedIs
    <2> QED BY <2>1, <2>2 DEF Reroute, Turned
  <1>4. Routed(doc.by, doc) \in Navigation /\ Committed(doc.by, TRUE) \in Navigation
    BY <1>1 DEF Routed, Committed, Navigation
  <1>5. \E n \in Navigation : navs' = <<n>>
    <2>1. \E n \in Navigation : navs' = <<[n EXCEPT !.again = TRUE]>>
      BY <1>4 DEF Reroute
    <2> QED BY <2>1, AgainIs
  <1>6. navs' \in Seq(Navigation)
    BY <1>5
  <1>7. OnPage'
    BY <1>2, <1>3, <1>6 DEF RecInv, OnPage, Silent, Told1
  <1> QED BY <1>2, <1>7, RestIs DEF RecInv, outside

\* The worker hears the page.
LEMMA AcceptsKeep == ASSUME RecInv, acceptRecorderMessage PROVE RecInv'
  <1>1. Told1(wire) /\ wire # <<>> /\ Queue1(queue)
    BY DEF RecInv, OnPage, InMemory, acceptRecorderMessage
  <1>2. PICK msg : msg = Head(wire)
    OBVIOUS
  <1>3. Told1(wire') /\ msg \in Told /\ Silent(msg)
    BY <1>1, <1>2, HeardIs DEF acceptRecorderMessage
  <1>4. OnPage'
    BY <1>3 DEF acceptRecorderMessage, RecInv, OnPage, Told1, Silent
  <1>5. InMemory'
    <2>1. CASE UNCHANGED assembly
      BY <2>1, RestIs DEF RecInv
    <2>2. CASE queries' = Asked(msg.key) /\ UNCHANGED queue
      <3>1. msg.key \in Nat \X Nat
        BY <1>3 DEF Told
      <3> QED BY <2>2, <3>1 DEF Asked, RecInv, InMemory, Queue1, Silent
    <2>3. CASE msg.type # "ax" /\ queue' = Append(queue, msg) /\ UNCHANGED queries
      <3>1. Queue1(queue')
        BY <1>1, <1>3, <2>3, QueuedIs
      <3> QED BY <2>3, <3>1 DEF RecInv, InMemory, Queue1, Silent
    <2> QED BY <1>2, <2>1, <2>2, <2>3 DEF acceptRecorderMessage
  <1> QED BY <1>4, <1>5, RestIs DEF acceptRecorderMessage, outside, RecInv

LEMMA QueriesKeep == ASSUME RecInv, NEW q \in queries, queryAccessibility(q) PROVE RecInv'
  <1>1. PICK el : el = Found(q.key)
    OBVIOUS
  <1>2. el = None \/ el \in DOMAIN Elements
    BY <1>1 DEF Found, RecInv, OnPage, Page
  <1>3. PICK r : r = [q EXCEPT !.answer = IF el # None /\ Elements[el].role THEN el ELSE "none"]
    OBVIOUS
  <1>4. queries' = (queries \ {q}) \cup {r}
    BY <1>1, <1>3 DEF queryAccessibility
  <1>5. r \in [key : Nat \X Nat, answer : {"asked", "none"} \cup DOMAIN Elements] /\ r.key = q.key
    BY <1>2, <1>3 DEF RecInv, InMemory
  <1>6. InMemory'
    BY <1>4, <1>5 DEF queryAccessibility, RecInv, InMemory, Queue1, Silent
  <1> QED BY <1>6, RestIs DEF queryAccessibility, outside, RecInv

LEMMA NavArrivesKeeps == ASSUME RecInv, NavArrives PROVE RecInv'
  <1>1. navs \in Seq(Navigation) /\ navs # <<>> /\ Queue1(queue)
    BY DEF NavArrives, RecInv, OnPage, InMemory
  <1>2. navs' \in Seq(Navigation) /\ Head(navs) \in Navigation
    BY <1>1, TailIs DEF NavArrives
  <1>3. Queue1(queue')
    BY <1>1, <1>2, QueuedIs DEF NavArrives
  <1>4. OnPage'
    BY <1>2 DEF NavArrives, RecInv, OnPage, Told1, Silent
  <1>5. InMemory'
    BY <1>3 DEF NavArrives, RecInv, InMemory, Queue1
  <1> QED BY <1>4, <1>5, RestIs DEF NavArrives, outside, RecInv

\* What assembleInteraction makes of a message.
LEMMA AssembledIs ==
    ASSUME rec \in Record, Steps1(rec.steps), InMemory, NEW msg \in Told, msg.type # "ax", Silent(msg), NEW soon \in BOOLEAN
    PROVE  \E step \in Step :
             /\ step.type = msg.type /\ step.act = msg.act /\ step.on = msg.el /\ step.late = ~soon
             /\ step.asserted = Claims(rec, msg, soon)
             /\ Claims(rec, msg, soon) => step.again = Last(rec.steps).again
             /\ step.role # None => /\ [key |-> msg.key, answer |-> step.role] \in queries
                                    /\ step.role \notin {"asked", "none"}
             /\ Elements[step.on].is = "password" => Mute(step)
             /\ assembleInteraction(msg, soon) \in Record
             /\ assembleInteraction(msg, soon).session = rec.session
             /\ assembleInteraction(msg, soon).mode = rec.mode
             /\ assembleInteraction(msg, soon).state = rec.state
             /\ ~assembleInteraction(msg, soon).routed
             /\ assembleInteraction(msg, soon).steps = Append(Claimed(rec, msg, soon), step)
             /\ Steps1(Claimed(rec, msg, soon)) /\ Steps1(assembleInteraction(msg, soon).steps)
  <1>1. PICK answers : answers = {q.answer : q \in {p \in queries : p.key = msg.key}} \ {"asked", "none"}
    OBVIOUS
  <1>2. PICK role : role = IF answers = {} THEN None ELSE CHOOSE el \in answers : TRUE
    OBVIOUS
  <1>3. role = None \/ (role \in answers /\ role \in DOMAIN Elements /\ role \notin {"asked", "none"})
    BY <1>1, <1>2 DEF InMemory
  <1>4. role # None => [key |-> msg.key, answer |-> role] \in queries /\ role \notin {"asked", "none"}
    <2>1. SUFFICES ASSUME role # None PROVE [key |-> msg.key, answer |-> role] \in queries /\ role \notin {"asked", "none"}
      OBVIOUS
    <2>2. PICK q \in queries : q.key = msg.key /\ q.answer = role
      BY <1>1, <1>3, <2>1
    <2>3. q = [key |-> msg.key, answer |-> role]
      BY <2>2 DEF InMemory
    <2> QED BY <1>3, <2>1, <2>2, <2>3
  <1>5. PICK c \in BOOLEAN : c = Claims(rec, msg, soon)
    BY DEF Claims
  <1>6. PICK cands : cands = WithRole(msg.cands, role)
    OBVIOUS
  <1>7. cands \in SUBSET (Kinds \cup {"role"}) /\ ("text" \notin msg.cands => "text" \notin cands)
    BY <1>6 DEF WithRole, Told
  <1>8. PICK late \in BOOLEAN : late = ~soon
    OBVIOUS
  <1>a. PICK again \in BOOLEAN : again = (Claims(rec, msg, soon) /\ Last(rec.steps).again)
    OBVIOUS
  <1>9. PICK step :
          step = [type |-> msg.type, act |-> msg.act, on |-> msg.el, cands |-> cands, role |-> role, value |-> msg.value,
                  asserted |-> c, secret |-> msg.secret, late |-> late, again |-> again]
    OBVIOUS
  <1>10. step \in Step
    BY <1>3, <1>7, <1>9 DEF Step, Told
  <1>11. PICK front : front = Claimed(rec, msg, soon)
    OBVIOUS
  <1>12. Steps1(front)
    <2>1. CASE Claims(rec, msg, soon)
      <3>1. front = Front(rec.steps) /\ rec.steps # <<>>
        BY <1>11, <2>1 DEF Claimed, Claims
      <3> QED BY <3>1, FrontIs DEF Steps1
    <2>2. CASE ~Claims(rec, msg, soon)
      BY <1>11, <2>2 DEF Claimed
    <2> QED BY <2>1, <2>2
  <1>13. Elements[step.on].is = "password" => Mute(step)
    BY <1>7, <1>9 DEF Silent, Mute
  <1>14. PICK steps : steps = Append(front, step)
    OBVIOUS
  <1>15. Steps1(steps) /\ Len(steps) \in Nat
    BY <1>10, <1>12, <1>13, <1>14, StepsAre, AppendIs DEF Steps1
  <1>16. PICK recent \in Nat : recent = IF msg.type = "click" THEN Len(steps) ELSE rec.recent
    BY <1>15 DEF Record
  <1>17. assembleInteraction(msg, soon) = [rec EXCEPT !.steps = steps, !.routed = FALSE, !.recent = recent]
    BY <1>1, <1>2, <1>5, <1>6, <1>8, <1>a, <1>9, <1>11, <1>14, <1>16 DEF assembleInteraction
  <1>18. PICK r : r = [rec EXCEPT !.steps = steps, !.routed = FALSE, !.recent = recent]
    OBVIOUS
  <1>19. /\ r \in Record /\ r.session = rec.session /\ r.mode = rec.mode /\ r.state = rec.state /\ ~r.routed
         /\ r.steps = steps
    BY <1>15, <1>18 DEF Record, Steps1
  <1>20. /\ step.type = msg.type /\ step.act = msg.act /\ step.on = msg.el /\ step.late = ~soon /\ step.role = role
         /\ step.asserted = Claims(rec, msg, soon)
    BY <1>5, <1>8, <1>9
  <1>21. Claims(rec, msg, soon) => step.again = Last(rec.steps).again
    <2>1. SUFFICES ASSUME Claims(rec, msg, soon) PROVE step.again = Last(rec.steps).again
      OBVIOUS
    <2>2. Last(rec.steps) \in Step
      BY <2>1, FrontIs DEF Claims, Steps1
    <2>3. Last(rec.steps).again \in BOOLEAN
      BY <2>2 DEF Step
    <2> QED BY <1>9, <1>a, <2>1, <2>3
  <1> QED BY <1>4, <1>10, <1>11, <1>12, <1>13, <1>14, <1>15, <1>17, <1>18, <1>19, <1>20, <1>21

\* One Step of a recording is told anew.
LEMMA RetoldIs ==
    ASSUME NEW s, Steps1(s), NEW n \in DOMAIN s, NEW e \in Step, e.on = s[n].on, e.value = s[n].value, e.cands = s[n].cands
    PROVE  Steps1([s EXCEPT ![n] = e])
  <1>1. [s EXCEPT ![n] = e] \in Seq(Step)
    BY DEF Steps1
  <1> QED BY <1>1 DEF Steps1, Mute

\* Of a navigation the click before it tells, or a Step of its own.
LEMMA NavigatedIs ==
    ASSUME rec \in Record, Steps1(rec.steps), NEW nav \in Navigation
    PROVE  LET r == recordNavigation(nav) IN
           /\ r \in Record /\ Steps1(r.steps) /\ r.session = rec.session /\ r.mode = rec.mode /\ r.state = rec.state
           /\ \/ /\ rec.steps # <<>> /\ Last(rec.steps).type = "click" /\ nav.link /\ ~r.routed
                 /\ r.steps = [rec.steps EXCEPT ![Len(rec.steps)] = [@ EXCEPT !.asserted = TRUE]]
              \/ /\ ~(rec.steps # <<>> /\ Last(rec.steps).type = "click" /\ nav.link) /\ r.routed = nav.routed
                 /\ r.steps = Append(rec.steps, NavigateStep(nav.act, nav.again))
  <1>1. CASE rec.steps # <<>> /\ Last(rec.steps).type = "click" /\ nav.link
    <2>1. PICK n : n = Len(rec.steps)
      OBVIOUS
    <2>2. n \in DOMAIN rec.steps /\ rec.steps[n] \in Step
      BY <1>1, <2>1, FrontIs DEF Steps1
    <2>3. PICK e : e = [rec.steps[n] EXCEPT !.asserted = TRUE]
      OBVIOUS
    <2>4. e \in Step /\ e.on = rec.steps[n].on /\ e.value = rec.steps[n].value /\ e.cands = rec.steps[n].cands
      BY <2>2, <2>3 DEF Step
    <2>5. PICK steps : steps = [rec.steps EXCEPT ![n] = e]
      OBVIOUS
    <2>6. Steps1(steps)
      BY <2>2, <2>4, <2>5, RetoldIs
    <2>7. recordNavigation(nav) = [rec EXCEPT !.steps = steps, !.routed = FALSE]
      BY <1>1, <2>1, <2>3, <2>5 DEF recordNavigation
    <2>8. PICK r : r = [rec EXCEPT !.steps = steps, !.routed = FALSE]
      OBVIOUS
    <2>9. r \in Record /\ r.session = rec.session /\ r.mode = rec.mode /\ r.state = rec.state /\ ~r.routed /\ r.steps = steps
      BY <2>6, <2>8 DEF Record, Steps1
    <2> QED BY <1>1, <2>1, <2>3, <2>5, <2>6, <2>7, <2>8, <2>9
  <1>2. CASE ~(rec.steps # <<>> /\ Last(rec.steps).type = "click" /\ nav.link)
    <2>1. nav.act \in Nat /\ nav.routed \in BOOLEAN /\ nav.again \in BOOLEAN
      BY DEF Navigation
    <2>2. PICK steps : steps = Append(rec.steps, NavigateStep(nav.act, nav.again))
      OBVIOUS
    <2>3. Steps1(steps)
      BY <2>1, <2>2, NavigateIs, StepsAre
    <2>4. PICK b \in BOOLEAN : b = nav.routed
      BY <2>1
    <2>5. recordNavigation(nav) = [rec EXCEPT !.steps = steps, !.routed = b]
      BY <1>2, <2>2, <2>4 DEF recordNavigation
    <2>6. PICK r : r = [rec EXCEPT !.steps = steps, !.routed = b]
      OBVIOUS
    <2>7. r \in Record /\ r.session = rec.session /\ r.mode = rec.mode /\ r.state = rec.state /\ r.routed = b /\ r.steps = steps
      BY <2>3, <2>6 DEF Record, Steps1
    <2> QED BY <1>2, <2>2, <2>3, <2>4, <2>5, <2>6, <2>7
  <1> QED BY <1>1, <1>2

\* A download takes the place of the recent click.
LEMMA DownloadedIs ==
    ASSUME rec \in Record, Steps1(rec.steps), NEW soon \in BOOLEAN
    PROVE  LET r == recordDownload(soon) IN
           /\ r \in Record /\ Steps1(r.steps) /\ r.session = rec.session /\ r.mode = rec.mode /\ r.state = rec.state
           /\ r.routed = rec.routed
           /\ \/ r.steps = rec.steps
              \/ \E n \in DOMAIN rec.steps, e \in Step :
                    /\ rec.steps[n].type = "click" /\ r.steps = [rec.steps EXCEPT ![n] = e]
                    /\ e.type = "download" /\ e.on = rec.steps[n].on /\ e.role = rec.steps[n].role
                    /\ e.act = rec.steps[n].act
  <1>1. CASE recordDownload(soon) = rec
    BY <1>1
  <1>2. CASE /\ rec.recent \in DOMAIN rec.steps /\ rec.steps[rec.recent].type = "click"
             /\ recordDownload(soon) =
                  [rec EXCEPT !.steps[rec.recent] = [@ EXCEPT !.type = "download", !.asserted = FALSE], !.recent = 0]
    <2>1. PICK n : n = rec.recent
      OBVIOUS
    <2>2. n \in DOMAIN rec.steps /\ rec.steps[n] \in Step /\ rec.steps[n].type = "click"
      BY <1>2, <2>1 DEF Steps1
    <2>3. PICK e : e = [rec.steps[n] EXCEPT !.type = "download", !.asserted = FALSE]
      OBVIOUS
    <2>4. /\ e \in Step /\ e.on = rec.steps[n].on /\ e.value = rec.steps[n].value /\ e.cands = rec.steps[n].cands
          /\ e.type = "download" /\ e.role = rec.steps[n].role /\ e.act = rec.steps[n].act
      BY <2>2, <2>3 DEF Step
    <2>5. PICK steps : steps = [rec.steps EXCEPT ![n] = e]
      OBVIOUS
    <2>6. Steps1(steps)
      BY <2>2, <2>4, <2>5, RetoldIs
    <2>7. recordDownload(soon) = [rec EXCEPT !.steps = steps, !.recent = 0]
      BY <1>2, <2>1, <2>3, <2>5
    <2>8. PICK r : r = [rec EXCEPT !.steps = steps, !.recent = 0]
      OBVIOUS
    <2>9. /\ r \in Record /\ r.session = rec.session /\ r.mode = rec.mode /\ r.state = rec.state /\ r.routed = rec.routed
          /\ r.steps = steps
      BY <2>6, <2>8 DEF Record, Steps1
    <2>10. recordDownload(soon) = r /\ r.steps = [rec.steps EXCEPT ![n] = e]
      BY <2>5, <2>7, <2>8, <2>9
    <2>11. /\ r \in Record /\ Steps1(r.steps) /\ r.session = rec.session /\ r.mode = rec.mode /\ r.state = rec.state
           /\ r.routed = rec.routed
      BY <2>6, <2>9
    <2> QED BY <2>2, <2>4, <2>10, <2>11
  <1> QED BY <1>1, <1>2 DEF recordDownload

\* A re-pick is answered to the app page, or to nobody.
LEMMA BroadcastIs ==
    ASSUME heard \in Seq(Nat), NEW n \in Nat
    PROVE  /\ broadcastRecording(n) \in Seq(Nat)
           /\ broadcastRecording(n) = heard \/ broadcastRecording(n) = Append(heard, n)
  <1>1. broadcastRecording(n) = heard \/ broadcastRecording(n) = Append(heard, n)
    BY DEF broadcastRecording, pageHears
  <1> QED BY <1>1

\* Work on the queue is on a recording that was started, or on none.
LEMMA WorkKeeps == ASSUME RecInv, NEW soon \in BOOLEAN, Work(soon) PROVE RecInv'
  <1>1. /\ UNCHANGED <<starting, offer, down, wire, navs, slow, saving, vault, saved, logins, acts>>
        /\ queue # <<>> /\ queue' = Tail(queue)
    BY DEF Work
  <1>2. Queue1(queue) /\ doc \in Page /\ InMemory /\ heard \in Seq(Nat)
    BY DEF RecInv, InMemory, OnPage, InStore
  <1>3. PICK w : w = Head(queue)
    OBVIOUS
  <1>4. /\ Queue1(queue') /\ (w.type \notin {"nav", "download"} => w \in Told /\ w.type # "ax" /\ Silent(w))
        /\ w.type = "nav" => w.nav \in Navigation
    BY <1>1, <1>2, <1>3, WorkedIs
  <1>5. doc' \in Page /\ doc'.press = doc.press
    <2>1. doc' = doc \/ doc' = Entered(w.nav)
      BY <1>3 DEF Work, completeRepick
    <2>2. Entered(w.nav) = doc \/ Entered(w.nav) = [doc EXCEPT !.installed = TRUE]
      BY DEF Entered
    <2> QED BY <1>2, <2>1, <2>2 DEF Page
  <1>6. OnPage'
    BY <1>1, <1>5 DEF RecInv, OnPage, Told1, Silent
  <1>7. queries' \subseteq queries
    <2>1. queries' \in {queries, {}, {q \in queries : q.key # w.key}}
      BY <1>3 DEF Work, completeRepick
    <2> QED BY <2>1
  <1>8. InMemory'
    BY <1>4, <1>7 DEF RecInv, InMemory, Queue1
  <1>9. rec' \in Record \cup {None} /\ (rec' # None => Steps1(rec'.steps)) /\ heard' \in Seq(Nat)
    <2>1. CASE UNCHANGED <<rec, heard>>
      BY <2>1 DEF RecInv, InStore
    <2>2. CASE rec # None /\ w.type = "nav" /\ rec' = recordNavigation(w.nav) /\ heard' = heard
      <3>1. rec \in Record /\ Steps1(rec.steps)
        BY <2>2 DEF RecInv, InStore
      <3> QED BY <1>2, <1>4, <2>2, <3>1, NavigatedIs
    <2>3. CASE rec # None /\ rec' = recordDownload(soon) /\ heard' = heard
      <3>1. rec \in Record /\ Steps1(rec.steps)
        BY <2>3 DEF RecInv, InStore
      <3> QED BY <1>2, <2>3, <3>1, DownloadedIs
    <2>4. CASE rec # None /\ completeRepick
      <3>1. rec \in Record
        BY <2>4 DEF RecInv, InStore
      <3>2. rec.session \in Nat
        BY <3>1 DEF Record
      <3> QED BY <1>2, <2>4, <3>2, BroadcastIs DEF completeRepick
    <2>5. CASE rec # None /\ w.type \notin {"nav", "download"} /\ rec' = assembleInteraction(w, soon) /\ heard' = heard
      <3>1. rec \in Record /\ Steps1(rec.steps)
        BY <2>5 DEF RecInv, InStore
      <3> QED BY <1>2, <1>4, <2>5, <3>1, AssembledIs
    <2> QED BY <1>3, <2>1, <2>2, <2>3, <2>4, <2>5 DEF Work
  <1>10. InStore'
    BY <1>1, <1>9 DEF RecInv, InStore
  <1> QED BY <1>1, <1>6, <1>8, <1>10, RestIs DEF RecInv

\* A recording is stopped, discarded or interrupted.
LEMMA EndsKeep == ASSUME RecInv, Stop \/ discardRecording \/ RecorderStops PROVE RecInv'
  <1>1. UNCHANGED <<offer, tab, heard, vault, saved, logins, acts>>
    BY DEF Stop, discardRecording, RecorderStops, outside
  <1>2. Queue1(<<>>)
    <2>1. <<>> \in Seq(Queued) /\ DOMAIN (<<>>) = {}
      OBVIOUS
    <2> QED BY <2>1 DEF Queue1
  <1>3. queries' = {} /\ (queue' = queue \/ queue' = <<>>)
    BY DEF Stop, discardRecording, RecorderStops
  <1>4. InMemory'
    BY <1>2, <1>3 DEF RecInv, InMemory, Queue1, Silent
  <1>5. rec' \in Record \cup {None} /\ (rec' # None => Steps1(rec'.steps))
    <2>1. CASE rec' = rec
      BY <2>1 DEF RecInv, InStore
    <2>2. CASE rec' = None
      BY <2>2
    <2>3. CASE rec # None /\ \E choice \in BOOLEAN : rec' = [rec EXCEPT !.state = "ended", !.logins = choice]
      <3>1. rec \in Record /\ Steps1(rec.steps)
        BY <2>3 DEF RecInv, InStore
      <3> QED BY <2>3, <3>1 DEF Record
    <2>4. CASE Stop
      BY <2>2, <2>3, <2>4 DEF Stop, loadAuthChoices
    <2> QED BY <2>1, <2>2, <2>4 DEF discardRecording, RecorderStops
  <1>6. starting' \in {None, "told", "asked", "taken"}
    BY DEF Stop, discardRecording, RecorderStops, RecInv, InStore
  <1>7. InStore'
    BY <1>1, <1>5, <1>6 DEF RecInv, InStore
  <1>8. InSaving'
    <2>1. saving' = saving \/ saving' = None
      BY DEF Stop, discardRecording, RecorderStops, outside
    <2> QED BY <1>1, <2>1 DEF RecInv, InSaving, logins, LoginKept, SavedBinds
  <1> QED BY <1>1, <1>4, <1>7, <1>8, RestIs DEF RecInv

-----------------------------------------------------------------------------
(* Saving.                                                                 *)

\* Saving begins with the Steps of the recording and a choice for each of its passwords, ...
LEMMA SaveKeeps == ASSUME RecInv, Save PROVE RecInv'
  <1>1. UNCHANGED <<rec, starting, offer, tab, assembly, heard, acts>> /\ UNCHANGED <<vault, saved, cookies, login>>
    BY DEF Save
  <1>2. rec # None
    BY DEF Save
  <1>3. rec.steps \in Seq(Step)
    BY <1>2 DEF RecInv, InStore, Steps1
  <1>4. PICK b \in [NeedsSecret(rec.steps) -> Binding], checked \in BOOLEAN :
          /\ saving' = [steps |-> rec.steps, bindings |-> b, made |-> {}, raced |-> FALSE,
                        upload |-> IF checked THEN "chosen" ELSE "none"]
          /\ site' = (site \/ checked)
    BY DEF Save
  <1>5. InSaving'
    BY <1>1, <1>3, <1>4 DEF RecInv, InSaving, LoginKept, SavedBinds
  <1> QED BY <1>1, <1>5, RestIs DEF RecInv

\* ... uploads a login only when the worker found its site permitted, ...
LEMMA WithdrawsKeep ==
    ASSUME RecInv, LogOut \/ WithdrawSite \/ permissionsContain \/ uploadAuthStates
    PROVE  RecInv'
  <1>1. UNCHANGED <<rec, starting, offer, tab, assembly, heard, acts>> /\ UNCHANGED <<vault, saved>>
    BY DEF LogOut, WithdrawSite, permissionsContain, uploadAuthStates
  <1>2. SavedBinds'
    BY <1>1 DEF RecInv, InSaving, SavedBinds
  <1>a. InSaving
    BY DEF RecInv
  <1>3. ASSUME LogOut PROVE InSaving'
    <2>1. cookies' = FALSE /\ UNCHANGED <<saving, site, login>>
      BY <1>3 DEF LogOut
    <2> QED BY <1>a, <1>1, <1>2, <2>1 DEF InSaving, LoginKept
  <1>4. ASSUME WithdrawSite PROVE InSaving'
    <2>1. PICK x \in BOOLEAN : x = (saving.raced \/ saving.upload = "permitted")
      OBVIOUS
    <2>2. site' = FALSE /\ saving # None /\ saving' = [saving EXCEPT !.raced = x] /\ UNCHANGED <<cookies, login>>
      BY <1>4, <2>1 DEF WithdrawSite
    <2> QED BY <1>a, <1>1, <1>2, <2>1, <2>2 DEF InSaving, LoginKept
  <1>5. ASSUME permissionsContain PROVE InSaving'
    <2>1. /\ saving # None /\ UNCHANGED <<site, cookies, login>>
          /\ saving' = None \/ (site /\ saving' = [saving EXCEPT !.upload = "permitted"])
      BY <1>5 DEF permissionsContain, Bound, logins
    <2> QED BY <1>a, <1>1, <1>2, <2>1 DEF InSaving, LoginKept
  <1>6. ASSUME uploadAuthStates PROVE InSaving'
    <2>0. saving # None /\ (site \/ saving.raced)
      BY <1>a, <1>6 DEF uploadAuthStates, Bound, InSaving
    <2>1. CookiesSeen \in {"captured", "bare", "raced"}
      BY <1>a, <2>0 DEF InSaving, CookiesSeen
    <2>2. login' \in {login, CookiesSeen} /\ UNCHANGED <<site, cookies>>
      BY <1>6 DEF uploadAuthStates
    <2>3. saving' = None \/ (saving # None /\ saving' = [saving EXCEPT !.upload = "none"])
      BY <1>6 DEF uploadAuthStates, Bound
    <2> QED BY <1>a, <1>1, <1>2, <2>1, <2>2, <2>3 DEF InSaving, LoginKept
  <1>7. InSaving'
    BY <1>3, <1>4, <1>5, <1>6
  <1> QED BY <1>1, <1>7, RestIs DEF RecInv

\* ... and makes Secrets, some of which stay when it fails.
LEMMA ResolvesKeep == ASSUME RecInv, resolveRecordingSecrets PROVE RecInv'
  <1>1. UNCHANGED <<rec, starting, offer, tab, assembly, heard, acts>> /\ UNCHANGED <<saved, logins>> /\ saving # None
    BY DEF resolveRecordingSecrets
  <1>2. PICK i : i = CHOOSE n \in ToMake : \A m \in ToMake : n <= m
    OBVIOUS
  <1>3. \/ vault' = vault \cup {NewSecret} /\ saving' = [saving EXCEPT !.made = @ \cup {i}]
        \/ vault' \in {vault, vault \cup {NewSecret}} /\ saving' = None
    BY <1>2 DEF resolveRecordingSecrets
  <1>4. vault \subseteq vault' /\ vault' \subseteq Known \cup {NewSecret} /\ Known \subseteq vault'
    BY <1>3 DEF RecInv, InSaving
  <1>5. SavedBinds'
    BY <1>1, <1>4 DEF RecInv, InSaving, SavedBinds
  <1>6. InSaving'
    <2>1. CASE vault' = vault \cup {NewSecret} /\ saving' = [saving EXCEPT !.made = @ \cup {i}]
      BY <1>1, <1>4, <1>5, <2>1 DEF RecInv, InSaving, LoginKept, logins
    <2>2. CASE saving' = None
      BY <1>1, <1>4, <1>5, <2>2 DEF RecInv, InSaving, LoginKept, logins
    <2> QED BY <1>3, <2>1, <2>2
  <1> QED BY <1>1, <1>6, RestIs DEF RecInv

LessThan == {p \in Nat \X Nat : p[1] < p[2]}

\* A set of naturals that is bounded and not empty has a last.
LEMMA LastIs ==
    ASSUME NEW n \in Nat, NEW S, S \subseteq 1 .. n, S # {}
    PROVE  \E i \in S : \A j \in S : j <= i
  <1> DEFINE T == {n - i : i \in S}
  <1>0. \A i \in S : i \in Nat /\ n - i \in Nat
    OBVIOUS
  <1>1. T \subseteq Nat /\ T # {}
    BY <1>0
  <1>2. IsWellFoundedOn(LessThan, Nat)
    BY NatLessThanWellFounded DEF OpToRel, LessThan
  <1>3. PICK m \in T : \A k \in T : <<k, m>> \notin LessThan
    BY <1>1, <1>2, WFMin
  <1>4. PICK i \in S : m = n - i
    BY <1>3
  <1>5. \A j \in S : ~(n - j < n - i)
    BY <1>0, <1>3, <1>4 DEF LessThan
  <1>6. ASSUME NEW j \in S PROVE j <= i
    <2>1. i \in Nat /\ j \in Nat /\ ~(n - j < n - i)
      BY <1>0, <1>4, <1>5
    <2> QED BY <2>1
  <1> QED BY <1>6

\* What bindSecretSteps makes of bindings it does not refuse.
LEMMA BoundIs ==
    ASSUME RecInv, saving # None, ToMake = {}, Binds(saving.bindings),
           saved' = bindSecretSteps(saving.steps, saving.bindings), vault' = vault
    PROVE  SavedBinds'
  <1> DEFINE steps == saving.steps
             b == saving.bindings
  <1>1. /\ steps \in Seq(Step) /\ b \in [NeedsSecret(steps) -> Binding] /\ (saving.made # {} => NewSecret \in vault)
        /\ Known \subseteq vault
    BY DEF RecInv, InSaving
  <1>2. \A i \in DOMAIN b : b[i].secret \in vault
    <2> SUFFICES ASSUME NEW i \in DOMAIN b PROVE b[i].secret \in vault
      OBVIOUS
    <2>1. b[i] \in Binding /\ b[i].secret # None
      BY <1>1 DEF Binds
    <2>2. CASE b[i].secret = NewSecret
      <3>1. i \in saving.made
        BY <2>2 DEF ToMake
      <3> QED BY <1>1, <2>2, <3>1
    <2> QED BY <1>1, <2>1, <2>2 DEF Binding
  <1>3. \A i \in DOMAIN b : LastFor(b, b[i].name).secret = b[i].secret
    <2> SUFFICES ASSUME NEW i \in DOMAIN b PROVE LastFor(b, b[i].name).secret = b[i].secret
      OBVIOUS
    <2> DEFINE S == {j \in DOMAIN b : b[j].name = b[i].name}
    <2>1. DOMAIN b \subseteq 1 .. Len(steps) /\ Len(steps) \in Nat
      BY <1>1 DEF NeedsSecret
    <2>2. PICK l \in S : \A j \in S : j <= l
      <3> HIDE DEF b
      <3>1. S \subseteq 1 .. Len(steps) /\ S # {}
        BY <2>1
      <3> QED BY <2>1, <3>1, LastIs
    <2>3. PICK c : c = CHOOSE j \in DOMAIN b : b[j].name = b[i].name /\ \A k \in DOMAIN b : b[k].name = b[i].name => k <= j
      OBVIOUS
    <2>4. c \in DOMAIN b /\ b[c].name = b[i].name
      BY <2>2, <2>3
    <2>5. b[c].secret = b[i].secret
      BY <2>4 DEF Binds
    <2> QED BY <2>3, <2>5 DEF LastFor
  <1>4. PICK s : s = bindSecretSteps(steps, b)
    OBVIOUS
  <1>5. /\ DOMAIN s.steps = DOMAIN steps /\ s.chosen = b
        /\ \A i \in DOMAIN steps : s.steps[i] = IF steps[i].secret THEN [steps[i] EXCEPT !.value = b[i].name] ELSE steps[i]
        /\ \A name \in DOMAIN Declared \cup Given(b) :
             s.variables[name] = IF name \in Given(b) THEN [secret |-> TRUE, is |-> LastFor(b, name).secret]
                                 ELSE [secret |-> Declared[name], is |-> None]
    BY <1>4 DEF bindSecretSteps
  <1>6. ASSUME NEW i \in DOMAIN s.steps, s.steps[i].secret
        PROVE  LET v == s.variables[s.steps[i].value] IN v.secret /\ v.is \in vault /\ v.is = s.chosen[i].secret
    <2>1. i \in DOMAIN steps /\ steps[i] \in Step
      BY <1>1, <1>5, <1>6
    <2>2. steps[i].secret
      BY <1>5, <1>6, <2>1
    <2>3. i \in DOMAIN b
      BY <1>1, <2>1, <2>2 DEF NeedsSecret
    <2>4. s.steps[i].value = b[i].name
      BY <1>5, <2>1, <2>2 DEF Step
    <2>5. b[i].name \in Given(b)
      BY <2>3 DEF Given
    <2>6. s.variables[b[i].name] = [secret |-> TRUE, is |-> LastFor(b, b[i].name).secret]
      BY <1>5, <2>5
    <2> QED BY <1>2, <1>3, <1>5, <2>3, <2>4, <2>6
  <1>7. ASSUME NEW name \in DOMAIN Declared, ~Declared[name]
        PROVE  ~s.variables[name].secret
    <2>1. name \notin Given(b)
      BY <1>7 DEF Given, Binds
    <2>2. PICK g \in BOOLEAN : g = Declared[name]
      BY VariableAssumption
    <2>3. s.variables[name] = [secret |-> g, is |-> None]
      BY <1>5, <2>1, <2>2
    <2> QED BY <1>7, <2>2, <2>3
  <1>8. saved' = s
    BY <1>4
  <1> QED BY <1>6, <1>7, <1>8 DEF SavedBinds

\* What is saved binds every password as it was chosen.
LEMMA FinalizeKeeps == ASSUME RecInv, finalizeRecording PROVE RecInv'
  <1>1. UNCHANGED <<starting, offer, tab, assembly, heard, vault, logins, acts>> /\ saving' = None /\ saving # None
        /\ ToMake = {}
    BY DEF finalizeRecording
  <1>2. rec' = rec \/ rec' = None
    BY DEF finalizeRecording
  <1>3. saved' = saved \/ (Binds(saving.bindings) /\ saved' = bindSecretSteps(saving.steps, saving.bindings))
    BY DEF finalizeRecording
  <1>4. SavedBinds'
    <2>1. CASE saved' = saved
      BY <1>1, <2>1 DEF RecInv, InSaving, SavedBinds
    <2> QED BY <1>1, <1>3, <2>1, BoundIs
  <1>5. InSaving'
    BY <1>1, <1>4 DEF RecInv, InSaving, logins, LoginKept
  <1>6. InStore'
    BY <1>1, <1>2 DEF RecInv, InStore
  <1> QED BY <1>1, <1>5, <1>6, RestIs DEF RecInv

-----------------------------------------------------------------------------
(* What was done.                                                          *)

\* A click is told of by messages or Steps, or a press or release may yet tell of it.
Tells(s, a) == \E k \in DOMAIN s : s[k].type = "click" /\ s[k].act = a
Pressed(a) == (doc.press # None /\ doc.press.event.act = a) \/ (down # None /\ down.act = a)

\* A click is told of once in s, unless it was held.
OnceIn(s, held1) ==
    \A i, j \in DOMAIN s :
      i # j /\ s[i].type = "click" /\ s[j].type = "click" /\ s[i].act = s[j].act => s[i].act \in held1

\* A click is of an act, and is told of in one place, once, unless it was held.
Once ==
    /\ \A a : Pressed(a) \/ Tells(wire, a) \/ Tells(queue, a) \/ Tells(Recorded, a) => a \in 1 .. acts
    /\ doc.press # None => doc.press.event.type = "click"
    /\ doc.press # None /\ down # None => doc.press.event.act = down.act
    /\ OnceIn(wire, slow) /\ OnceIn(queue, slow) /\ OnceIn(Recorded, slow)
    /\ \A a : a \notin slow =>
         /\ Tells(wire, a) => ~Pressed(a)
         /\ Tells(queue, a) => ~Pressed(a) /\ ~Tells(wire, a)
         /\ Tells(Recorded, a) => ~Pressed(a) /\ ~Tells(wire, a) /\ ~Tells(queue, a)

\* Clicks told of in a sequence: one more at the end, ...
LEMMA TellsMore ==
    ASSUME NEW S, NEW s \in Seq(S), NEW e \in S
    PROVE  /\ \A a : Tells(Append(s, e), a) <=> Tells(s, a) \/ (e.type = "click" /\ e.act = a)
           /\ \A h : OnceIn(s, h) /\ (e.type = "click" => ~Tells(s, e.act) \/ e.act \in h) => OnceIn(Append(s, e), h)
  <1>1. PICK t, n : t = Append(s, e) /\ n = Len(s) + 1
    OBVIOUS
  <1>2. DOMAIN t = DOMAIN s \cup {n} /\ t[n] = e /\ n \notin DOMAIN s /\ \A k \in DOMAIN s : t[k] = s[k]
    BY <1>1, AppendIs
  <1>3. \A a : Tells(t, a) <=> Tells(s, a) \/ (e.type = "click" /\ e.act = a)
    BY <1>2 DEF Tells
  <1>4. ASSUME NEW h, OnceIn(s, h), e.type = "click" => ~Tells(s, e.act) \/ e.act \in h
        PROVE  OnceIn(t, h)
    BY <1>2, <1>4 DEF OnceIn, Tells
  <1> QED BY <1>1, <1>3, <1>4

\* ... the first taken off, ...
LEMMA TellsLess ==
    ASSUME NEW S, NEW s \in Seq(S), s # <<>>
    PROVE  /\ \A a : Tells(Tail(s), a) => Tells(s, a)
           /\ \A a : Tells(s, a) => Tells(Tail(s), a) \/ (Head(s).type = "click" /\ Head(s).act = a)
           /\ Head(s).type = "click" => Tells(s, Head(s).act)
           /\ \A h : OnceIn(s, h) => /\ OnceIn(Tail(s), h)
                                     /\ Head(s).type = "click" /\ Head(s).act \notin h => ~Tells(Tail(s), Head(s).act)
  <1>1. PICK t, e : t = Tail(s) /\ e = Head(s)
    OBVIOUS
  <1>2. /\ 1 \in DOMAIN s /\ s[1] = e
        /\ \A k \in DOMAIN t : k + 1 \in DOMAIN s /\ t[k] = s[k + 1] /\ k \in Nat
        /\ \A k \in DOMAIN s : k \in Nat /\ (k = 1 \/ (k - 1 \in DOMAIN t /\ t[k - 1] = s[k]))
    BY <1>1, TailIs
  <1>3. \A k \in DOMAIN t : k + 1 # 1
    <2>1. DOMAIN t \subseteq 1 .. Len(t) /\ Len(t) \in Nat
      BY <1>1, TailIs
    <2> QED BY <2>1
  <1>4. \A a : Tells(t, a) => Tells(s, a)
    BY <1>2 DEF Tells
  <1>5. \A a : Tells(s, a) => Tells(t, a) \/ (e.type = "click" /\ e.act = a)
    BY <1>2 DEF Tells
  <1>6. ASSUME NEW h, OnceIn(s, h)
        PROVE  OnceIn(t, h) /\ (e.type = "click" /\ e.act \notin h => ~Tells(t, e.act))
    <2>1. ASSUME NEW i \in DOMAIN t, NEW j \in DOMAIN t, i # j PROVE i + 1 # j + 1
      BY <1>2, <2>1
    <2>2. OnceIn(t, h)
      BY <1>2, <1>6, <2>1 DEF OnceIn
    <2>3. e.type = "click" /\ e.act \notin h => ~Tells(t, e.act)
      BY <1>2, <1>3, <1>6 DEF OnceIn, Tells
    <2> QED BY <2>2, <2>3
  <1> QED BY <1>1, <1>2, <1>4, <1>5, <1>6 DEF Tells

\* ... the last, ...
LEMMA TellsFront ==
    ASSUME NEW S, NEW s \in Seq(S), s # <<>>
    PROVE  /\ \A a : Tells(Front(s), a) => Tells(s, a)
           /\ \A h : OnceIn(s, h) => OnceIn(Front(s), h)
  <1>1. PICK f : f = Front(s)
    OBVIOUS
  <1>2. DOMAIN f \subseteq DOMAIN s /\ \A k \in DOMAIN f : f[k] = s[k]
    BY <1>1, FrontIs
  <1>3. \A a : Tells(f, a) => Tells(s, a)
    BY <1>2 DEF Tells
  <1>4. \A h : OnceIn(s, h) => OnceIn(f, h)
    BY <1>2 DEF OnceIn
  <1> QED BY <1>1, <1>3, <1>4

\* ... and none.
LEMMA TellsNone == \A a : ~Tells(<<>>, a) /\ OnceIn(<<>>, a)
  <1>1. DOMAIN (<<>>) = {}
    OBVIOUS
  <1> QED BY <1>1 DEF Tells, OnceIn

\* A step of the page or the person: what is told after it was told of before,
\* was to be, or is new.
New(a) == acts' = acts + 1 /\ a = acts + 1
Onward ==
    /\ acts' \in {acts, acts + 1} /\ slow \subseteq slow'
    /\ \A a : Pressed(a)' => Pressed(a) \/ New(a)
    /\ \A a : Tells(wire, a)' => Tells(wire, a) \/ Pressed(a) \/ New(a)

\* An act that is new, or goes one place further, is still told of in one place.
LEMMA OnwardOnce ==
    ASSUME RecInv, Once, Onward, rec' = rec,
           queue' = queue \/ queue' = Append(queue, [type |-> "download"]),
           (doc.press # None => doc.press.event.type = "click")',
           (doc.press # None /\ down # None => doc.press.event.act = down.act)',
           OnceIn(wire, slow)', (\A a : a \notin slow /\ Tells(wire, a) => ~Pressed(a))'
    PROVE  Once'
  <1>1. acts \in Nat
    BY DEF RecInv, OnPage
  <1>2. (\A a : Tells(queue, a)' <=> Tells(queue, a)) /\ OnceIn(queue, slow)'
    <2>1. [type |-> "download"] \in Queued /\ [type |-> "download"].type # "click"
      BY DEF Queued
    <2>2. queue \in Seq(Queued)
      BY DEF RecInv, InMemory, Queue1
    <2>3. PICK q : q = queue'
      OBVIOUS
    <2>4. (\A a : Tells(q, a) <=> Tells(queue, a)) /\ OnceIn(q, slow)
      <3>1. CASE q = queue
        BY <3>1 DEF Once
      <3>2. CASE q = Append(queue, [type |-> "download"])
        <4>1. PICK e : e = [type |-> "download"]
          OBVIOUS
        <4>2. /\ \A a : Tells(Append(queue, e), a) <=> Tells(queue, a) \/ (e.type = "click" /\ e.act = a)
              /\ OnceIn(queue, slow) => OnceIn(Append(queue, e), slow)
          BY <2>1, <2>2, <4>1, TellsMore
        <4> QED BY <2>1, <3>2, <4>1, <4>2 DEF Once
      <3> QED BY <2>3, <3>1, <3>2
    <2>5. OnceIn(q, slow')
      BY <2>4 DEF OnceIn, Onward
    <2> QED BY <2>3, <2>4, <2>5 DEF Tells, OnceIn
  <1>3. Recorded' = Recorded
    BY DEF Recorded
  <1>4. (\A a : Tells(Recorded, a)' <=> Tells(Recorded, a)) /\ OnceIn(Recorded, slow)'
    BY <1>3 DEF Tells, OnceIn, Once, Onward
  <1>5. ASSUME NEW a PROVE Pressed(a)' \/ Tells(wire, a)' \/ Tells(queue, a)' \/ Tells(Recorded, a)' => a \in 1 .. acts'
    BY <1>1, <1>2, <1>4 DEF Once, Onward, New
  <1>6. ASSUME NEW a, a \notin slow'
        PROVE  /\ Tells(queue, a)' => ~Pressed(a)' /\ ~Tells(wire, a)'
               /\ Tells(Recorded, a)' => ~Pressed(a)' /\ ~Tells(wire, a)' /\ ~Tells(queue, a)'
    <2>1. a \notin slow
      BY <1>6 DEF Onward
    <2>2. Tells(queue, a) \/ Tells(Recorded, a) => ~New(a)
      BY <1>1 DEF Once, New
    <2>3. Pressed(a)' \/ Tells(wire, a)' => Pressed(a) \/ Tells(wire, a) \/ New(a)
      BY DEF Onward
    <2> QED BY <1>2, <1>4, <2>1, <2>2, <2>3 DEF Once
  <1> QED BY <1>2, <1>4, <1>5, <1>6 DEF Once

\* What a press leaves: it is described, and its role is asked for.
LEMMA PressDoes ==
    ASSUME RecInv, NEW el \in DOMAIN Elements, NEW effect \in {"none", "route", "replace"}, Press(el, effect)
    PROVE  \E m \in Told, x \in Told :
             /\ x.type = "ax" /\ m.type = "click" /\ m.act = acts + 1
             /\ x.load = doc.load /\ m.load = doc.load /\ x.el = el /\ m.el = el
             /\ x.key = <<doc.load, Number(doc, el)>> /\ m.key = x.key
             /\ wire = <<>> /\ wire' = Append(wire, x)
             /\ doc'.press.event = m /\ doc'.load = doc.load /\ doc'.seen = Met(doc, el).seen
             /\ acts' = acts + 1 /\ down = None /\ down'.act = acts + 1 /\ (down'.moved <=> effect # "none")
             /\ navs = <<>>
             /\ \/ effect = "none" /\ navs' = navs /\ doc'.by = doc.by
                \/ effect # "none" /\ navs' = Append(navs, Routed(acts + 1, doc)) /\ doc'.by = acts + 1
             /\ UNCHANGED <<rec, starting, offer, slow, assembly, outside>>
  <1>1. doc \in Page /\ acts \in Nat /\ acts + 1 \in Nat
    BY DEF RecInv, OnPage
  <1>2. PICK m : m = Message("click", doc, el, acts + 1)
    OBVIOUS
  <1>3. PICK x : x = Message("ax", doc, el, acts + 1)
    OBVIOUS
  <1>4. /\ m \in Told /\ x \in Told /\ x.type = "ax" /\ m.type = "click" /\ m.act = acts + 1
        /\ x.load = doc.load /\ m.load = doc.load /\ x.el = el /\ m.el = el
        /\ x.key = <<doc.load, Number(doc, el)>> /\ m.key = x.key
    BY <1>1, <1>2, <1>3, MessageIs
  <1>5. PICK d : d = Met(doc, el)
    OBVIOUS
  <1>6. d \in Page /\ d.load = doc.load /\ d.by = doc.by
    BY <1>1, <1>5, MetIs DEF Page
  <1>7. PICK pressed : pressed = [d EXCEPT !.press = [event |-> m, url |-> d.url]]
    OBVIOUS
  <1>8. /\ pressed \in Page /\ pressed.press.event = m /\ pressed.load = doc.load /\ pressed.seen = d.seen
        /\ pressed.by = doc.by
    BY <1>4, <1>6, <1>7 DEF Page
  <1>9. /\ doc'.press.event = m /\ doc'.load = doc.load /\ doc'.seen = d.seen
        /\ doc'.by = IF effect = "none" THEN doc.by ELSE acts + 1
    <2>1. CASE effect = "none"
      <3>1. doc' = pressed
        BY <1>2, <1>5, <1>7, <2>1 DEF Press
      <3> QED BY <1>8, <2>1, <3>1
    <2>2. CASE effect = "route"
      <3>1. doc' = Turned(pressed, acts + 1)
        BY <1>2, <1>5, <1>7, <2>2 DEF Press, Turned
      <3> QED BY <1>1, <1>8, <2>2, <3>1, TurnedIs
    <2>3. CASE effect = "replace"
      <3>1. doc' = TakenAway(pressed, el, acts + 1)
        BY <1>2, <1>5, <1>7, <2>3 DEF Press, TakenAway
      <3> QED BY <1>1, <1>8, <2>3, <3>1, RoutedIs
    <2> QED BY <2>1, <2>2, <2>3
  <1>10. wire = <<>> /\ navs = <<>> /\ wire' = Append(wire, x) /\ acts' = acts + 1 /\ down = None
    BY <1>3 DEF Press, Room
  <1>11. down' = [act |-> acts + 1, el |-> el, moved |-> effect # "none"]
    BY DEF Press
  <1>12. \/ effect = "none" /\ navs' = navs /\ doc'.by = doc.by
         \/ effect # "none" /\ navs' = Append(navs, Routed(acts + 1, doc)) /\ doc'.by = acts + 1
    BY <1>9 DEF Press
  <1>13. UNCHANGED <<rec, starting, offer, slow, assembly, outside>>
    BY DEF Press
  <1>14. down'.act = acts + 1 /\ (down'.moved <=> effect # "none")
    BY <1>11
  <1> QED BY <1>4, <1>5, <1>9, <1>10, <1>12, <1>13, <1>14

LEMMA PressOnward ==
    ASSUME RecInv, NEW el \in DOMAIN Elements, NEW effect \in {"none", "route", "replace"}, Press(el, effect)
    PROVE  Onward /\ \A a : ~Tells(wire, a)'
  <1>1. PICK m \in Told, x \in Told :
             /\ x.type = "ax" /\ m.type = "click" /\ m.act = acts + 1
             /\ wire = <<>> /\ wire' = Append(wire, x)
             /\ doc'.press.event = m
             /\ acts' = acts + 1 /\ down'.act = acts + 1 /\ slow' = slow
    BY PressDoes
  <1>2. \A a : ~Tells(wire, a)'
    <2>1. wire \in Seq(Told)
      BY DEF RecInv, OnPage, Told1
    <2>2. \A a : ~Tells(Append(wire, x), a)
      BY <1>1, <2>1, TellsMore, TellsNone
    <2> QED BY <1>1, <2>2 DEF Tells
  <1>3. \A a : Pressed(a)' => New(a)
    BY <1>1 DEF Pressed, New
  <1> QED BY <1>1, <1>2, <1>3 DEF Onward

\* A press is of a new act, ...
LEMMA PressOnce ==
    ASSUME RecInv, Once, NEW el \in DOMAIN Elements, NEW effect \in {"none", "route", "replace"}, Press(el, effect)
    PROVE  Once'
  <1>1. Onward /\ \A a : ~Tells(wire, a)'
    BY PressOnward
  <1>2. PICK m \in Told : doc'.press.event = m /\ m.type = "click" /\ m.act = acts + 1 /\ down'.act = acts + 1
    BY PressDoes
  <1>3. rec' = rec /\ queue' = queue
    BY DEF Press, assembly
  <1>4. OnceIn(wire, slow)'
    BY <1>1 DEF OnceIn, Tells
  <1> QED BY <1>1, <1>2, <1>3, <1>4, OnwardOnce

LEMMA TimerDoes ==
    ASSUME RecInv, PressTimer
    PROVE  /\ doc.press # None /\ doc'.press = None /\ doc'.load = doc.load /\ doc'.seen = doc.seen
           /\ doc.press.event \in Told /\ doc'.by = doc.by
           /\ wire' = wire \/ wire' = Append(wire, doc.press.event)
           /\ slow' = IF down = None THEN slow ELSE slow \cup {down.act}
           /\ UNCHANGED <<rec, starting, offer, down, navs, assembly, outside, acts>>
  <1>1. doc \in Page /\ doc.press # None
    BY DEF PressTimer, RecInv, OnPage
  <1>2. doc' = [doc EXCEPT !.press = None]
    BY DEF PressTimer
  <1>3. /\ doc.press.event \in Told /\ doc'.press = None /\ doc'.load = doc.load /\ doc'.seen = doc.seen
        /\ doc'.by = doc.by
    BY <1>1, <1>2 DEF Page
  <1> QED BY <1>1, <1>3 DEF PressTimer

LEMMA TimerOnward == ASSUME RecInv, PressTimer PROVE Onward
  <1>1. wire \in Seq(Told) /\ doc.press.event \in Told
    BY TimerDoes DEF RecInv, OnPage, Told1
  <1>2. PICK w : w = wire'
    OBVIOUS
  <1>3. \A a : Tells(w, a) => Tells(wire, a) \/ Pressed(a)
    <2>1. CASE w = wire
      BY <2>1
    <2>2. CASE w = Append(wire, doc.press.event)
      BY <1>1, <2>2, TellsMore, TimerDoes DEF Pressed
    <2> QED BY <1>2, <2>1, <2>2, TimerDoes
  <1>4. \A a : Tells(wire, a)' => Tells(wire, a) \/ Pressed(a)
    BY <1>2, <1>3 DEF Tells
  <1>5. \A a : Pressed(a)' => Pressed(a)
    BY TimerDoes DEF Pressed
  <1> QED BY <1>4, <1>5, TimerDoes DEF Onward

\* ... its timer tells of it instead of the click, or it was held, ...
LEMMA TimerOnce == ASSUME RecInv, Once, PressTimer PROVE Once'
  <1>1. wire \in Seq(Told)
    BY DEF RecInv, OnPage, Told1
  <1>2. PICK e \in Told : e = doc.press.event
    BY TimerDoes
  <1>3. PICK w, h : w = wire' /\ h = slow'
    OBVIOUS
  <1>4. /\ e.type = "click" /\ Pressed(e.act) /\ slow \subseteq h /\ doc'.press = None /\ down' = down
        /\ w = wire \/ w = Append(wire, e)
        /\ down # None => down.act = e.act /\ e.act \in h
    BY <1>2, <1>3, TimerDoes DEF Once, Pressed
  <1>5. ~Tells(wire, e.act) \/ e.act \in slow
    BY <1>4 DEF Once
  <1>6. OnceIn(w, h)
    <2>1. OnceIn(wire, h)
      BY <1>4 DEF OnceIn, Once
    <2>2. OnceIn(Append(wire, e), h)
      BY <1>1, <1>4, <1>5, <2>1, TellsMore
    <2> QED BY <1>4, <2>1, <2>2
  <1>7. ASSUME NEW a, a \notin h, Tells(w, a) PROVE ~Pressed(a)'
    <2>1. Pressed(a)' => down # None /\ a = e.act
      BY <1>4 DEF Pressed
    <2> QED BY <1>4, <1>7, <2>1
  <1>8. rec' = rec /\ queue' = queue
    BY TimerDoes DEF assembly
  <1>9. OnceIn(wire, slow)' /\ (\A a : a \notin slow /\ Tells(wire, a) => ~Pressed(a))'
    BY <1>3, <1>6, <1>7 DEF OnceIn, Tells
  <1> QED BY <1>4, <1>8, <1>9, TimerOnward, OnwardOnce

\* A release of what is there is told of, and ends the press.
LEMMA ReleaseDoes ==
    ASSUME RecInv, NEW effect \in {"none", "route", "load", "download"}, Release(effect)
    PROVE  /\ down # None /\ down' = None /\ down.act \in Nat
           /\ UNCHANGED <<rec, starting, offer, slow, queries, outside, acts>>
           /\ queue' = queue \/ queue' = Append(queue, [type |-> "download"])
           /\ \/ UNCHANGED <<doc, wire, navs>>
              \/ \E m \in Told :
                   /\ m.act = down.act /\ m.load = doc.load /\ m.el = down.el
                   /\ m.key = <<doc.load, Number(doc, down.el)>>
                   /\ wire' = Append(wire, m) /\ doc'.press = None
                   /\ \/ /\ navs' = navs /\ doc'.load = doc.load /\ doc'.seen = Met(doc, down.el).seen /\ doc'.by = doc.by
                      \/ /\ ~down.moved /\ navs' = Append(navs, Routed(down.act, doc)) /\ doc'.by = down.act
                         /\ doc'.load = doc.load /\ doc'.seen = Met(doc, down.el).seen
                      \/ /\ ~down.moved /\ navs' = Append(navs, Committed(down.act, TRUE)) /\ doc'.by = down.act
                         /\ doc'.load = doc.load + 1 /\ doc'.seen = <<>>
  <1>1. /\ doc \in Page /\ down # None /\ down \in [act : Nat, el : DOMAIN Elements, moved : BOOLEAN] /\ down' = None
        /\ down.act \in Nat
    BY DEF RecInv, OnPage, Release
  <1>2. UNCHANGED <<rec, starting, offer, slow, queries, outside, acts>>
    BY DEF Release
  <1>3. CASE ~There(down.el)
    BY <1>1, <1>2, <1>3 DEF Release
  <1>4. CASE There(down.el)
    <2>1. PICK m : m = Message(IF doc.armed THEN "extract" ELSE "click", doc, down.el, down.act)
      OBVIOUS
    <2>2. /\ m \in Told /\ m.act = down.act /\ m.load = doc.load /\ m.el = down.el
          /\ m.key = <<doc.load, Number(doc, down.el)>>
      BY <1>1, <2>1, MessageIs
    <2>3. wire' = Append(wire, m)
      BY <1>4, <2>1 DEF Release
    <2>4. down.moved => effect = "none"
      BY <1>1, <1>4 DEF Release
    <2>5. CASE effect = "route"
      <3>1. doc' = TakenAway(Clicked(doc), down.el, down.act)
        BY <1>4, <2>5 DEF Release, TakenAway
      <3>2. doc'.press = None /\ doc'.load = doc.load /\ doc'.seen = Met(doc, down.el).seen /\ doc'.by = down.act
        <4>1. PICK c \in Page : c = Clicked(doc)
          BY <1>1, ClickedIs
        <4>2. c.press = None /\ c.load = doc.load /\ c.seen = Met(doc, down.el).seen
          BY <1>1, <4>1, ClickedIs
        <4> QED BY <1>1, <3>1, <4>1, <4>2, RoutedIs
      <3>3. navs' = Append(navs, Routed(down.act, doc)) /\ queue' = queue
        BY <1>4, <2>5 DEF Release
      <3> QED BY <1>1, <1>2, <2>2, <2>3, <2>4, <2>5, <3>2, <3>3
    <2>6. CASE effect = "load"
      <3>1. doc' = Leaves(down.act)
        BY <1>4, <2>6 DEF Release, Leaves
      <3>2. doc'.press = None /\ doc'.load = doc.load + 1 /\ doc'.seen = <<>> /\ doc'.by = down.act
        BY <1>1, <3>1, LeavesIs
      <3>3. navs' = Append(navs, Committed(down.act, TRUE)) /\ queue' = queue
        BY <1>4, <2>6 DEF Release
      <3> QED BY <1>1, <1>2, <2>2, <2>3, <2>4, <2>6, <3>2, <3>3
    <2>7. CASE effect \in {"none", "download"}
      <3>1. doc' = Clicked(doc)
        BY <1>4, <2>7 DEF Release
      <3>2. doc'.press = None /\ doc'.load = doc.load /\ doc'.seen = Met(doc, down.el).seen /\ doc'.by = doc.by
        BY <1>1, <3>1, ClickedIs
      <3>3. navs' = navs /\ (queue' = queue \/ queue' = Append(queue, [type |-> "download"]))
        BY <1>4, <2>7 DEF Release
      <3> QED BY <1>1, <1>2, <2>2, <2>3, <3>2, <3>3
    <2> QED BY <2>5, <2>6, <2>7
  <1> QED BY <1>3, <1>4

LEMMA ReleaseOnward ==
    ASSUME RecInv, NEW effect \in {"none", "route", "load", "download"}, Release(effect)
    PROVE  Onward
  <1>1. wire \in Seq(Told) /\ down # None /\ down' = None /\ acts' = acts /\ slow' = slow
    BY ReleaseDoes DEF RecInv, OnPage, Told1
  <1>2. CASE UNCHANGED <<doc, wire, navs>>
    BY <1>1, <1>2 DEF Onward, Pressed, Tells
  <1>3. CASE \E m \in Told : m.act = down.act /\ wire' = Append(wire, m) /\ doc'.press = None
    <2>1. PICK m \in Told : m.act = down.act /\ wire' = Append(wire, m) /\ doc'.press = None
      BY <1>3
    <2>2. \A a : Tells(Append(wire, m), a) => Tells(wire, a) \/ a = down.act
      BY <1>1, <2>1, TellsMore
    <2>3. \A a : Tells(wire, a)' => Tells(wire, a) \/ Pressed(a)
      BY <1>1, <2>1, <2>2 DEF Tells, Pressed
    <2>4. \A a : ~Pressed(a)'
      BY <1>1, <2>1 DEF Pressed
    <2> QED BY <1>1, <2>3, <2>4 DEF Onward
  <1> QED BY <1>2, <1>3, ReleaseDoes

\* ... and the click takes the press away from its timer.
LEMMA ReleaseOnce ==
    ASSUME RecInv, Once, NEW effect \in {"none", "route", "load", "download"}, Release(effect)
    PROVE  Once'
  <1>1. /\ wire \in Seq(Told) /\ down # None /\ down' = None /\ acts' = acts /\ slow' = slow /\ rec' = rec
        /\ queue' = queue \/ queue' = Append(queue, [type |-> "download"])
    BY ReleaseDoes DEF RecInv, OnPage, Told1
  <1>2. CASE UNCHANGED <<doc, wire, navs>>
    <2>1. OnceIn(wire, slow)' /\ (\A a : a \notin slow /\ Tells(wire, a) => ~Pressed(a))'
      BY <1>1, <1>2 DEF Once, Pressed, Tells, OnceIn
    <2> QED BY <1>1, <1>2, <2>1, ReleaseOnward, OnwardOnce DEF Once
  <1>3. CASE \E m \in Told : m.act = down.act /\ wire' = Append(wire, m) /\ doc'.press = None
    <2>1. PICK m \in Told : m.act = down.act /\ wire' = Append(wire, m) /\ doc'.press = None
      BY <1>3
    <2>2. ~Tells(wire, m.act) \/ m.act \in slow
      BY <1>1, <2>1 DEF Once, Pressed
    <2>3. OnceIn(Append(wire, m), slow)
      BY <1>1, <2>2, TellsMore DEF Once
    <2>4. OnceIn(wire, slow)'
      BY <1>1, <2>1, <2>3 DEF OnceIn
    <2>5. \A a : ~Pressed(a)'
      BY <1>1, <2>1 DEF Pressed
    <2> QED BY <1>1, <2>1, <2>4, <2>5, ReleaseOnward, OnwardOnce
  <1> QED BY <1>2, <1>3, ReleaseDoes

\* What typing does, ...
LEMMA TypingDoes ==
    ASSUME RecInv, NEW el \in DOMAIN Elements, (\E typed \in BOOLEAN : Change(el, typed)) \/ WatchFrames(el)
    PROVE  /\ acts' = acts + 1 /\ wire = <<>> /\ navs = <<>>
           /\ doc'.press = doc.press /\ doc'.load = doc.load /\ doc'.seen = Met(doc, el).seen /\ doc'.by = doc.by
           /\ \A k \in DOMAIN wire' : /\ wire'[k] \in Told /\ wire'[k].act = acts + 1 /\ wire'[k].load = doc.load
                                      /\ wire'[k].el = el /\ wire'[k].key = <<doc.load, Number(doc, el)>>
           /\ \A i, j \in DOMAIN wire' : wire'[i].type = "click" /\ wire'[j].type = "click" => i = j
           /\ UNCHANGED <<rec, starting, offer, down, navs, slow, assembly, outside>>
  <1>1. doc \in Page /\ acts \in Nat /\ acts + 1 \in Nat /\ acts' = acts + 1 /\ wire = <<>> /\ navs = <<>>
    BY DEF RecInv, OnPage, Change, WatchFrames, Room
  <1>2. UNCHANGED <<rec, starting, offer, down, navs, slow, assembly, outside>>
    BY DEF Change, WatchFrames
  <1>3. doc'.press = doc.press /\ doc'.load = doc.load /\ doc'.seen = Met(doc, el).seen /\ doc'.by = doc.by
    <2>1. PICK d : d = Met(doc, el)
      OBVIOUS
    <2>2. d \in Page /\ d.press = doc.press /\ d.load = doc.load /\ d.by = doc.by
      BY <1>1, <2>1, MetIs
    <2>3. doc' = d \/ doc' = [d EXCEPT !.warned = @ \cup {el}]
      BY <2>1 DEF Change, WatchFrames
    <2> QED BY <2>1, <2>2, <2>3 DEF Page
  <1>4. PICK x, y, m :
          x = Message("ax", doc, el, acts + 1) /\ y = Message("type", doc, el, acts + 1)
            /\ m = Message("click", doc, el, acts + 1)
    OBVIOUS
  <1>5. \A n \in {x, y, m} : /\ n \in Told /\ n.act = acts + 1 /\ n.load = doc.load /\ n.el = el
                             /\ n.key = <<doc.load, Number(doc, el)>>
    BY <1>1, <1>4, MessageIs
  <1>6. x.type = "ax" /\ y.type = "type"
    BY <1>1, <1>4, MessageIs
  <1>7. wire' \in {<<x>>, <<x, y>>, <<m>>}
    <2>1. CASE \E typed \in BOOLEAN : Change(el, typed)
      <3>1. wire' = <<x>> \o <<y>> \/ wire' = <<x>> \o <<>>
        BY <1>4, <2>1 DEF Change
      <3> QED BY <3>1, PairIs
    <2>2. CASE WatchFrames(el)
      <3>1. wire' = Append(<<>>, m)
        BY <1>1, <1>4, <2>2 DEF WatchFrames
      <3> QED BY <3>1, OneIs
    <2> QED BY <2>1, <2>2
  <1>8. PICK w : w = wire'
    OBVIOUS
  <1>9. /\ \A k \in DOMAIN w : w[k] \in {x, y, m}
        /\ \A i, j \in DOMAIN w : w[i].type = "click" /\ w[j].type = "click" => i = j
    <2>1. CASE w = <<x>>
      BY <2>1
    <2>2. CASE w = <<x, y>>
      BY <1>6, <2>2
    <2>3. CASE w = <<m>>
      BY <2>3
    <2> QED BY <1>7, <1>8, <2>1, <2>2, <2>3
  <1> QED BY <1>1, <1>2, <1>3, <1>5, <1>8, <1>9

LEMMA TypingOnward ==
    ASSUME RecInv, NEW el \in DOMAIN Elements, (\E typed \in BOOLEAN : Change(el, typed)) \/ WatchFrames(el)
    PROVE  Onward /\ (\A a : Tells(wire, a)' => New(a)) /\ (\A a : Pressed(a)' <=> Pressed(a))
  <1>1. (\A a : Tells(wire, a)' => New(a)) /\ (\A a : Pressed(a)' <=> Pressed(a)) /\ acts' = acts + 1 /\ slow' = slow
    BY TypingDoes DEF Tells, New, Pressed
  <1> QED BY <1>1 DEF Onward

LEMMA TypingOnce ==
    ASSUME RecInv, Once, NEW el \in DOMAIN Elements, (\E typed \in BOOLEAN : Change(el, typed)) \/ WatchFrames(el)
    PROVE  Once'
  <1>1. Onward /\ (\A a : Tells(wire, a)' => New(a)) /\ (\A a : Pressed(a)' <=> Pressed(a))
    BY TypingOnward
  <1>2. rec' = rec /\ queue' = queue /\ doc'.press = doc.press /\ down' = down
    BY TypingDoes DEF assembly
  <1>3. OnceIn(wire, slow)'
    BY TypingDoes DEF OnceIn
  <1>4. acts \in Nat
    BY DEF RecInv, OnPage
  <1>5. (\A a : a \notin slow /\ Tells(wire, a) => ~Pressed(a))'
    BY <1>1, <1>4 DEF Once, New
  <1> QED BY <1>1, <1>2, <1>3, <1>5, OnwardOnce DEF Once

\* ... and another page, ...
LEMMA VisitDoes ==
    ASSUME RecInv, Visit
    PROVE  /\ acts' = acts + 1 /\ wire = <<>> /\ wire' = wire /\ navs = <<>> /\ down' = None
           /\ doc'.press = None /\ doc'.load = doc.load + 1 /\ doc'.seen = <<>> /\ doc'.by = 0
           /\ navs' = Append(navs, Committed(acts + 1, FALSE))
           /\ UNCHANGED <<rec, starting, offer, slow, assembly, outside>>
  <1>1. doc \in Page /\ doc' = NewPage
    BY DEF RecInv, OnPage, Visit
  <1> QED BY <1>1, NewPageIs DEF Visit, Room

\* ... and an extraction.
LEMMA ArmDoes ==
    ASSUME RecInv, armExtract
    PROVE  /\ doc'.press = doc.press /\ doc'.load = doc.load /\ doc'.seen = doc.seen /\ doc'.by = doc.by
           /\ UNCHANGED <<rec, starting, offer, down, wire, navs, slow, assembly, outside, acts>>
  <1>1. doc \in Page
    BY DEF RecInv, OnPage
  <1>2. doc' = Armed(doc)
    BY DEF armExtract
  <1>3. UNCHANGED <<rec, starting, offer, down, wire, navs, slow, assembly, outside, acts>>
    BY DEF armExtract
  <1> QED BY <1>1, <1>2, <1>3 DEF Armed, Page

\* What an act set off moves the page once more.
LEMMA RerouteDoes ==
    ASSUME RecInv, NEW effect \in {"route", "load"}, Reroute(effect)
    PROVE  /\ doc.by # 0 /\ doc.by = acts /\ doc.by \in Nat /\ navs = <<>> /\ doc'.by = 0
           /\ UNCHANGED <<rec, starting, offer, wire, slow, assembly, outside, acts>>
           /\ \E n \in Navigation :
                /\ navs' = Append(navs, n) /\ n.act = doc.by /\ n.again /\ n.link
                /\ \/ /\ n.routed /\ down' = down
                      /\ doc'.press = doc.press /\ doc'.load = doc.load /\ doc'.seen = doc.seen
                   \/ /\ ~n.routed /\ n.load = doc.load + 1 /\ down' = None
                      /\ doc'.press = None /\ doc'.load = doc.load + 1 /\ doc'.seen = <<>>
  <1>1. doc \in Page /\ doc.by \in Nat /\ doc.load \in Nat
    BY DEF RecInv, OnPage, Page
  <1>2. doc.by # 0 /\ doc.by = acts /\ navs = <<>> /\ UNCHANGED <<rec, starting, offer, wire, slow, assembly, outside, acts>>
    BY DEF Reroute
  <1>3. CASE effect = "route"
    <2>1. doc' = Turned(doc, 0) /\ down' = down
      BY <1>3 DEF Reroute, Turned
    <2>2. doc'.press = doc.press /\ doc'.load = doc.load /\ doc'.seen = doc.seen /\ doc'.by = 0
      BY <1>1, <2>1, TurnedIs
    <2>3. PICK n : n = [Routed(doc.by, doc) EXCEPT !.again = TRUE]
      OBVIOUS
    <2>4. n \in Navigation /\ n.act = doc.by /\ n.again /\ n.link /\ n.routed
      BY <1>1, <2>3 DEF Routed, Navigation
    <2>5. navs' = Append(navs, n)
      <3>1. navs' = <<n>>
        BY <1>3, <2>3 DEF Reroute
      <3> QED BY <1>2, <3>1, OneIs
    <2> QED BY <1>1, <1>2, <2>1, <2>2, <2>4, <2>5
  <1>4. CASE effect = "load"
    <2>1. doc' = NewPage /\ down' = None
      BY <1>4 DEF Reroute
    <2>2. doc'.press = None /\ doc'.load = doc.load + 1 /\ doc'.seen = <<>> /\ doc'.by = 0
      BY <1>1, <2>1, NewPageIs
    <2>3. PICK n, l : n = [Committed(doc.by, TRUE) EXCEPT !.again = TRUE] /\ l = doc.load + 1
      OBVIOUS
    <2>4. n \in Navigation /\ n.act = doc.by /\ n.again /\ n.link /\ ~n.routed /\ n.load = doc.load + 1
      <3>1. n = [act |-> doc.by, routed |-> FALSE, link |-> TRUE, load |-> l, again |-> TRUE]
        BY <2>3 DEF Committed
      <3>2. l \in Nat /\ l = doc.load + 1
        BY <1>1, <2>3
      <3>3. n \in Navigation
        BY <1>1, <3>1, <3>2 DEF Navigation
      <3> QED BY <3>1, <3>2, <3>3
    <2>5. navs' = Append(navs, n)
      <3>1. navs' = <<n>>
        BY <1>4, <2>3 DEF Reroute
      <3> QED BY <1>2, <3>1, OneIs
    <2> QED BY <1>1, <1>2, <2>1, <2>2, <2>4, <2>5
  <1> QED BY <1>3, <1>4

LEMMA RerouteOnward == ASSUME RecInv, NEW effect \in {"route", "load"}, Reroute(effect) PROVE Onward
  BY RerouteDoes DEF Onward, Pressed, Tells

\* The click it belongs to is told of as before.
LEMMA RerouteOnce ==
    ASSUME RecInv, Once, NEW effect \in {"route", "load"}, Reroute(effect)
    PROVE  Once'
  <1>1. OnceIn(wire, slow)' /\ (\A a : a \notin slow /\ Tells(wire, a) => ~Pressed(a))'
    BY RerouteDoes DEF Once, Pressed, Tells, OnceIn
  <1>2. rec' = rec /\ queue' = queue
    BY RerouteDoes DEF assembly
  <1>3. (doc.press # None => doc.press.event.type = "click")' /\ (doc.press # None /\ down # None => doc.press.event.act = down.act)'
    BY RerouteDoes DEF Once
  <1> QED BY <1>1, <1>2, <1>3, RerouteOnward, OnwardOnce

LEMMA TurnsOnward == ASSUME RecInv, armExtract \/ Visit PROVE Onward
  <1>1. CASE armExtract
    BY <1>1, ArmDoes DEF Onward, Pressed, Tells
  <1>2. CASE Visit
    BY <1>2, VisitDoes DEF Onward, Pressed, Tells
  <1> QED BY <1>1, <1>2

LEMMA TurnsOnce == ASSUME RecInv, Once, armExtract \/ Visit PROVE Once'
  <1>1. CASE armExtract
    <2>1. OnceIn(wire, slow)' /\ (\A a : a \notin slow /\ Tells(wire, a) => ~Pressed(a))'
      BY <1>1, ArmDoes DEF Once, Pressed, Tells, OnceIn
    <2> QED BY <1>1, <2>1, ArmDoes, TurnsOnward, OnwardOnce DEF Once, assembly
  <1>2. CASE Visit
    <2>1. OnceIn(wire, slow)' /\ (\A a : a \notin slow /\ Tells(wire, a) => ~Pressed(a))'
      BY <1>2, VisitDoes DEF Once, Pressed, Tells, OnceIn
    <2> QED BY <1>2, <2>1, VisitDoes, TurnsOnward, OnwardOnce DEF assembly
  <1> QED BY <1>1, <1>2

\* What the worker makes of the next of its queue.
LEMMA WorkDoes ==
    ASSUME RecInv, NEW soon \in BOOLEAN, Work(soon)
    PROVE  /\ UNCHANGED <<starting, offer, down, wire, navs, slow, saving, vault, saved, logins, acts>>
           /\ queue \in Seq(Queued) /\ queue # <<>> /\ queue' = Tail(queue)
           /\ doc'.press = doc.press /\ doc'.load = doc.load /\ doc'.seen = doc.seen /\ doc'.by = doc.by
           /\ queries' \subseteq queries
           /\ \/ rec' = rec /\ heard' = heard
              \/ rec # None /\ rec' = None /\ heard' = broadcastRecording(rec.session) /\ rec.session \in Nat
              \/ /\ rec \in Record /\ Steps1(rec.steps) /\ heard' = heard
                 /\ \/ /\ Head(queue).type = "nav" /\ Head(queue).nav \in Navigation
                       /\ rec' = recordNavigation(Head(queue).nav)
                    \/ Head(queue).type = "download" /\ rec' = recordDownload(soon)
                    \/ /\ Head(queue) \in Told /\ Head(queue).type # "ax" /\ Silent(Head(queue))
                       /\ rec' = assembleInteraction(Head(queue), soon)
  <1>1. /\ UNCHANGED <<starting, offer, down, wire, navs, slow, saving, vault, saved, logins, acts>>
        /\ queue # <<>> /\ queue' = Tail(queue)
    BY DEF Work
  <1>2. Queue1(queue) /\ queue \in Seq(Queued) /\ doc \in Page
    BY DEF RecInv, InMemory, OnPage, Queue1
  <1>3. PICK w : w = Head(queue)
    OBVIOUS
  <1>4. /\ w.type \notin {"nav", "download"} => w \in Told /\ w.type # "ax" /\ Silent(w)
        /\ w.type = "nav" => w.nav \in Navigation
    BY <1>1, <1>2, <1>3, WorkedIs
  <1>5. doc'.press = doc.press /\ doc'.load = doc.load /\ doc'.seen = doc.seen /\ doc'.by = doc.by
    <2>1. doc' = doc \/ doc' = Entered(w.nav)
      BY <1>3 DEF Work, completeRepick
    <2>2. Entered(w.nav) = doc \/ Entered(w.nav) = [doc EXCEPT !.installed = TRUE]
      BY DEF Entered
    <2> QED BY <1>2, <2>1, <2>2 DEF Page
  <1>6. queries' \subseteq queries
    <2>1. queries' \in {queries, {}, {q \in queries : q.key # w.key}}
      BY <1>3 DEF Work, completeRepick
    <2> QED BY <2>1
  <1>7. rec # None => rec \in Record /\ Steps1(rec.steps) /\ rec.session \in Nat
    BY DEF RecInv, InStore, Record
  <1>8. \/ rec' = rec /\ heard' = heard
        \/ rec # None /\ rec' = None /\ heard' = broadcastRecording(rec.session)
        \/ /\ rec # None /\ heard' = heard
           /\ \/ w.type = "nav" /\ rec' = recordNavigation(w.nav)
              \/ w.type = "download" /\ rec' = recordDownload(soon)
              \/ w.type \notin {"nav", "download"} /\ rec' = assembleInteraction(w, soon)
    BY <1>3 DEF Work, completeRepick
  <1> QED BY <1>1, <1>2, <1>3, <1>4, <1>5, <1>6, <1>7, <1>8

\* Nothing is told of that was not, in the same places or fewer.
LEMMA LessOnce ==
    ASSUME Once, acts \in Nat, acts' \in Nat, acts <= acts', doc'.press = doc.press, down' = down, slow' = slow,
           \A a : /\ Tells(wire, a)' => Tells(wire, a)
                  /\ Tells(queue, a)' => Tells(queue, a)
                  /\ Tells(Recorded, a)' => Tells(Recorded, a),
           OnceIn(wire, slow)', OnceIn(queue, slow)', OnceIn(Recorded, slow)'
    PROVE  Once'
  <1>1. \A a : Pressed(a)' <=> Pressed(a)
    BY DEF Pressed
  <1>2. \A a : a \in 1 .. acts => a \in 1 .. acts'
    OBVIOUS
  <1>3. ASSUME NEW a PROVE Pressed(a)' \/ Tells(wire, a)' \/ Tells(queue, a)' \/ Tells(Recorded, a)' => a \in 1 .. acts'
    BY <1>1, <1>2 DEF Once
  <1>4. ASSUME NEW a, a \notin slow'
        PROVE  /\ Tells(wire, a)' => ~Pressed(a)'
               /\ Tells(queue, a)' => ~Pressed(a)' /\ ~Tells(wire, a)'
               /\ Tells(Recorded, a)' => ~Pressed(a)' /\ ~Tells(wire, a)' /\ ~Tells(queue, a)'
    BY <1>1, <1>4 DEF Once
  <1> QED BY <1>3, <1>4 DEF Once

\* A message goes from the page to the queue.
LEMMA AcceptsOnce == ASSUME RecInv, Once, acceptRecorderMessage PROVE Once'
  <1>1. /\ wire \in Seq(Told) /\ wire # <<>> /\ queue \in Seq(Queued) /\ acts \in Nat
        /\ UNCHANGED <<rec, doc, down, slow, acts>>
    BY DEF RecInv, OnPage, InMemory, Told1, Queue1, acceptRecorderMessage
  <1>2. PICK w, e : w = wire' /\ e = Head(wire)
    OBVIOUS
  <1>3. e \in Told /\ e \in Queued /\ w = Tail(wire)
    BY <1>1, <1>2, TailIs DEF Queued, acceptRecorderMessage
  <1>4. /\ \A a : Tells(w, a) => Tells(wire, a)
        /\ e.type = "click" => Tells(wire, e.act)
        /\ OnceIn(w, slow) /\ (e.type = "click" /\ e.act \notin slow => ~Tells(w, e.act))
    BY <1>1, <1>2, <1>3, TellsLess DEF Once
  <1>5. Recorded' = Recorded
    BY <1>1 DEF Recorded
  <1>6. CASE queue' = queue
    <2>1. OnceIn(wire, slow)' /\ OnceIn(queue, slow)' /\ OnceIn(Recorded, slow)'
      BY <1>1, <1>2, <1>4, <1>5, <1>6 DEF OnceIn, Once
    <2>2. \A a : /\ Tells(wire, a)' => Tells(wire, a)
                 /\ Tells(queue, a)' => Tells(queue, a)
                 /\ Tells(Recorded, a)' => Tells(Recorded, a)
      BY <1>2, <1>4, <1>5, <1>6 DEF Tells
    <2> QED BY <1>1, <2>1, <2>2, LessOnce
  <1>7. CASE queue' = Append(queue, e)
    <2>1. PICK q : q = queue'
      OBVIOUS
    <2>2. /\ \A a : Tells(q, a) <=> Tells(queue, a) \/ (e.type = "click" /\ e.act = a)
          /\ OnceIn(queue, slow) /\ (e.type = "click" => ~Tells(queue, e.act) \/ e.act \in slow) => OnceIn(q, slow)
      BY <1>1, <1>3, <1>7, <2>1, TellsMore
    <2>3. OnceIn(q, slow)
      BY <1>4, <2>2 DEF Once
    <2>4. /\ \A a : (Tells(wire, a)' <=> Tells(w, a)) /\ (Tells(queue, a)' <=> Tells(q, a))
                    /\ (Pressed(a)' <=> Pressed(a)) /\ (Tells(Recorded, a)' <=> Tells(Recorded, a))
          /\ OnceIn(wire, slow)' /\ OnceIn(queue, slow)' /\ OnceIn(Recorded, slow)'
      BY <1>1, <1>2, <1>4, <1>5, <2>1, <2>3 DEF Tells, OnceIn, Once, Pressed
    <2>5. ASSUME NEW a PROVE Pressed(a)' \/ Tells(wire, a)' \/ Tells(queue, a)' \/ Tells(Recorded, a)' => a \in 1 .. acts'
      BY <1>1, <1>4, <2>2, <2>4 DEF Once
    <2>6. ASSUME NEW a, a \notin slow'
          PROVE  /\ Tells(wire, a)' => ~Pressed(a)'
                 /\ Tells(queue, a)' => ~Pressed(a)' /\ ~Tells(wire, a)'
                 /\ Tells(Recorded, a)' => ~Pressed(a)' /\ ~Tells(wire, a)' /\ ~Tells(queue, a)'
      BY <1>1, <1>4, <2>2, <2>4, <2>6 DEF Once
    <2> QED BY <1>1, <2>4, <2>5, <2>6 DEF Once
  <1> QED BY <1>2, <1>6, <1>7 DEF acceptRecorderMessage, assembly

LEMMA NavArrivesOnce == ASSUME RecInv, Once, NavArrives PROVE Once'
  <1>1. /\ navs \in Seq(Navigation) /\ navs # <<>> /\ queue \in Seq(Queued) /\ acts \in Nat
        /\ UNCHANGED <<rec, doc, down, wire, slow, acts>>
    BY DEF RecInv, OnPage, InMemory, Queue1, NavArrives
  <1>2. PICK e : e = [type |-> "nav", nav |-> Head(navs)]
    OBVIOUS
  <1>3. e \in Queued /\ e.type = "nav" /\ queue' = Append(queue, e)
    BY <1>1, <1>2, TailIs DEF Queued, NavArrives
  <1>4. PICK q : q = queue'
    OBVIOUS
  <1>5. (\A a : Tells(q, a) => Tells(queue, a)) /\ OnceIn(q, slow)
    BY <1>1, <1>3, <1>4, TellsMore DEF Once
  <1>6. Recorded' = Recorded
    BY <1>1 DEF Recorded
  <1>7. OnceIn(wire, slow)' /\ OnceIn(queue, slow)' /\ OnceIn(Recorded, slow)'
    BY <1>1, <1>4, <1>5, <1>6 DEF OnceIn, Once
  <1>8. \A a : /\ Tells(wire, a)' => Tells(wire, a)
               /\ Tells(queue, a)' => Tells(queue, a)
               /\ Tells(Recorded, a)' => Tells(Recorded, a)
    BY <1>1, <1>4, <1>5, <1>6 DEF Tells
  <1> QED BY <1>1, <1>7, <1>8, LessOnce

\* A Step told anew tells of no other click.
LEMMA TellsRetold ==
    ASSUME NEW s, NEW n \in DOMAIN s, NEW e, e.type = "click" => s[n].type = "click" /\ e.act = s[n].act
    PROVE  /\ \A a : Tells([s EXCEPT ![n] = e], a) => Tells(s, a)
           /\ \A h : OnceIn(s, h) => OnceIn([s EXCEPT ![n] = e], h)
  <1>1. PICK t : t = [s EXCEPT ![n] = e]
    OBVIOUS
  <1>2. DOMAIN t = DOMAIN s /\ t[n] = e /\ \A k \in DOMAIN s : k # n => t[k] = s[k]
    BY <1>1
  <1>3. \A a : Tells(t, a) => Tells(s, a)
    BY <1>2 DEF Tells
  <1>4. ASSUME NEW h, OnceIn(s, h) PROVE OnceIn(t, h)
    <2>1. \A k \in DOMAIN t : t[k].type = "click" => s[k].type = "click" /\ t[k].act = s[k].act
      BY <1>2
    <2> QED BY <1>2, <1>4, <2>1 DEF OnceIn
  <1> QED BY <1>1, <1>3, <1>4

\* A recording that is there holds its Steps.
LEMMA RecordedIs ==
    /\ rec \in Record => Recorded = rec.steps
    /\ rec' \in Record => Recorded' = rec'.steps
    /\ rec = None => Recorded = <<>>
    /\ rec' = None => Recorded' = <<>>
    /\ rec' = rec => Recorded' = Recorded
  BY RecordAssumption DEF Recorded

\* An event goes from the queue into a Step.
LEMMA WorkOnce == ASSUME RecInv, Once, NEW soon \in BOOLEAN, Work(soon) PROVE Once'
  <1>1. /\ queue \in Seq(Queued) /\ queue # <<>> /\ queue' = Tail(queue) /\ acts \in Nat
        /\ doc'.press = doc.press /\ UNCHANGED <<down, wire, slow, acts>>
    BY WorkDoes DEF RecInv, OnPage
  <1>2. PICK q, e : q = Tail(queue) /\ e = Head(queue)
    OBVIOUS
  <1>3. /\ \A a : Tells(q, a) => Tells(queue, a)
        /\ e.type = "click" => Tells(queue, e.act)
        /\ OnceIn(q, slow) /\ (e.type = "click" /\ e.act \notin slow => ~Tells(q, e.act))
    BY <1>1, <1>2, TellsLess DEF Once
  <1>4. OnceIn(wire, slow)' /\ OnceIn(queue, slow)'
    BY <1>1, <1>2, <1>3 DEF OnceIn, Once
  <1>5. \A a : /\ Tells(wire, a)' <=> Tells(wire, a)
               /\ Tells(queue, a)' <=> Tells(q, a)
               /\ Pressed(a)' <=> Pressed(a)
    BY <1>1, <1>2 DEF Tells, Pressed
  <1>6. PICK r : r = Recorded'
    OBVIOUS
  <1>7. (\A a : Tells(Recorded, a)' <=> Tells(r, a)) /\ (OnceIn(r, slow) => OnceIn(Recorded, slow)')
    BY <1>1, <1>6 DEF Tells, OnceIn
  <1>8. CASE (\A a : Tells(r, a) => Tells(Recorded, a)) /\ OnceIn(r, slow)
    BY <1>1, <1>3, <1>4, <1>5, <1>7, <1>8, LessOnce
  <1>9. CASE rec' = rec
    <2>1. r = Recorded
      BY <1>6, <1>9, RecordedIs
    <2> QED BY <1>8, <2>1 DEF Once
  <1>10. CASE rec' = None
    BY <1>6, <1>8, <1>10, RecordedIs, TellsNone
  <1>11. CASE rec \in Record /\ Steps1(rec.steps) /\ e.type = "nav" /\ e.nav \in Navigation /\ rec' = recordNavigation(e.nav)
    <2>1. PICK s : s = rec.steps
      OBVIOUS
    <2>2. s = Recorded /\ s \in Seq(Step) /\ OnceIn(s, slow)
      BY <1>11, <2>1, RecordedIs DEF Once, Steps1
    <2>3. /\ r = rec'.steps
          /\ \/ s # <<>> /\ Last(s).type = "click" /\ r = [s EXCEPT ![Len(s)] = [@ EXCEPT !.asserted = TRUE]]
             \/ r = Append(s, NavigateStep(e.nav.act, e.nav.again))
      BY <1>6, <1>11, <2>1, NavigatedIs, RecordedIs
    <2>4. CASE s # <<>> /\ Last(s).type = "click" /\ r = [s EXCEPT ![Len(s)] = [@ EXCEPT !.asserted = TRUE]]
      <3>1. PICK n \in DOMAIN s : n = Len(s)
        BY <2>2, <2>4, FrontIs
      <3>2. s[n] \in Step
        BY <2>2
      <3>3. PICK d : d = [s[n] EXCEPT !.asserted = TRUE]
        OBVIOUS
      <3>4. d.type = s[n].type /\ d.act = s[n].act
        BY <3>2, <3>3 DEF Step
      <3>5. r = [s EXCEPT ![n] = d]
        BY <2>4, <3>1, <3>3
      <3> QED BY <1>8, <2>2, <3>4, <3>5, TellsRetold
    <2>5. CASE r = Append(s, NavigateStep(e.nav.act, e.nav.again))
      <3>1. NavigateStep(e.nav.act, e.nav.again) \in Step /\ NavigateStep(e.nav.act, e.nav.again).type = "navigate"
        BY <1>11, NavigateIs DEF Navigation
      <3>2. PICK d \in Step : d = NavigateStep(e.nav.act, e.nav.again) /\ d.type = "navigate"
        BY <3>1
      <3>3. (\A a : Tells(r, a) => Tells(s, a)) /\ OnceIn(r, slow)
        BY <2>2, <2>5, <3>2, TellsMore
      <3> QED BY <1>8, <2>2, <3>3
    <2> QED BY <2>3, <2>4, <2>5
  <1>12. CASE rec \in Record /\ Steps1(rec.steps) /\ rec' = recordDownload(soon)
    <2>1. PICK s : s = rec.steps
      OBVIOUS
    <2>2. s = Recorded /\ OnceIn(s, slow)
      BY <1>12, <2>1, RecordedIs DEF Once
    <2>3. /\ r = rec'.steps
          /\ \/ r = s
             \/ \E n \in DOMAIN s, d \in Step : r = [s EXCEPT ![n] = d] /\ d.type = "download"
      <3>1. PICK p : p = recordDownload(soon)
        OBVIOUS
      <3>2. /\ p \in Record
            /\ \/ p.steps = rec.steps
               \/ \E n \in DOMAIN rec.steps, d \in Step : p.steps = [rec.steps EXCEPT ![n] = d] /\ d.type = "download"
        BY <1>12, <3>1, DownloadedIs
      <3>3. r = p.steps
        BY <1>6, <1>12, <3>1, <3>2, RecordedIs
      <3> QED BY <1>12, <2>1, <3>1, <3>2, <3>3
    <2>4. CASE r = s
      BY <1>8, <2>2, <2>4
    <2>5. CASE \E n \in DOMAIN s, d \in Step : r = [s EXCEPT ![n] = d] /\ d.type = "download"
      <3>1. PICK n \in DOMAIN s, d \in Step : r = [s EXCEPT ![n] = d] /\ d.type = "download"
        BY <2>5
      <3> QED BY <1>8, <2>2, <3>1, TellsRetold
    <2> QED BY <2>3, <2>4, <2>5
  <1>13. CASE /\ rec \in Record /\ Steps1(rec.steps) /\ e \in Told /\ e.type # "ax" /\ Silent(e)
              /\ rec' = assembleInteraction(e, soon)
    <2>1. PICK s : s = Claimed(rec, e, soon)
      OBVIOUS
    <2>2. InMemory
      BY DEF RecInv
    <2>3. PICK d \in Step : d.type = e.type /\ d.act = e.act /\ Steps1(s) /\ r = Append(s, d)
      <3>1. PICK p : p = assembleInteraction(e, soon)
        OBVIOUS
      <3>2. PICK d \in Step : /\ d.type = e.type /\ d.act = e.act /\ p \in Record /\ Steps1(Claimed(rec, e, soon))
                             /\ p.steps = Append(Claimed(rec, e, soon), d)
        <4>1. rec \in Record /\ Steps1(rec.steps) /\ e \in Told /\ e.type # "ax" /\ Silent(e)
          BY <1>13
        <4>2. PICK d \in Step :
                /\ d.type = e.type /\ d.act = e.act
                /\ assembleInteraction(e, soon) \in Record
                /\ assembleInteraction(e, soon).steps = Append(Claimed(rec, e, soon), d)
                /\ Steps1(Claimed(rec, e, soon))
          BY <2>2, <4>1, AssembledIs
        <4> QED BY <3>1, <4>2
      <3>3. r = p.steps
        BY <1>6, <1>13, <3>1, <3>2, RecordedIs
      <3> QED BY <2>1, <3>2, <3>3
    <2>4. (\A a : Tells(s, a) => Tells(Recorded, a)) /\ OnceIn(s, slow)
      <3>1. Recorded = rec.steps /\ OnceIn(rec.steps, slow) /\ rec.steps \in Seq(Step)
        BY <1>13, RecordedIs DEF Once, Steps1
      <3>2. s = rec.steps \/ (rec.steps # <<>> /\ s = Front(rec.steps))
        BY <2>1 DEF Claimed, Claims
      <3> QED BY <3>1, <3>2, TellsFront
    <2>5. s \in Seq(Step)
      BY <2>3 DEF Steps1
    <2>6. /\ \A a : Tells(r, a) <=> Tells(s, a) \/ (e.type = "click" /\ e.act = a)
          /\ OnceIn(s, slow) /\ (e.type = "click" => ~Tells(s, e.act) \/ e.act \in slow) => OnceIn(r, slow)
      BY <2>3, <2>5, TellsMore
    <2>7. OnceIn(r, slow)
      BY <1>3, <2>4, <2>6 DEF Once
    <2>8. ASSUME NEW a PROVE Pressed(a)' \/ Tells(wire, a)' \/ Tells(queue, a)' \/ Tells(Recorded, a)' => a \in 1 .. acts'
      BY <1>1, <1>3, <1>5, <1>7, <2>4, <2>6 DEF Once
    <2>9. ASSUME NEW a, a \notin slow'
          PROVE  /\ Tells(wire, a)' => ~Pressed(a)'
                 /\ Tells(queue, a)' => ~Pressed(a)' /\ ~Tells(wire, a)'
                 /\ Tells(Recorded, a)' => ~Pressed(a)' /\ ~Tells(wire, a)' /\ ~Tells(queue, a)'
      BY <1>1, <1>3, <1>5, <1>7, <2>4, <2>6, <2>9 DEF Once
    <2> QED BY <1>1, <1>4, <1>7, <2>7, <2>8, <2>9 DEF Once
  <1> QED BY <1>2, <1>9, <1>10, <1>11, <1>12, <1>13, WorkDoes

\* What is done with a recording beside the page and the queue.
Elsewhere ==
    /\ doc'.press = doc.press /\ doc'.load = doc.load /\ doc'.seen = doc.seen /\ doc'.by = doc.by
    /\ UNCHANGED <<down, wire, navs, slow>> /\ acts' \in {acts, acts + 1}
    /\ queue' = queue \/ queue' = <<>>
    /\ \/ Recorded' = Recorded /\ (Recorded # <<>> => rec'.routed = rec.routed)
       \/ Recorded' = <<>>
       \/ Recorded' = <<NavigateStep(0, FALSE)>>

\* The actions of that.
Aside ==
    \/ (\E mode \in Mode : Offer(mode)) \/ acceptRecordingPageMessage \/ startPendingRecording
    \/ announceRecordingStart \/ takeRecordingIntent \/ startRecording
    \/ Stop \/ discardRecording \/ RecorderStops
    \/ Save \/ LogOut \/ WithdrawSite
    \/ resolveRecordingSecrets \/ permissionsContain \/ uploadAuthStates \/ finalizeRecording
    \/ \E q \in queries : queryAccessibility(q)

\* All else leaves page and queue alone, or clears the queue, and a recording as it is, empty or at
\* its first Step.
LEMMA AsideIs == ASSUME RecInv, Aside PROVE Elsewhere
  <1>1. doc \in Page /\ rec \in Record \cup {None}
    BY DEF RecInv, OnPage, InStore
  <1>2. rec' = rec => Recorded' = Recorded /\ (Recorded # <<>> => rec'.routed = rec.routed)
    BY RecordedIs
  <1>3. rec' = None => Recorded' = <<>>
    BY RecordedIs
  <1>4. CASE \/ (\E mode \in Mode : Offer(mode)) \/ startPendingRecording \/ announceRecordingStart \/ takeRecordingIntent
             \/ Save \/ LogOut \/ WithdrawSite \/ resolveRecordingSecrets \/ permissionsContain \/ uploadAuthStates
             \/ \E q \in queries : queryAccessibility(q)
    <2>1. /\ UNCHANGED <<rec, doc, down, wire, navs, slow, queue>> /\ acts' \in {acts, acts + 1}
      BY <1>4 DEF Offer, startPendingRecording, announceRecordingStart, takeRecordingIntent, Save, LogOut, WithdrawSite,
                  resolveRecordingSecrets, permissionsContain, uploadAuthStates, queryAccessibility, tab, assembly
    <2> QED BY <1>2, <2>1 DEF Elsewhere
  <1>5. CASE acceptRecordingPageMessage
    <2>1. UNCHANGED <<doc, down, wire, navs, slow, queue, acts>> /\ (rec' = rec \/ rec' = readPendingRecording) /\ offer # None
      BY <1>5 DEF acceptRecordingPageMessage, tab, assembly
    <2>2. rec' = readPendingRecording => Recorded' = <<>>
      <3>1. <<>> \in Seq(Step) /\ offer \in [mode : Mode, session : Nat]
        BY <2>1 DEF RecInv, InStore
      <3>2. readPendingRecording \in Record /\ readPendingRecording.steps = <<>>
        BY <3>1 DEF readPendingRecording, Record
      <3> QED BY <3>2, RecordedIs
    <2> QED BY <1>2, <2>1, <2>2 DEF Elsewhere
  <1>6. CASE startRecording
    <2>1. UNCHANGED <<down, wire, navs, slow, queue, acts>>
      BY <1>6 DEF startRecording, assembly
    <2>2. CASE UNCHANGED <<rec, doc>>
      BY <1>2, <2>1, <2>2 DEF Elsewhere
    <2>3. CASE rec # None /\ rec' = [rec EXCEPT !.state = "recording",
                                    !.steps = IF rec.mode = "record" THEN <<NavigateStep(0, FALSE)>> ELSE @]
                          /\ doc' = [doc EXCEPT !.installed = TRUE]
      <3>1. doc'.press = doc.press /\ doc'.load = doc.load /\ doc'.seen = doc.seen /\ doc'.by = doc.by
        BY <1>1, <2>3 DEF Page
      <3>2. <<NavigateStep(0, FALSE)>> \in Seq(Step) /\ rec \in Record
        <4>1. PICK d : d = NavigateStep(0, FALSE)
          OBVIOUS
        <4>2. d \in Step
          BY <4>1, NavigateIs
        <4>3. <<d>> \in Seq(Step)
          BY <4>2
        <4> QED BY <1>1, <2>3, <4>1, <4>3
      <3>3. rec' \in Record /\ rec'.routed = rec.routed /\ (rec'.steps = rec.steps \/ rec'.steps = <<NavigateStep(0, FALSE)>>)
        BY <2>3, <3>2 DEF Record
      <3>4. Recorded = rec.steps /\ Recorded' = rec'.steps
        BY <3>2, <3>3, RecordedIs
      <3> QED BY <2>1, <3>1, <3>3, <3>4 DEF Elsewhere
    <2> QED BY <1>6, <2>2, <2>3 DEF startRecording
  <1>7. CASE Stop
    <2>1. UNCHANGED <<doc, down, wire, navs, slow, queue, acts>> /\ rec # None
          /\ (rec' = None \/ \E choice \in BOOLEAN : rec' = [rec EXCEPT !.state = "ended", !.logins = choice])
      BY <1>7 DEF Stop, loadAuthChoices, tab
    <2>2. CASE \E choice \in BOOLEAN : rec' = [rec EXCEPT !.state = "ended", !.logins = choice]
      <3>1. rec' \in Record /\ rec \in Record /\ rec'.routed = rec.routed /\ rec'.steps = rec.steps
        BY <1>1, <2>1, <2>2 DEF Record
      <3> QED BY <2>1, <3>1, RecordedIs DEF Elsewhere
    <2> QED BY <1>3, <2>1, <2>2 DEF Elsewhere
  <1>8. CASE discardRecording \/ RecorderStops \/ finalizeRecording
    <2>1. UNCHANGED <<doc, down, wire, navs, slow, acts>> /\ (queue' = queue \/ queue' = <<>>) /\ (rec' = rec \/ rec' = None)
      BY <1>8 DEF discardRecording, RecorderStops, finalizeRecording, tab, assembly
    <2> QED BY <1>2, <1>3, <2>1 DEF Elsewhere
  <1> QED BY <1>4, <1>5, <1>6, <1>7, <1>8 DEF Aside

LEMMA AsideOnce == ASSUME RecInv, Once, Elsewhere PROVE Once'
  <1>1. acts \in Nat
    BY DEF RecInv, OnPage
  <1>2. PICK r, q : r = Recorded' /\ q = queue'
    OBVIOUS
  <1>3. /\ \A a : Tells(<<NavigateStep(0, FALSE)>>, a) <=> FALSE
        /\ OnceIn(<<NavigateStep(0, FALSE)>>, slow)
    <2>1. PICK d : d = NavigateStep(0, FALSE)
      OBVIOUS
    <2>2. d.type = "navigate"
      BY <2>1, NavigateIs
    <2>3. PICK s : s = <<d>>
      OBVIOUS
    <2>4. \A k \in DOMAIN s : s[k] = d
      BY <2>3
    <2> QED BY <2>1, <2>2, <2>3, <2>4 DEF Tells, OnceIn
  <1>4. (\A a : Tells(r, a) => Tells(Recorded, a)) /\ OnceIn(r, slow)
    BY <1>2, <1>3, TellsNone DEF Elsewhere, Once
  <1>5. (\A a : Tells(q, a) => Tells(queue, a)) /\ OnceIn(q, slow)
    BY <1>2, TellsNone DEF Elsewhere, Once
  <1>6. \A a : /\ Tells(wire, a)' => Tells(wire, a)
               /\ Tells(queue, a)' => Tells(queue, a)
               /\ Tells(Recorded, a)' => Tells(Recorded, a)
    BY <1>2, <1>4, <1>5 DEF Tells, Elsewhere
  <1>7. OnceIn(wire, slow)' /\ OnceIn(queue, slow)' /\ OnceIn(Recorded, slow)'
    BY <1>2, <1>4, <1>5 DEF OnceIn, Elsewhere, Once
  <1> QED BY <1>1, <1>6, <1>7, LessOnce DEF Elsewhere

-----------------------------------------------------------------------------
(* What moved the page.                                                    *)

\* The page is done with a click, ...
Unsaid(a) == ~Pressed(a) /\ ~Tells(wire, a)

\* ... and nothing but the first k of the queue can tell of it.
Over(a, k) == Unsaid(a) /\ \A j \in DOMAIN queue : queue[j].type = "click" /\ queue[j].act = a => j <= k

NavAt(k, a) == k \in DOMAIN queue /\ queue[k].type = "nav" /\ queue[k].nav.act = a
MovedAt(i, a) == i \in DOMAIN Recorded /\ Recorded[i].type = "navigate" /\ Recorded[i].act = a
Noted(a) == (\E k : NavAt(k, a)) \/ (\E i : MovedAt(i, a))

\* An act moves the page once, and what follows is marked, ...
Moves ==
    /\ \A j \in DOMAIN navs : j = 1 /\ navs[j].act \in 1 .. acts /\ (Noted(navs[j].act) => navs[j].again)
    /\ \A k, a : NavAt(k, a) => a \in 1 .. acts
    /\ \A i, a : MovedAt(i, a) => a \in 0 .. acts
    /\ \A k, l, a : NavAt(k, a) /\ NavAt(l, a) /\ k < l => queue[l].nav.again
    /\ \A i, j, a : MovedAt(i, a) /\ MovedAt(j, a) /\ i < j => Recorded[j].again
    /\ \A k, i, a : NavAt(k, a) /\ MovedAt(i, a) => queue[k].nav.again

\* ... not before it is done, ...
Still ==
    down # None /\ ~down.moved =>
      /\ navs = <<>> /\ ~Noted(down.act)
      /\ \A a : Noted(a) => ~Tells(wire, a)

\* ... and by hand without a click.
Unlinked ==
    /\ \A j \in DOMAIN navs : ~navs[j].link => Over(navs[j].act, 0) /\ ~Tells(Recorded, navs[j].act)
    /\ \A k, a : NavAt(k, a) /\ ~queue[k].nav.link => Over(a, 0) /\ ~Tells(Recorded, a)

\* A page is left when all that it had to say has been said, ...
Loads ==
    /\ \A k \in DOMAIN wire : wire[k].load <= doc.load
    /\ doc.press # None => doc.press.event.load <= doc.load
Left ==
    /\ \A j \in DOMAIN navs : ~navs[j].routed =>
         /\ ~Pressed(navs[j].act)
         /\ \A k \in DOMAIN wire : wire[k].type = "click" /\ wire[k].act = navs[j].act => wire[k].load < navs[j].load
    /\ \A k, a : NavAt(k, a) /\ ~queue[k].nav.routed => Over(a, k)

\* ... and a navigation of another act follows when the click of the last has been told of.
Passed ==
    /\ navs # <<>> => \A a : Noted(a) => Unsaid(a) \/ a = navs[1].act
    /\ \A k, l, a, b : NavAt(k, b) /\ NavAt(l, a) /\ l < k => Over(a, k) \/ a = b
    /\ \A k, i, a, b : NavAt(k, b) /\ MovedAt(i, a) => Over(a, k) \/ a = b

\* What a click is still to come for is its last navigations, and the last of them can be claimed.
Claimable ==
    \A i, a : MovedAt(i, a) /\ ~Over(a, 0) =>
      /\ \A j, b : MovedAt(j, b) /\ i < j => b = a
      /\ \A j : j = Len(Recorded) /\ MovedAt(j, a) => rec.routed

\* The act that may move the page again is the last one, and all before it has been told of.
Again ==
    /\ doc.by <= acts
    /\ doc.by # 0 /\ doc.by = acts =>
         /\ down # None => down.moved /\ down.act = doc.by
         /\ \A a : Noted(a) /\ a # doc.by => Unsaid(a)
         /\ \A j \in DOMAIN navs : navs[j].act = doc.by

MoveInv == Moves /\ Still /\ Unlinked /\ Loads /\ Left /\ Passed /\ Claimable /\ Again /\ NavigatesOnce

\* It is the last one until another act, unless the page has moved again.
LEMMA AgainKept ==
    ASSUME RecInv, Once, MoveInv, acts' \in {acts, acts + 1},
           \/ doc'.by = 0
           \/ /\ doc'.by = doc.by
              /\ acts' = acts =>
                   /\ down' = down \/ down' = None
                   /\ \A a : Noted(a)' => Noted(a) \/ a = 0 \/ \E j \in DOMAIN navs : navs[j].act = a
                   /\ \A a : Unsaid(a) => Unsaid(a)'
                   /\ \A j \in DOMAIN navs' : j \in DOMAIN navs /\ navs'[j] = navs[j]
    PROVE  Again'
  <1>1. acts \in Nat /\ acts' \in Nat /\ acts <= acts' /\ doc.by \in Nat
    BY DEF RecInv, OnPage, Page
  <1>2. Unsaid(0)
    <2>1. 0 \notin 1 .. acts
      BY <1>1
    <2> QED BY <2>1 DEF Once, Unsaid
  <1>3. CASE doc'.by = 0
    BY <1>1, <1>3 DEF Again
  <1>4. CASE doc'.by = doc.by /\ doc.by # acts'
    BY <1>1, <1>4 DEF Again, MoveInv
  <1>5. CASE doc'.by = doc.by /\ doc.by # 0 /\ doc.by = acts'
    <2>1. acts' = acts
      BY <1>1, <1>5 DEF Again, MoveInv
    <2>2. /\ down # None => down.moved /\ down.act = doc.by
          /\ \A a : Noted(a) /\ a # doc.by => Unsaid(a)
          /\ \A j \in DOMAIN navs : navs[j].act = doc.by
      BY <1>5, <2>1 DEF Again, MoveInv
    <2>3. down' # None => down'.moved /\ down'.act = doc'.by
      BY <1>5, <2>1, <2>2
    <2>4. \A a : Noted(a)' /\ a # doc'.by => Unsaid(a)'
      BY <1>2, <1>5, <2>1, <2>2
    <2>5. \A j \in DOMAIN navs' : navs'[j].act = doc'.by
      BY <1>5, <2>1, <2>2
    <2> QED BY <1>1, <1>5, <2>1, <2>3, <2>4, <2>5 DEF Again
  <1> QED BY <1>3, <1>4, <1>5

\* More of the queue, but no navigation, leaves the navigations as they were.
LEMMA SameNotes ==
    ASSUME queue \in Seq(Queued), rec' = rec,
           queue' = queue \/ \E e \in Queued : e.type # "nav" /\ queue' = Append(queue, e)
    PROVE  /\ \A k, a : NavAt(k, a)' <=> NavAt(k, a)
           /\ \A k, a : NavAt(k, a) => queue'[k] = queue[k]
           /\ \A i, a : MovedAt(i, a)' <=> MovedAt(i, a)
           /\ \A a : Noted(a)' <=> Noted(a)
           /\ Recorded' = Recorded
  <1>1. Recorded' = Recorded
    BY RecordedIs
  <1>2. \A i, a : MovedAt(i, a)' <=> MovedAt(i, a)
    BY <1>1 DEF MovedAt
  <1>3. (\A k, a : NavAt(k, a)' <=> NavAt(k, a)) /\ (\A k, a : NavAt(k, a) => queue'[k] = queue[k])
    <2>1. CASE queue' = queue
      BY <2>1 DEF NavAt
    <2>2. CASE \E e \in Queued : e.type # "nav" /\ queue' = Append(queue, e)
      <3>1. PICK e \in Queued : e.type # "nav" /\ queue' = Append(queue, e)
        BY <2>2
      <3>2. PICK n : n = Len(queue) + 1
        OBVIOUS
      <3>3. /\ DOMAIN queue' = DOMAIN queue \cup {n} /\ n \notin DOMAIN queue /\ queue'[n] = e
            /\ \A k \in DOMAIN queue : queue'[k] = queue[k]
        BY <3>1, <3>2, AppendIs
      <3> QED BY <3>1, <3>3 DEF NavAt
    <2> QED BY <2>1, <2>2
  <1>4. \A a : Noted(a)' <=> Noted(a)
    BY <1>2, <1>3 DEF Noted
  <1> QED BY <1>1, <1>2, <1>3, <1>4

\* What the page was done with it is done with.
LEMMA OnwardOver ==
    ASSUME queue \in Seq(Queued), Onward,
           \/ queue' = queue
           \/ \E e \in Queued : (e.type = "click" => Tells(wire, e.act)) /\ queue' = Append(queue, e)
    PROVE  \A a : ~New(a) => (Unsaid(a) => Unsaid(a)') /\ \A k : Over(a, k) => Over(a, k)'
  <1> SUFFICES ASSUME NEW a, ~New(a) PROVE (Unsaid(a) => Unsaid(a)') /\ \A k : Over(a, k) => Over(a, k)'
    OBVIOUS
  <1>1. Unsaid(a) => Unsaid(a)'
    BY DEF Onward, Unsaid
  <1>2. ASSUME NEW k, Over(a, k) PROVE Over(a, k)'
    <2>1. CASE queue' = queue
      BY <1>1, <1>2, <2>1 DEF Over
    <2>2. CASE \E e \in Queued : (e.type = "click" => Tells(wire, e.act)) /\ queue' = Append(queue, e)
      <3>1. PICK e \in Queued : (e.type = "click" => Tells(wire, e.act)) /\ queue' = Append(queue, e)
        BY <2>2
      <3>2. PICK n : n = Len(queue) + 1
        OBVIOUS
      <3>3. /\ DOMAIN queue' = DOMAIN queue \cup {n} /\ n \notin DOMAIN queue /\ queue'[n] = e
            /\ \A j \in DOMAIN queue : queue'[j] = queue[j]
        BY <3>1, <3>2, AppendIs
      <3>4. ~(e.type = "click" /\ e.act = a)
        BY <1>2, <3>1 DEF Over, Unsaid
      <3> QED BY <1>1, <1>2, <3>3, <3>4 DEF Over
    <2> QED BY <2>1, <2>2
  <1> QED BY <1>1, <1>2

\* What the page does keeps clicks and navigations of one act in order.
LEMMA OnwardMoves ==
    ASSUME RecInv, Once, MoveInv, Onward, rec' = rec,
           \/ queue' = queue
           \/ \E e \in Queued : e.type # "nav" /\ (e.type = "click" => Tells(wire, e.act)) /\ queue' = Append(queue, e),
           \/ navs' = navs
           \/ navs = <<>> /\ \E n \in Navigation :
                /\ navs' = Append(navs, n) /\ n.act \in 1 .. acts' /\ (Noted(n.act) => n.again)
                /\ ~n.link => Unsaid(n.act)' /\ New(n.act)
                /\ ~n.routed => /\ ~Pressed(n.act)'
                                /\ \A k \in DOMAIN wire' : wire'[k].load < n.load
                /\ \A a : Noted(a) => Unsaid(a)' \/ a = n.act,
           (down' = down /\ navs' = navs) \/ Still',
           \/ Again' \/ doc'.by = 0
           \/ doc'.by = doc.by /\ (acts' = acts => navs' = navs /\ (down' = down \/ down' = None)),
           Loads',
           \A k \in DOMAIN wire' : \/ \E l \in DOMAIN wire : wire[l] = wire'[k]
                                   \/ wire'[k].type # "click" \/ Pressed(wire'[k].act) \/ New(wire'[k].act)
    PROVE  MoveInv'
  <1>1. queue \in Seq(Queued) /\ navs \in Seq(Navigation) /\ acts \in Nat
    BY DEF RecInv, OnPage, InMemory, Queue1
  <1>2. /\ \A k, a : NavAt(k, a)' <=> NavAt(k, a)
        /\ \A k, a : NavAt(k, a) => queue'[k] = queue[k]
        /\ \A i, a : MovedAt(i, a)' <=> MovedAt(i, a)
        /\ \A a : Noted(a)' <=> Noted(a)
        /\ Recorded' = Recorded
    BY <1>1, SameNotes
  <1>3. \A a : ~New(a) => (Unsaid(a) => Unsaid(a)') /\ \A k : Over(a, k) => Over(a, k)'
    BY <1>1, OnwardOver
  <1>4. (\A k, a : NavAt(k, a) => ~New(a)) /\ (\A i, a : MovedAt(i, a) => ~New(a)) /\ (\A a : Noted(a) => ~New(a))
    <2>1. \A a : New(a) => a \notin 0 .. acts
      BY <1>1 DEF New
    <2> QED BY <1>1, <2>1 DEF MoveInv, Moves, Noted
  <1>5. \A a : Tells(Recorded, a)' <=> Tells(Recorded, a)
    BY <1>2 DEF Tells
  <1>6. \A a : New(a) => ~Tells(Recorded, a) /\ \A j \in DOMAIN queue' : ~(queue'[j].type = "click" /\ queue'[j].act = a)
    <2> SUFFICES ASSUME NEW a, New(a)
                 PROVE  ~Tells(Recorded, a) /\ \A j \in DOMAIN queue' : ~(queue'[j].type = "click" /\ queue'[j].act = a)
      OBVIOUS
    <2>1. a \notin 1 .. acts
      BY <1>1 DEF New
    <2>2. ~Tells(Recorded, a) /\ ~Tells(queue, a) /\ ~Tells(wire, a)
      BY <2>1 DEF Once
    <2>3. CASE queue' = queue
      BY <2>2, <2>3 DEF Tells
    <2>4. CASE \E e \in Queued : (e.type = "click" => Tells(wire, e.act)) /\ queue' = Append(queue, e)
      <3>1. PICK e \in Queued : (e.type = "click" => Tells(wire, e.act)) /\ queue' = Append(queue, e)
        BY <2>4
      <3>2. PICK q : q = queue'
        OBVIOUS
      <3>3. ~Tells(q, a)
        BY <1>1, <2>2, <3>1, <3>2, TellsMore
      <3> QED BY <2>2, <3>2, <3>3 DEF Tells
    <2> QED BY <2>2, <2>3, <2>4
  <1>7. PICK us, vs : us = navs /\ vs = navs'
    OBVIOUS
  <1> DEFINE Anew(n) == /\ n.act \in 1 .. acts' /\ (Noted(n.act) => n.again)
                        /\ ~n.link => Unsaid(n.act)' /\ New(n.act)
                        /\ ~n.routed => ~Pressed(n.act)' /\ \A k \in DOMAIN wire' : wire'[k].load < n.load
  <1>71. /\ \A j \in DOMAIN vs : (j \in DOMAIN us /\ vs[j] = us[j]) \/ (j = 1 /\ Anew(vs[j]))
         /\ vs # <<>> => (us # <<>> /\ vs = us) \/ \A a : Noted(a) => Unsaid(a)' \/ a = vs[1].act
    <2>1. CASE navs' = navs
      BY <1>7, <2>1
    <2>2. CASE navs = <<>> /\ \E n \in Navigation :
                /\ navs' = Append(navs, n) /\ n.act \in 1 .. acts' /\ (Noted(n.act) => n.again)
                /\ ~n.link => Unsaid(n.act)' /\ New(n.act)
                /\ ~n.routed => /\ ~Pressed(n.act)'
                                /\ \A k \in DOMAIN wire' : wire'[k].load < n.load
                /\ \A a : Noted(a) => Unsaid(a)' \/ a = n.act
      <3>1. PICK n \in Navigation : navs' = Append(navs, n) /\ Anew(n) /\ \A a : Noted(a) => Unsaid(a)' \/ a = n.act
        BY <2>2
      <3>2. us = <<>> /\ Len(us) = 0 /\ us \in Seq(Navigation) /\ vs = Append(us, n)
        BY <1>1, <1>7, <2>2, <3>1
      <3>3. vs[1] = n /\ \A j \in DOMAIN vs : j = 1 /\ vs[j] = n
        BY <3>2, AppendIs
      <3> HIDE DEF Anew
      <3> QED BY <3>1, <3>3
    <2> QED BY <2>1, <2>2
  <1>72. ASSUME NEW j \in DOMAIN us
         PROVE  /\ j = 1 /\ us[j].act \in 1 .. acts /\ (Noted(us[j].act) => us[j].again) /\ ~New(us[j].act)
                /\ ~us[j].link => Over(us[j].act, 0) /\ ~Tells(Recorded, us[j].act)
                /\ ~us[j].routed =>
                     /\ ~Pressed(us[j].act)
                     /\ \A k \in DOMAIN wire : wire[k].type = "click" /\ wire[k].act = us[j].act => wire[k].load < us[j].load
    <2>1. us[j].act \in 1 .. acts
      BY <1>7 DEF MoveInv, Moves
    <2>2. ~New(us[j].act)
      BY <1>1, <2>1 DEF New
    <2> QED BY <1>7, <2>1, <2>2 DEF MoveInv, Moves, Unlinked, Left
  <1>8. Moves'
    <2>1. \A j \in DOMAIN vs : j = 1 /\ vs[j].act \in 1 .. acts' /\ (Noted(vs[j].act)' => vs[j].again)
      BY <1>1, <1>2, <1>71, <1>72 DEF Onward
    <2>2. \A k, a : NavAt(k, a)' => a \in 1 .. acts'
      BY <1>1, <1>2 DEF MoveInv, Moves, Onward
    <2>3. \A i, a : MovedAt(i, a)' => a \in 0 .. acts'
      BY <1>1, <1>2 DEF MoveInv, Moves, Onward
    <2>4. \A k, l, a : NavAt(k, a)' /\ NavAt(l, a)' /\ k < l => queue'[l].nav.again
      BY <1>2 DEF MoveInv, Moves
    <2>5. \A i, j, a : MovedAt(i, a)' /\ MovedAt(j, a)' /\ i < j => Recorded'[j].again
      BY <1>2 DEF MoveInv, Moves
    <2>6. \A k, i, a : NavAt(k, a)' /\ MovedAt(i, a)' => queue'[k].nav.again
      BY <1>2 DEF MoveInv, Moves
    <2> QED BY <1>7, <2>1, <2>2, <2>3, <2>4, <2>5, <2>6 DEF Moves
  <1>9. Still'
    <2>1. CASE down' = down /\ navs' = navs
      <3> SUFFICES ASSUME down # None, ~down.moved PROVE navs = <<>> /\ ~Noted(down.act) /\ \A a : Noted(a) => ~Tells(wire, a)'
        BY <1>2, <2>1 DEF Still
      <3>1. navs = <<>> /\ ~Noted(down.act) /\ \A a : Noted(a) => ~Tells(wire, a)
        BY DEF MoveInv, Still
      <3>2. \A a : Noted(a) => ~Pressed(a)
        BY <3>1 DEF Once, Pressed
      <3> QED BY <1>4, <3>1, <3>2 DEF Onward
    <2> QED BY <2>1
  <1>10. Unlinked'
    <2>1. ASSUME NEW j \in DOMAIN vs, ~vs[j].link PROVE Over(vs[j].act, 0)' /\ ~Tells(Recorded, vs[j].act)'
      <3>1. CASE j \in DOMAIN us /\ vs[j] = us[j]
        <4>1. PICK a : a = us[j].act
          OBVIOUS
        <4>2. ~New(a) /\ Over(a, 0) /\ ~Tells(Recorded, a)
          BY <1>72, <2>1, <3>1, <4>1
        <4> QED BY <1>3, <1>5, <3>1, <4>1, <4>2
      <3>2. CASE Anew(vs[j])
        <4>1. PICK a : a = vs[j].act
          OBVIOUS
        <4>2. Unsaid(a)' /\ New(a)
          BY <2>1, <3>2, <4>1
        <4>3. Over(a, 0)' /\ ~Tells(Recorded, a)'
          BY <1>5, <1>6, <4>2 DEF Over
        <4> QED BY <4>1, <4>3
      <3> QED BY <1>71, <3>1, <3>2
    <2>2. ASSUME NEW k, NEW a, NavAt(k, a)', ~queue'[k].nav.link PROVE Over(a, 0)' /\ ~Tells(Recorded, a)'
      BY <1>2, <1>3, <1>4, <1>5, <2>2 DEF MoveInv, Unlinked
    <2> QED BY <1>7, <2>1, <2>2 DEF Unlinked
  <1>11. Left'
    <2>1. ASSUME NEW j \in DOMAIN vs, ~vs[j].routed
          PROVE  /\ ~Pressed(vs[j].act)'
                 /\ \A k \in DOMAIN wire' : wire'[k].type = "click" /\ wire'[k].act = vs[j].act
                                              => wire'[k].load < vs[j].load
      <3>1. CASE j \in DOMAIN us /\ vs[j] = us[j]
        <4>1. PICK a : a = us[j].act
          OBVIOUS
        <4>2. /\ ~New(a) /\ ~Pressed(a)
              /\ \A k \in DOMAIN wire : wire[k].type = "click" /\ wire[k].act = a => wire[k].load < us[j].load
          BY <1>72, <2>1, <3>1, <4>1
        <4>3. ~Pressed(a)'
          BY <4>2 DEF Onward
        <4>4. ASSUME NEW k \in DOMAIN wire', wire'[k].type = "click", wire'[k].act = a
              PROVE  wire'[k].load < us[j].load
          BY <4>2, <4>4
        <4> QED BY <3>1, <4>1, <4>3, <4>4
      <3>2. CASE Anew(vs[j])
        BY <2>1, <3>2
      <3> QED BY <1>71, <3>1, <3>2
    <2>2. ASSUME NEW k, NEW a, NavAt(k, a)', ~queue'[k].nav.routed PROVE Over(a, k)'
      BY <1>2, <1>3, <1>4, <2>2 DEF MoveInv, Left
    <2> QED BY <1>7, <2>1, <2>2 DEF Left
  <1>12. Passed'
    <2>1. vs # <<>> => \A a : Noted(a)' => Unsaid(a)' \/ a = vs[1].act
      <3>1. us # <<>> => \A a : Noted(a) => Unsaid(a) \/ a = us[1].act
        BY <1>7 DEF MoveInv, Passed
      <3> QED BY <1>2, <1>3, <1>4, <1>71, <3>1
    <2>2. \A k, l, a, b : NavAt(k, b)' /\ NavAt(l, a)' /\ l < k => Over(a, k)' \/ a = b
      BY <1>2, <1>3, <1>4 DEF MoveInv, Passed
    <2>3. \A k, i, a, b : NavAt(k, b)' /\ MovedAt(i, a)' => Over(a, k)' \/ a = b
      BY <1>2, <1>3, <1>4 DEF MoveInv, Passed
    <2> QED BY <1>7, <2>1, <2>2, <2>3 DEF Passed
  <1>13. Claimable'
    BY <1>2, <1>3, <1>4 DEF MoveInv, Claimable
  <1>14. NavigatesOnce'
    BY <1>2 DEF MoveInv, NavigatesOnce
  <1>15. Again'
    <2>1. CASE Again'
      BY <2>1
    <2>2. CASE doc'.by = 0
      BY <2>2, AgainKept DEF Onward
    <2>3. CASE doc'.by = doc.by /\ (acts' = acts => navs' = navs /\ (down' = down \/ down' = None))
      <3>1. acts' = acts => \A a : Unsaid(a) => Unsaid(a)'
        BY <1>1, <1>3 DEF New
      <3>2. acts' = acts => \A j \in DOMAIN navs' : j \in DOMAIN navs /\ navs'[j] = navs[j]
        BY <2>3
      <3> QED BY <1>2, <2>3, <3>1, <3>2, AgainKept DEF Onward
    <2> QED BY <2>1, <2>2, <2>3
  <1> QED BY <1>8, <1>9, <1>10, <1>11, <1>12, <1>13, <1>14, <1>15 DEF MoveInv

\* What is done is noted of what was.
LEMMA NotedBefore ==
    ASSUME MoveInv, acts \in Nat
    PROVE  \A a : Noted(a) => a \in 0 .. acts /\ ~New(a)
  <1>1. \A a : Noted(a) => a \in 0 .. acts
    BY DEF MoveInv, Moves, Noted
  <1> QED BY <1>1 DEF New

\* A press may route its page, before it is told of, ...
LEMMA PressMoves ==
    ASSUME RecInv, Once, MoveInv, NEW el \in DOMAIN Elements, NEW effect \in {"none", "route", "replace"}, Press(el, effect)
    PROVE  MoveInv'
  <1>1. PICK m \in Told, x \in Told :
             /\ x.type = "ax" /\ m.type = "click" /\ m.act = acts + 1
             /\ x.load = doc.load /\ m.load = doc.load
             /\ wire = <<>> /\ wire' = Append(wire, x)
             /\ doc'.press.event = m /\ doc'.load = doc.load
             /\ acts' = acts + 1 /\ down = None /\ down'.act = acts + 1 /\ (down'.moved <=> effect # "none")
             /\ navs = <<>>
             /\ \/ effect = "none" /\ navs' = navs /\ doc'.by = doc.by
                \/ effect # "none" /\ navs' = Append(navs, Routed(acts + 1, doc)) /\ doc'.by = acts + 1
             /\ UNCHANGED <<rec, starting, offer, slow, assembly, outside>>
    BY PressDoes
  <1>2. /\ doc \in Page /\ acts \in Nat /\ acts + 1 \in Nat /\ doc.load \in Nat /\ wire \in Seq(Told) /\ queue \in Seq(Queued)
        /\ rec' = rec /\ queue' = queue
    BY <1>1 DEF RecInv, OnPage, InMemory, Queue1, Page, Told1, assembly
  <1>3. Onward /\ \A a : ~Tells(wire, a)'
    BY PressOnward
  <1>4. (\A a : Noted(a) => a \in 0 .. acts) /\ (\A a : Noted(a)' <=> Noted(a))
    BY <1>2, NotedBefore, SameNotes
  <1>5. ASSUME NEW a, Noted(a) PROVE Unsaid(a)'
    <2>1. a # acts + 1
      BY <1>2, <1>4, <1>5
    <2>2. ~Pressed(a)'
      BY <1>1, <2>1 DEF Pressed
    <2> QED BY <1>3, <2>2 DEF Unsaid
  <1>6. ~Noted(acts + 1)
    BY <1>2, <1>4
  <1>7. \A k \in DOMAIN wire' : wire'[k] = x
    <2>1. PICK w, u : w = wire /\ u = Append(w, x)
      OBVIOUS
    <2>2. w \in Seq(Told) /\ Len(w) = 0
      BY <1>1, <1>2, <2>1
    <2>3. \A k \in DOMAIN u : u[k] = x
      BY <2>1, <2>2, AppendIs
    <2> QED BY <1>1, <2>1, <2>3
  <1>8. Loads'
    BY <1>1, <1>2, <1>7 DEF Loads
  <1>9. Still'
    <2>1. down'.moved \/ navs' = <<>>
      BY <1>1
    <2> QED BY <1>1, <1>3, <1>4, <1>6, <2>1 DEF Still
  <1>10. PICK n : n = Routed(acts + 1, doc)
    OBVIOUS
  <1>11. n \in Navigation /\ n.act = acts + 1 /\ n.link /\ n.routed
    BY <1>2, <1>10 DEF Navigation, Routed
  <1>12. \/ navs' = navs
         \/ navs = <<>> /\ \E p \in Navigation :
                /\ navs' = Append(navs, p) /\ p.act \in 1 .. acts' /\ (Noted(p.act) => p.again)
                /\ ~p.link => Unsaid(p.act)' /\ New(p.act)
                /\ ~p.routed => /\ ~Pressed(p.act)'
                                /\ \A k \in DOMAIN wire' : wire'[k].load < p.load
                /\ \A a : Noted(a) => Unsaid(a)' \/ a = p.act
    <2>1. CASE navs' = navs
      BY <2>1
    <2>2. CASE navs' = Append(navs, n)
      <3>1. n.act \in 1 .. acts' /\ ~Noted(n.act)
        BY <1>1, <1>2, <1>6, <1>11
      <3> QED BY <1>1, <1>5, <1>11, <2>2, <3>1
    <2> QED BY <1>1, <1>10, <2>1, <2>2
  <1>13. Again' \/ (doc'.by = doc.by /\ acts' # acts)
    <2>1. CASE effect = "none"
      BY <1>1, <1>2, <2>1
    <2>2. CASE effect # "none"
      <3>1. \A j \in DOMAIN navs' : navs'[j].act = acts + 1
        <4>1. navs \in Seq(Navigation) /\ navs = <<>> /\ navs' = Append(navs, n)
          BY <1>1, <1>10, <2>2 DEF RecInv, OnPage
        <4>2. PICK vs : vs = Append(navs, n)
          OBVIOUS
        <4>3. \A j \in DOMAIN vs : vs[j] = n
          BY <1>11, <4>1, <4>2, OnlyIs
        <4> QED BY <1>11, <4>1, <4>2, <4>3
      <3>2. doc'.by = acts + 1 /\ doc'.by <= acts' /\ (down' # None => down'.moved /\ down'.act = doc'.by)
        BY <1>1, <1>2, <2>2
      <3>3. \A a : Noted(a)' => Unsaid(a)'
        BY <1>4, <1>5
      <3> QED BY <3>1, <3>2, <3>3 DEF Again
    <2> QED BY <2>1, <2>2
  <1> QED BY <1>1, <1>2, <1>3, <1>7, <1>8, <1>9, <1>12, <1>13, OnwardMoves

\* ... its timer tells of it then or later, ...
LEMMA TimerMoves == ASSUME RecInv, Once, MoveInv, PressTimer PROVE MoveInv'
  <1>1. wire \in Seq(Told) /\ queue \in Seq(Queued) /\ doc \in Page
    BY DEF RecInv, OnPage, InMemory, Queue1, Told1
  <1>2. PICK e \in Told : e = doc.press.event /\ doc.press # None
    BY TimerDoes
  <1>3. PICK w : w = wire'
    OBVIOUS
  <1>4. /\ doc'.press = None /\ doc'.load = doc.load /\ rec' = rec /\ queue' = queue /\ navs' = navs /\ down' = down
        /\ doc'.by = doc.by
        /\ w = wire \/ w = Append(wire, e)
    BY <1>2, <1>3, TimerDoes DEF assembly
  <1>5. \A k \in DOMAIN w : (k \in DOMAIN wire /\ wire[k] = w[k]) \/ w[k] = e
    <2>1. CASE w = wire
      BY <2>1
    <2>2. CASE w = Append(wire, e)
      BY <1>1, <2>2, AppendIs
    <2> QED BY <1>4, <2>1, <2>2
  <1>6. Loads'
    BY <1>2, <1>3, <1>4, <1>5 DEF Loads, MoveInv
  <1>7. Pressed(e.act)
    BY <1>2 DEF Pressed
  <1>8. \A k \in DOMAIN wire' : (\E l \in DOMAIN wire : wire[l] = wire'[k]) \/ Pressed(wire'[k].act)
    BY <1>3, <1>5, <1>7
  <1> QED BY <1>4, <1>6, <1>8, TimerOnward, OnwardMoves

\* ... and a release moves the page only if its press did not.
LEMMA ReleaseMoves ==
    ASSUME RecInv, Once, MoveInv, NEW effect \in {"none", "route", "load", "download"}, Release(effect)
    PROVE  MoveInv'
  <1>1. /\ wire \in Seq(Told) /\ queue \in Seq(Queued) /\ doc \in Page /\ doc.load \in Nat /\ acts \in Nat
    BY DEF RecInv, OnPage, InMemory, Queue1, Told1, Page
  <1>2. /\ down # None /\ down' = None /\ rec' = rec /\ acts' = acts /\ down.act \in Nat
        /\ queue' = queue \/ queue' = Append(queue, [type |-> "download"])
    BY ReleaseDoes
  <1>3. \/ queue' = queue
        \/ \E e \in Queued : e.type # "nav" /\ (e.type = "click" => Tells(wire, e.act)) /\ queue' = Append(queue, e)
    <2>1. [type |-> "download"] \in Queued /\ [type |-> "download"].type = "download"
      BY DEF Queued
    <2>2. PICK e \in Queued : e = [type |-> "download"] /\ e.type = "download"
      BY <2>1
    <2> QED BY <1>2, <2>2
  <1>4. Onward /\ Still'
    BY <1>2, ReleaseOnward DEF Still
  <1>5. CASE UNCHANGED <<doc, wire, navs>>
    <2>1. Loads'
      BY <1>5 DEF MoveInv, Loads
    <2>2. \A k \in DOMAIN wire' : \E l \in DOMAIN wire : wire[l] = wire'[k]
      BY <1>5
    <2> QED BY <1>2, <1>3, <1>4, <1>5, <2>1, <2>2, OnwardMoves
  <1>6. CASE \E m \in Told :
                   /\ m.act = down.act /\ m.load = doc.load /\ wire' = Append(wire, m) /\ doc'.press = None
                   /\ \/ navs' = navs /\ doc'.load = doc.load /\ doc'.by = doc.by
                      \/ /\ ~down.moved /\ navs' = Append(navs, Routed(down.act, doc)) /\ doc'.load = doc.load
                         /\ doc'.by = down.act
                      \/ /\ ~down.moved /\ navs' = Append(navs, Committed(down.act, TRUE)) /\ doc'.load = doc.load + 1
                         /\ doc'.by = down.act
    <2>1. PICK m \in Told :
                   /\ m.act = down.act /\ m.load = doc.load /\ wire' = Append(wire, m) /\ doc'.press = None
                   /\ \/ navs' = navs /\ doc'.load = doc.load /\ doc'.by = doc.by
                      \/ /\ ~down.moved /\ navs' = Append(navs, Routed(down.act, doc)) /\ doc'.load = doc.load
                         /\ doc'.by = down.act
                      \/ /\ ~down.moved /\ navs' = Append(navs, Committed(down.act, TRUE)) /\ doc'.load = doc.load + 1
                         /\ doc'.by = down.act
      BY <1>6
    <2>2. PICK w : w = wire'
      OBVIOUS
    <2>3. \A k \in DOMAIN w : (k \in DOMAIN wire /\ wire[k] = w[k]) \/ w[k] = m
      BY <1>1, <2>1, <2>2, AppendIs
    <2>4. \A k \in DOMAIN w : w[k] \in Told /\ w[k].load \in Nat /\ w[k].load <= doc.load
      <3>1. w \in Seq(Told)
        BY <1>1, <2>1, <2>2, AppendIs
      <3>2. \A k \in DOMAIN w : w[k] \in Told
        BY <3>1
      <3>3. \A x \in Told : x.load \in Nat
        BY DEF Told
      <3>4. \A k \in DOMAIN wire : wire[k].load <= doc.load
        BY DEF MoveInv, Loads
      <3>5. doc.load <= doc.load
        BY <1>1
      <3> QED BY <2>1, <2>3, <3>2, <3>3, <3>4, <3>5
    <2>5. Loads'
      <3>0. doc'.load = doc.load \/ doc'.load = doc.load + 1
        BY <2>1
      <3>1. doc'.load \in Nat /\ doc.load <= doc'.load
        BY <1>1, <3>0
      <3> QED BY <1>1, <2>1, <2>2, <2>4, <3>1 DEF Loads
    <2>6. \A a : ~Pressed(a)' /\ (Tells(w, a) => Tells(wire, a) \/ a = down.act)
      BY <1>1, <1>2, <2>1, <2>2, TellsMore DEF Pressed
    <2>7. \A k \in DOMAIN wire' : (\E l \in DOMAIN wire : wire[l] = wire'[k]) \/ Pressed(wire'[k].act)
      BY <1>2, <2>1, <2>2, <2>3 DEF Pressed
    <2>8. \/ navs' = navs
          \/ navs = <<>> /\ \E n \in Navigation :
                /\ navs' = Append(navs, n) /\ n.act \in 1 .. acts' /\ (Noted(n.act) => n.again)
                /\ ~n.link => Unsaid(n.act)' /\ New(n.act)
                /\ ~n.routed => /\ ~Pressed(n.act)'
                                /\ \A k \in DOMAIN wire' : wire'[k].load < n.load
                /\ \A a : Noted(a) => Unsaid(a)' \/ a = n.act
      <3> SUFFICES ASSUME navs' # navs
                   PROVE  navs = <<>> /\ \E n \in Navigation :
                            /\ navs' = Append(navs, n) /\ n.act \in 1 .. acts' /\ (Noted(n.act) => n.again)
                            /\ ~n.link => Unsaid(n.act)' /\ New(n.act)
                            /\ ~n.routed => /\ ~Pressed(n.act)'
                                            /\ \A k \in DOMAIN wire' : wire'[k].load < n.load
                            /\ \A a : Noted(a) => Unsaid(a)' \/ a = n.act
        OBVIOUS
      <3>1. navs = <<>> /\ ~Noted(down.act) /\ \A a : Noted(a) => ~Tells(wire, a)
        BY <1>2, <2>1 DEF MoveInv, Still
      <3>2. \A a : Noted(a) => Unsaid(a)' \/ a = down.act
        BY <2>2, <2>6, <3>1 DEF Unsaid, Tells
      <3>3. down.act \in 1 .. acts'
        BY <1>2 DEF Once, Pressed
      <3>4. PICK n \in Navigation : /\ navs' = Append(navs, n) /\ n.act = down.act /\ n.link
                                    /\ ~n.routed => n.load = doc.load + 1
        <4>1. Routed(down.act, doc) \in Navigation /\ Routed(down.act, doc).act = down.act
                /\ Routed(down.act, doc).link /\ Routed(down.act, doc).routed
          BY <1>1, <1>2 DEF Routed, Navigation
        <4>2. Committed(down.act, TRUE) \in Navigation /\ Committed(down.act, TRUE).act = down.act
                /\ Committed(down.act, TRUE).link /\ Committed(down.act, TRUE).load = doc.load + 1
          BY <1>1, <1>2 DEF Committed, Navigation
        <4> QED BY <2>1, <4>1, <4>2
      <3>5. ~n.routed => \A k \in DOMAIN wire' : wire'[k].load < n.load
        BY <1>1, <2>2, <2>4, <3>4
      <3> QED BY <2>6, <3>1, <3>2, <3>3, <3>4, <3>5
    <2>9. Again' \/ (doc'.by = doc.by /\ navs' = navs)
      <3> SUFFICES ASSUME doc'.by = down.act, navs' = Append(navs, Routed(down.act, doc)) \/ navs' = Append(navs, Committed(down.act, TRUE)), ~down.moved
                   PROVE  Again'
        BY <2>1
      <3>1. navs = <<>> /\ \A a : Noted(a) => ~Tells(wire, a)
        BY <1>2 DEF MoveInv, Still
      <3>2. \A a : Noted(a) => Unsaid(a)' \/ a = down.act
        BY <2>2, <2>6, <3>1 DEF Unsaid, Tells
      <3>3. down.act <= acts'
        BY <1>1, <1>2 DEF Once, Pressed
      <3>4. \A a : Noted(a)' <=> Noted(a)
        BY <1>1, <1>2, <1>3, SameNotes
      <3>5. PICK n \in Navigation : navs' = Append(navs, n) /\ n.act = down.act
        <4>1. Routed(down.act, doc) \in Navigation /\ Routed(down.act, doc).act = down.act
          BY <1>1, <1>2 DEF Routed, Navigation
        <4>2. Committed(down.act, TRUE) \in Navigation /\ Committed(down.act, TRUE).act = down.act
          BY <1>1, <1>2 DEF Committed, Navigation
        <4> QED BY <4>1, <4>2
      <3>6. \A j \in DOMAIN navs' : navs'[j].act = down.act
        <4>1. navs \in Seq(Navigation)
          BY DEF RecInv, OnPage
        <4>2. PICK vs : vs = Append(navs, n)
          OBVIOUS
        <4>3. \A j \in DOMAIN vs : vs[j] = n
          BY <3>1, <4>1, <4>2, OnlyIs
        <4> QED BY <3>5, <4>2, <4>3
      <3> QED BY <1>2, <3>2, <3>3, <3>4, <3>6 DEF Again
    <2> QED BY <1>2, <1>3, <1>4, <2>5, <2>7, <2>8, <2>9, OnwardMoves
  <1>7. \/ UNCHANGED <<doc, wire, navs>>
        \/ \E m \in Told :
                   /\ m.act = down.act /\ m.load = doc.load /\ wire' = Append(wire, m) /\ doc'.press = None
                   /\ \/ navs' = navs /\ doc'.load = doc.load /\ doc'.by = doc.by
                      \/ /\ ~down.moved /\ navs' = Append(navs, Routed(down.act, doc)) /\ doc'.load = doc.load
                         /\ doc'.by = down.act
                      \/ /\ ~down.moved /\ navs' = Append(navs, Committed(down.act, TRUE)) /\ doc'.load = doc.load + 1
                         /\ doc'.by = down.act
    BY ReleaseDoes
  <1> QED BY <1>5, <1>6, <1>7

LEMMA TypingMoves ==
    ASSUME RecInv, Once, MoveInv, NEW el \in DOMAIN Elements,
           (\E typed \in BOOLEAN : Change(el, typed)) \/ WatchFrames(el)
    PROVE  MoveInv'
  <1>1. /\ doc \in Page /\ doc.load \in Nat /\ acts' = acts + 1
        /\ rec' = rec /\ queue' = queue /\ navs' = navs /\ down' = down
        /\ doc'.press = doc.press /\ doc'.load = doc.load /\ doc'.by = doc.by
        /\ \A k \in DOMAIN wire' : wire'[k].act = acts + 1 /\ wire'[k].load = doc.load
    BY TypingDoes DEF RecInv, OnPage, Page, assembly
  <1>2. Loads'
    BY <1>1 DEF MoveInv, Loads
  <1>3. \A k \in DOMAIN wire' : New(wire'[k].act)
    BY <1>1 DEF New
  <1> QED BY <1>1, <1>2, <1>3, TypingOnward, OnwardMoves

\* Another page by hand is no act of a click.
LEMMA TurnsMove == ASSUME RecInv, Once, MoveInv, armExtract \/ Visit PROVE MoveInv'
  <1>1. /\ wire \in Seq(Told) /\ queue \in Seq(Queued) /\ doc \in Page /\ doc.load \in Nat /\ acts \in Nat /\ acts + 1 \in Nat
    BY DEF RecInv, OnPage, InMemory, Queue1, Told1, Page
  <1>2. CASE armExtract
    <2>1. /\ doc'.press = doc.press /\ doc'.load = doc.load /\ doc'.by = doc.by
          /\ wire' = wire /\ rec' = rec /\ queue' = queue /\ navs' = navs /\ down' = down
      BY <1>2, ArmDoes DEF assembly
    <2>2. Loads'
      BY <2>1 DEF MoveInv, Loads
    <2>3. \A k \in DOMAIN wire' : \E l \in DOMAIN wire : wire[l] = wire'[k]
      BY <2>1
    <2> QED BY <1>2, <2>1, <2>2, <2>3, TurnsOnward, OnwardMoves
  <1>3. CASE Visit
    <2>1. /\ acts' = acts + 1 /\ wire = <<>> /\ wire' = wire /\ navs = <<>> /\ down' = None
          /\ doc'.press = None /\ doc'.load = doc.load + 1 /\ doc'.by = 0
          /\ navs' = Append(navs, Committed(acts + 1, FALSE)) /\ rec' = rec /\ queue' = queue
      BY <1>3, VisitDoes DEF assembly
    <2>2. DOMAIN wire' = {}
      <3>1. PICK w : w = wire'
        OBVIOUS
      <3>2. w = <<>>
        BY <2>1, <3>1
      <3> QED BY <3>1, <3>2
    <2>3. Loads' /\ Still' /\ \A a : Unsaid(a)'
      BY <2>1, <2>2 DEF Loads, Still, Unsaid, Pressed, Tells
    <2>4. PICK n \in Navigation : navs' = Append(navs, n) /\ n.act = acts + 1
      <3>1. Committed(acts + 1, FALSE) \in Navigation /\ Committed(acts + 1, FALSE).act = acts + 1
        BY <1>1 DEF Committed, Navigation
      <3> QED BY <2>1, <3>1
    <2>5. n.act \in 1 .. acts' /\ ~Noted(n.act) /\ New(n.act)
      BY <1>1, <2>1, <2>4, NotedBefore DEF New
    <2>6. ~Pressed(n.act)'
      BY <2>3 DEF Unsaid
    <2> QED BY <1>3, <2>1, <2>2, <2>3, <2>4, <2>5, <2>6, TurnsOnward, OnwardMoves
  <1> QED BY <1>2, <1>3

\* The page may be moved again by the last act, behind all that was told before it.
LEMMA RerouteMoves ==
    ASSUME RecInv, Once, MoveInv, NEW effect \in {"route", "load"}, Reroute(effect)
    PROVE  MoveInv'
  <1>1. doc \in Page /\ doc.load \in Nat /\ acts \in Nat /\ queue \in Seq(Queued) /\ wire \in Seq(Told)
    BY DEF RecInv, OnPage, Page, InMemory, Queue1, Told1
  <1>2. /\ doc.by # 0 /\ doc.by = acts /\ doc.by \in Nat /\ navs = <<>> /\ doc'.by = 0
        /\ UNCHANGED <<rec, wire, queue, acts>>
    BY RerouteDoes DEF assembly
  <1>3. PICK n \in Navigation :
          /\ navs' = Append(navs, n) /\ n.act = doc.by /\ n.again /\ n.link
          /\ \/ n.routed /\ down' = down /\ doc'.press = doc.press /\ doc'.load = doc.load
             \/ ~n.routed /\ n.load = doc.load + 1 /\ down' = None /\ doc'.press = None /\ doc'.load = doc.load + 1
    BY RerouteDoes
  <1>4. /\ down # None => down.moved /\ down.act = doc.by
        /\ \A a : Noted(a) /\ a # doc.by => Unsaid(a)
    BY <1>2 DEF MoveInv, Again
  <1>5. Onward /\ \A a : Unsaid(a) => Unsaid(a)'
    BY <1>2, RerouteOnward, RerouteDoes DEF Unsaid, Pressed, Tells
  <1>6. \A k \in DOMAIN wire : wire[k].load \in Nat /\ wire[k].load <= doc.load
    <2>1. \A k \in DOMAIN wire : wire[k] \in Told
      BY <1>1
    <2>2. \A x \in Told : x.load \in Nat
      BY DEF Told
    <2> QED BY <2>1, <2>2 DEF MoveInv, Loads
  <1>7. Loads'
    <2>1. doc.press # None => doc.press.event.load \in Nat /\ doc.press.event.load <= doc.load
      <3>1. doc.press # None => doc.press.event \in Told
        BY <1>1 DEF Page
      <3>2. \A x \in Told : x.load \in Nat
        BY DEF Told
      <3> QED BY <3>1, <3>2 DEF MoveInv, Loads
    <2>2. \A l \in Nat : l <= doc.load => l <= doc.load + 1
      BY <1>1
    <2> QED BY <1>2, <1>3, <1>6, <2>1, <2>2 DEF Loads
  <1>8. Still'
    BY <1>3, <1>4 DEF Still
  <1>9. n.act \in 1 .. acts'
    BY <1>1, <1>2, <1>3
  <1>10. ~n.routed => ~Pressed(n.act)' /\ \A k \in DOMAIN wire' : wire'[k].load < n.load
    BY <1>1, <1>2, <1>3, <1>6 DEF Pressed
  <1>11. \A a : Noted(a) => Unsaid(a)' \/ a = n.act
    BY <1>3, <1>4, <1>5
  <1>12. \A k \in DOMAIN wire' : \E l \in DOMAIN wire : wire[l] = wire'[k]
    BY <1>2
  <1> QED BY <1>2, <1>3, <1>5, <1>7, <1>8, <1>9, <1>10, <1>11, <1>12, OnwardMoves

\* A click reaches the queue, before or after its navigation, ...
LEMMA AcceptsMove == ASSUME RecInv, Once, MoveInv, acceptRecorderMessage PROVE MoveInv'
  <1>1. /\ wire \in Seq(Told) /\ wire # <<>> /\ queue \in Seq(Queued) /\ acts \in Nat
        /\ UNCHANGED <<rec, doc, down, navs, slow, acts>>
    BY DEF RecInv, OnPage, InMemory, Told1, Queue1, acceptRecorderMessage
  <1>2. PICK w, e : w = wire' /\ e = Head(wire)
    OBVIOUS
  <1>30. e \in Told /\ w = Tail(wire)
    BY <1>1, <1>2, TailIs DEF acceptRecorderMessage
  <1>31. e.type # "nav"
    BY <1>30 DEF Told
  <1>3. e \in Told /\ e \in Queued /\ w = Tail(wire) /\ e.type # "nav"
    BY <1>30, <1>31 DEF Queued
  <1>4. (\A a : Tells(w, a) => Tells(wire, a)) /\ (e.type = "click" => Tells(wire, e.act))
    BY <1>1, <1>2, <1>3, TellsLess
  <1>5. Onward
    BY <1>1, <1>2, <1>4 DEF Onward, Tells, Pressed
  <1>6. queue' = queue \/ queue' = Append(queue, e)
    BY <1>2 DEF acceptRecorderMessage, assembly
  <1>7. \A k \in DOMAIN wire' : \E l \in DOMAIN wire : wire[l] = wire'[k]
    <2>1. \A k \in DOMAIN w : \E l \in DOMAIN wire : wire[l] = w[k]
      BY <1>1, <1>3, TailIs
    <2> QED BY <1>2, <2>1
  <1>8. Loads'
    BY <1>1, <1>7 DEF MoveInv, Loads
  <1> QED BY <1>1, <1>3, <1>4, <1>5, <1>6, <1>7, <1>8, OnwardMoves

\* ... which comes behind all that its page said, if the page was left.
LEMMA NavArrivesMoves == ASSUME RecInv, Once, MoveInv, NavArrives PROVE MoveInv'
  <1>1. /\ navs \in Seq(Navigation) /\ navs # <<>> /\ queue \in Seq(Queued) /\ acts \in Nat
        /\ UNCHANGED <<rec, doc, down, wire, slow, acts>>
    BY DEF RecInv, OnPage, InMemory, Queue1, NavArrives
  <1>2. PICK h, n : h = Head(navs) /\ n = Len(queue) + 1
    OBVIOUS
  <1>3. PICK e : e = [type |-> "nav", nav |-> h]
    OBVIOUS
  <1>4. e \in Queued /\ e.type = "nav" /\ e.nav = h /\ queue' = Append(queue, e) /\ h \in Navigation
    BY <1>1, <1>2, <1>3, TailIs DEF Queued, NavArrives
  <1>5. /\ 1 \in DOMAIN navs /\ navs[1] = h
        /\ DOMAIN navs' = {} /\ ~(navs' # <<>>)
    <2>1. 1 \in DOMAIN navs /\ navs[1] = h /\ navs' = Tail(navs)
      BY <1>1, <1>2, TailIs DEF NavArrives
    <2>2. \A j \in DOMAIN navs : j = 1
      BY DEF MoveInv, Moves
    <2>3. PICK us, vs : us = navs /\ vs = navs'
      OBVIOUS
    <2>4. us \in Seq(Navigation) /\ vs = Tail(us) /\ us # <<>> /\ \A j \in DOMAIN us : j = 1
      BY <1>1, <2>1, <2>2, <2>3
    <2>5. DOMAIN vs = {}
      <3>1. \A j \in DOMAIN vs : j + 1 \in DOMAIN us /\ j \in Nat /\ j \in 1 .. Len(vs) /\ Len(vs) \in Nat
        BY <2>4, TailIs
      <3>2. \A j \in DOMAIN vs : j + 1 # 1
        BY <3>1
      <3> QED BY <2>4, <3>1, <3>2
    <2>6. ~(vs # <<>>)
      <3>1. vs \in Seq(Navigation)
        BY <2>4, TailIs
      <3>2. Len(vs) = 0
        BY <2>5, <3>1
      <3> QED BY <3>1, <3>2
    <2> QED BY <2>1, <2>3, <2>5, <2>6
  <1>6. /\ h.act \in 1 .. acts /\ (Noted(h.act) => h.again)
        /\ ~h.link => Over(h.act, 0) /\ ~Tells(Recorded, h.act)
        /\ ~h.routed => /\ ~Pressed(h.act)
                        /\ \A k \in DOMAIN wire : wire[k].type = "click" /\ wire[k].act = h.act => wire[k].load < h.load
    BY <1>5 DEF MoveInv, Moves, Unlinked, Left
  <1>7. /\ DOMAIN queue = 1 .. Len(queue) /\ Len(queue) \in Nat /\ n \notin DOMAIN queue
        /\ DOMAIN queue' = DOMAIN queue \cup {n} /\ queue'[n] = e
        /\ \A k \in DOMAIN queue : queue'[k] = queue[k]
    BY <1>1, <1>2, <1>4, AppendIs
  <1>8. Recorded' = Recorded /\ \A a : Tells(Recorded, a)' <=> Tells(Recorded, a)
    BY <1>1, RecordedIs DEF Tells
  <1>9. /\ \A k, a : NavAt(k, a)' <=> NavAt(k, a) \/ (k = n /\ a = h.act)
        /\ \A k, a : NavAt(k, a) => queue'[k] = queue[k] /\ k < n
        /\ \A i, a : MovedAt(i, a)' <=> MovedAt(i, a)
    <2>1. \A k \in DOMAIN queue : k < n
      BY <1>2, <1>7
    <2> QED BY <1>4, <1>7, <1>8, <2>1 DEF NavAt, MovedAt
  <1>10. /\ \A a : Unsaid(a)' <=> Unsaid(a)
         /\ \A a, k : Over(a, k) => Over(a, k)'
         /\ \A a, k : Over(a, k)' => Over(a, k)
         /\ \A a : Unsaid(a) => Over(a, n)'
    <2>1. \A a : Unsaid(a)' <=> Unsaid(a)
      BY <1>1 DEF Unsaid, Pressed, Tells
    <2>2. \A j \in DOMAIN queue' : queue'[j].type = "click" => j \in DOMAIN queue /\ queue'[j] = queue[j]
      BY <1>4, <1>7
    <2>3. \A j \in DOMAIN queue' : j <= n
      BY <1>2, <1>7
    <2> QED BY <1>7, <2>1, <2>2, <2>3 DEF Over
  <1>11. Moves'
    <2>1. ASSUME NEW k, NEW l, NEW a, NavAt(k, a)', NavAt(l, a)', k < l PROVE queue'[l].nav.again
      <3>1. k # n /\ NavAt(k, a)
        <4>1. l \in Nat /\ l <= n /\ n \in Nat
          BY <1>2, <1>7, <2>1 DEF NavAt
        <4> QED BY <1>9, <2>1, <4>1
      <3>2. CASE NavAt(l, a)
        BY <1>9, <2>1, <3>1, <3>2 DEF MoveInv, Moves
      <3>3. CASE l = n /\ a = h.act
        BY <1>4, <1>6, <1>7, <3>1, <3>3 DEF Noted
      <3> QED BY <1>9, <2>1, <3>2, <3>3
    <2>2. ASSUME NEW k, NEW i, NEW a, NavAt(k, a)', MovedAt(i, a)' PROVE queue'[k].nav.again
      <3>1. MovedAt(i, a)
        BY <1>9, <2>2
      <3>2. CASE NavAt(k, a)
        BY <1>9, <3>1, <3>2 DEF MoveInv, Moves
      <3>3. CASE k = n /\ a = h.act
        BY <1>4, <1>6, <1>7, <3>1, <3>3 DEF Noted
      <3> QED BY <1>9, <2>2, <3>2, <3>3
    <2>3. (\A k, a : NavAt(k, a)' => a \in 1 .. acts') /\ (\A i, a : MovedAt(i, a)' => a \in 0 .. acts')
      BY <1>1, <1>6, <1>9 DEF MoveInv, Moves
    <2>4. \A i, j, a : MovedAt(i, a)' /\ MovedAt(j, a)' /\ i < j => Recorded'[j].again
      BY <1>8, <1>9 DEF MoveInv, Moves
    <2> QED BY <1>5, <2>1, <2>2, <2>3, <2>4 DEF Moves
  <1>12. Still'
    BY <1>1 DEF MoveInv, Still
  <1>13. Unlinked'
    <2>1. ASSUME NEW k, NEW a, NavAt(k, a)', ~queue'[k].nav.link PROVE Over(a, 0)' /\ ~Tells(Recorded, a)'
      <3>1. CASE NavAt(k, a)
        BY <1>8, <1>9, <1>10, <2>1, <3>1 DEF MoveInv, Unlinked
      <3>2. CASE k = n /\ a = h.act
        BY <1>4, <1>6, <1>7, <1>8, <1>10, <2>1, <3>2
      <3> QED BY <1>9, <2>1, <3>1, <3>2
    <2> QED BY <1>5, <2>1 DEF Unlinked
  <1>14. Loads'
    BY <1>1 DEF MoveInv, Loads
  <1>15. Left'
    <2>1. ASSUME NEW k, NEW a, NavAt(k, a)', ~queue'[k].nav.routed PROVE Over(a, k)'
      <3>1. CASE NavAt(k, a)
        BY <1>9, <1>10, <2>1, <3>1 DEF MoveInv, Left
      <3>2. CASE k = n /\ a = h.act
        <4>1. ~h.routed
          BY <1>4, <1>7, <2>1, <3>2
        <4>2. \A l \in DOMAIN wire : wire[l].load >= h.load
          BY <1>2, <4>1 DEF NavArrives
        <4>3. ASSUME NEW l \in DOMAIN wire, wire[l].type = "click", wire[l].act = h.act PROVE FALSE
          <5>1. wire[l] \in Told
            BY DEF RecInv, OnPage, Told1
          <5>2. wire[l].load \in Nat /\ h.load \in Nat
            BY <1>4, <5>1 DEF Told, Navigation
          <5> QED BY <1>6, <4>1, <4>2, <4>3, <5>2
        <4>4. Unsaid(h.act)
          BY <1>6, <4>1, <4>3 DEF Unsaid, Tells
        <4> QED BY <1>10, <3>2, <4>4
      <3> QED BY <1>9, <2>1, <3>1, <3>2
    <2> QED BY <1>5, <2>1 DEF Left
  <1>16. Passed'
    <2>1. \A a : Noted(a) => Over(a, n)' \/ a = h.act
      BY <1>1, <1>5, <1>10 DEF MoveInv, Passed
    <2>2. ASSUME NEW k, NEW l, NEW a, NEW b, NavAt(k, b)', NavAt(l, a)', l < k PROVE Over(a, k)' \/ a = b
      <3>1. k \in Nat /\ l \in Nat /\ k <= n
        BY <1>2, <1>7, <2>2 DEF NavAt
      <3>2. l # n /\ NavAt(l, a)
        BY <1>2, <1>7, <1>9, <2>2, <3>1
      <3>3. CASE k = n /\ b = h.act
        BY <2>1, <3>2, <3>3 DEF Noted
      <3>4. CASE NavAt(k, b)
        BY <1>10, <2>2, <3>2, <3>4 DEF MoveInv, Passed
      <3> QED BY <1>9, <2>2, <3>3, <3>4
    <2>3. ASSUME NEW k, NEW i, NEW a, NEW b, NavAt(k, b)', MovedAt(i, a)' PROVE Over(a, k)' \/ a = b
      <3>1. CASE k = n /\ b = h.act
        BY <1>9, <2>1, <2>3, <3>1 DEF Noted
      <3>2. CASE NavAt(k, b)
        BY <1>9, <1>10, <2>3, <3>2 DEF MoveInv, Passed
      <3> QED BY <1>9, <2>3, <3>1, <3>2
    <2> QED BY <1>5, <2>2, <2>3 DEF Passed
  <1>17. Claimable'
    BY <1>1, <1>8, <1>9, <1>10 DEF MoveInv, Claimable
  <1>18. NavigatesOnce'
    BY <1>8 DEF MoveInv, NavigatesOnce
  <1>19. Again'
    <2>1. \A a : Noted(a)' => Noted(a) \/ \E j \in DOMAIN navs : navs[j].act = a
      BY <1>5, <1>9 DEF Noted
    <2> QED BY <1>1, <1>5, <1>10, <2>1, AgainKept
  <1> QED BY <1>11, <1>12, <1>13, <1>14, <1>15, <1>16, <1>17, <1>18, <1>19 DEF MoveInv

\* A queue that is shifted, or cleared, tells of less; what is recorded came from it.
LEMMA ShiftOver ==
    ASSUME doc'.press = doc.press, UNCHANGED <<down, wire>>, NEW c \in {0, 1}, queue \in Seq(Queued),
           \A k \in DOMAIN queue' : k \in Nat /\ k + c \in DOMAIN queue /\ queue'[k] = queue[k + c]
    PROVE  /\ \A a : Unsaid(a)' <=> Unsaid(a)
           /\ \A a, k : k \in Nat /\ Over(a, k + c) => Over(a, k)'
           /\ \A a, k : k \in Nat /\ Over(a, k) => Over(a, k)'
           /\ \A k, a : NavAt(k, a)' => k \in Nat /\ NavAt(k + c, a) /\ queue'[k] = queue[k + c]
  <1>1. \A a : Unsaid(a)' <=> Unsaid(a)
    BY DEF Unsaid, Pressed, Tells
  <1>2. ASSUME NEW a, NEW k \in Nat, Over(a, k + c) PROVE Over(a, k)'
    <2>1. ASSUME NEW j \in DOMAIN queue', queue'[j].type = "click", queue'[j].act = a PROVE j <= k
      <3>1. j + c <= k + c /\ j \in Nat
        BY <1>2, <2>1 DEF Over
      <3> QED BY <3>1
    <2> QED BY <1>1, <1>2, <2>1 DEF Over
  <1>3. ASSUME NEW a, NEW k \in Nat, Over(a, k) PROVE Over(a, k)'
    <2>1. ASSUME NEW j \in DOMAIN queue', queue'[j].type = "click", queue'[j].act = a PROVE j <= k
      <3>1. j + c <= k /\ j \in Nat
        BY <1>3, <2>1 DEF Over
      <3> QED BY <3>1
    <2> QED BY <1>1, <1>3, <2>1 DEF Over
  <1>4. \A k, a : NavAt(k, a)' => k \in Nat /\ NavAt(k + c, a) /\ queue'[k] = queue[k + c]
    BY DEF NavAt
  <1> QED BY <1>1, <1>2, <1>3, <1>4

\* A queue that is shifted or cleared keeps that order.
LEMMA ShiftMoves ==
    ASSUME RecInv, Once, MoveInv, acts' \in {acts, acts + 1}, doc'.press = doc.press, doc'.load = doc.load,
           doc'.by = doc.by, UNCHANGED <<down, wire, navs>>, NEW c \in {0, 1},
           \A k \in DOMAIN queue' : k \in Nat /\ k # 0 /\ k + c \in DOMAIN queue /\ queue'[k] = queue[k + c],
           \A i, a : MovedAt(i, a)' => (\E j : MovedAt(j, a)) \/ a = 0 \/ (c = 1 /\ NavAt(1, a)),
           \A i, j, a : MovedAt(i, a)' /\ MovedAt(j, a)' /\ i < j => Recorded'[j].again,
           \A a : Tells(Recorded, a)' => Tells(Recorded, a)
                    \/ (c = 1 /\ 1 \in DOMAIN queue /\ queue[1].type = "click" /\ queue[1].act = a),
           Claimable', NavigatesOnce'
    PROVE  MoveInv'
  <1>1. queue \in Seq(Queued) /\ acts \in Nat
    BY DEF RecInv, OnPage, InMemory, Queue1
  <1>2. /\ \A a : Unsaid(a)' <=> Unsaid(a)
        /\ \A a, k : k \in Nat /\ Over(a, k + c) => Over(a, k)'
        /\ \A a, k : k \in Nat /\ Over(a, k) => Over(a, k)'
        /\ \A k, a : NavAt(k, a)' => k \in Nat /\ NavAt(k + c, a) /\ queue'[k] = queue[k + c]
    BY <1>1, ShiftOver
  <1>3. \A k, a : NavAt(k, a)' => k # 0
    BY DEF NavAt
  <1>4. ~Pressed(0) /\ ~Tells(wire, 0) /\ ~Tells(queue, 0) /\ Over(0, 0) /\ Unsaid(0)
    <2>1. 0 \notin 1 .. acts
      BY <1>1
    <2>2. ~Pressed(0) /\ ~Tells(wire, 0) /\ ~Tells(queue, 0)
      BY <2>1 DEF Once
    <2> QED BY <2>2 DEF Over, Unsaid, Tells
  <1>5. \A a : Noted(a)' => Noted(a) \/ a = 0
    BY <1>2 DEF Noted
  <1>6. \A a : a \in 1 .. acts => a \in 1 .. acts' /\ a # 0
    BY <1>1
  <1>7. \A a : a \in 0 .. acts => a \in 0 .. acts'
    BY <1>1
  <1>8. Moves'
    <2>0. PICK us, vs : us = navs /\ vs = navs'
      OBVIOUS
    <2>1. \A j \in DOMAIN vs : j = 1 /\ vs[j].act \in 1 .. acts' /\ (Noted(vs[j].act)' => vs[j].again)
      <3>1. \A j \in DOMAIN vs : j = 1 /\ vs[j].act \in 1 .. acts /\ (Noted(vs[j].act) => vs[j].again)
        BY <2>0 DEF MoveInv, Moves
      <3> QED BY <1>5, <1>6, <3>1
    <2>2. \A k, a : NavAt(k, a)' => a \in 1 .. acts'
      BY <1>2, <1>6 DEF MoveInv, Moves
    <2>3. \A i, a : MovedAt(i, a)' => a \in 0 .. acts'
      <3>1. 0 \in 0 .. acts
        BY <1>1
      <3>2. \A a : a \in 1 .. acts => a \in 0 .. acts
        BY <1>1
      <3> QED BY <1>7, <3>1, <3>2 DEF MoveInv, Moves
    <2>4. ASSUME NEW k, NEW l, NEW a, NavAt(k, a)', NavAt(l, a)', k < l PROVE queue'[l].nav.again
      <3>1. k \in Nat /\ l \in Nat /\ NavAt(k + c, a) /\ NavAt(l + c, a) /\ queue'[l] = queue[l + c]
        BY <1>2, <2>4
      <3>2. k + c < l + c
        BY <2>4, <3>1
      <3> QED BY <3>1, <3>2 DEF MoveInv, Moves
    <2>5. ASSUME NEW k, NEW i, NEW a, NavAt(k, a)', MovedAt(i, a)' PROVE queue'[k].nav.again
      <3>1. k \in Nat /\ k # 0 /\ NavAt(k + c, a) /\ a # 0 /\ queue'[k] = queue[k + c]
        BY <1>2, <1>3, <1>6, <2>5 DEF MoveInv, Moves
      <3>2. CASE \E j : MovedAt(j, a)
        BY <3>1, <3>2 DEF MoveInv, Moves
      <3>3. CASE c = 1 /\ NavAt(1, a)
        <4>1. 1 < k + 1
          BY <3>1
        <4> QED BY <3>1, <3>3, <4>1 DEF MoveInv, Moves
      <3> QED BY <2>5, <3>1, <3>2, <3>3
    <2> QED BY <2>0, <2>1, <2>2, <2>3, <2>4, <2>5 DEF Moves
  <1>9. Still'
    <2> SUFFICES ASSUME down # None, ~down.moved
                 PROVE  navs = <<>> /\ ~Noted(down.act)' /\ \A a : Noted(a)' => ~Tells(wire, a)
      BY DEF Still, Tells
    <2>1. down.act # 0
      BY <1>4 DEF Pressed
    <2> QED BY <1>4, <1>5, <2>1 DEF MoveInv, Still
  <1>10. Unlinked'
    <2>1. ASSUME NEW a, Over(a, 0), ~Tells(Recorded, a) PROVE Over(a, 0)' /\ ~Tells(Recorded, a)'
      <3>1. ~(1 \in DOMAIN queue /\ queue[1].type = "click" /\ queue[1].act = a)
        BY <2>1 DEF Over
      <3> QED BY <1>2, <2>1, <3>1
    <2>2. PICK us, vs : us = navs /\ vs = navs'
      OBVIOUS
    <2>3. \A j \in DOMAIN vs : ~vs[j].link => Over(vs[j].act, 0) /\ ~Tells(Recorded, vs[j].act)
      BY <2>2 DEF MoveInv, Unlinked
    <2>4. \A j \in DOMAIN vs : ~vs[j].link => Over(vs[j].act, 0)' /\ ~Tells(Recorded, vs[j].act)'
      BY <2>1, <2>3
    <2>5. ASSUME NEW k, NEW a, NavAt(k, a)', ~queue'[k].nav.link PROVE Over(a, 0)' /\ ~Tells(Recorded, a)'
      BY <1>2, <2>1, <2>5 DEF MoveInv, Unlinked
    <2> QED BY <2>2, <2>4, <2>5 DEF Unlinked
  <1>11. Loads'
    BY DEF MoveInv, Loads
  <1>12. Left'
    <2>1. PICK us, vs : us = navs /\ vs = navs'
      OBVIOUS
    <2>2. \A a : Pressed(a)' <=> Pressed(a)
      BY DEF Pressed
    <2>3. \A j \in DOMAIN vs : ~vs[j].routed =>
             /\ ~Pressed(vs[j].act)
             /\ \A k \in DOMAIN wire : wire[k].type = "click" /\ wire[k].act = vs[j].act => wire[k].load < vs[j].load
      BY <2>1 DEF MoveInv, Left
    <2>4. \A j \in DOMAIN vs : ~vs[j].routed =>
             /\ ~Pressed(vs[j].act)'
             /\ \A k \in DOMAIN wire' : wire'[k].type = "click" /\ wire'[k].act = vs[j].act => wire'[k].load < vs[j].load
      BY <2>2, <2>3
    <2>5. ASSUME NEW k, NEW a, NavAt(k, a)', ~queue'[k].nav.routed PROVE Over(a, k)'
      BY <1>2, <2>5 DEF MoveInv, Left
    <2> QED BY <2>1, <2>4, <2>5 DEF Left
  <1>13. Passed'
    <2>1. navs' # <<>> => \A a : Noted(a)' => Unsaid(a)' \/ a = navs'[1].act
      BY <1>2, <1>4, <1>5 DEF MoveInv, Passed
    <2>2. ASSUME NEW k, NEW l, NEW a, NEW b, NavAt(k, b)', NavAt(l, a)', l < k PROVE Over(a, k)' \/ a = b
      <3>1. k \in Nat /\ l \in Nat /\ NavAt(k + c, b) /\ NavAt(l + c, a)
        BY <1>2, <2>2
      <3>2. l + c < k + c
        BY <2>2, <3>1
      <3> QED BY <1>2, <3>1, <3>2 DEF MoveInv, Passed
    <2>3. ASSUME NEW k, NEW i, NEW a, NEW b, NavAt(k, b)', MovedAt(i, a)' PROVE Over(a, k)' \/ a = b
      <3>1. k \in Nat /\ k # 0 /\ NavAt(k + c, b)
        BY <1>2, <1>3, <2>3
      <3>2. CASE \E j : MovedAt(j, a)
        BY <1>2, <3>1, <3>2 DEF MoveInv, Passed
      <3>3. CASE a = 0
        BY <1>2, <1>4, <3>1, <3>3 DEF Over, Unsaid, Tells
      <3>4. CASE c = 1 /\ NavAt(1, a)
        <4>1. 1 < k + 1
          BY <3>1
        <4> QED BY <1>2, <3>1, <3>4, <4>1 DEF MoveInv, Passed
      <3> QED BY <2>3, <3>2, <3>3, <3>4
    <2> QED BY <2>1, <2>2, <2>3 DEF Passed
  <1>14. Again'
    <2>1. \A j \in DOMAIN navs' : j \in DOMAIN navs /\ navs'[j] = navs[j]
      OBVIOUS
    <2> QED BY <1>2, <1>5, <2>1, AgainKept
  <1> QED BY <1>8, <1>9, <1>10, <1>11, <1>12, <1>13, <1>14 DEF MoveInv

LEMMA AsideMoves == ASSUME RecInv, Once, MoveInv, Elsewhere PROVE MoveInv'
  <1>1. queue \in Seq(Queued) /\ acts \in Nat
    BY DEF RecInv, OnPage, InMemory, Queue1
  <1>2. \A k \in DOMAIN queue' : k \in Nat /\ k # 0 /\ k + 0 \in DOMAIN queue /\ queue'[k] = queue[k + 0]
    <2>1. PICK q : q = queue'
      OBVIOUS
    <2>2. CASE q = queue
      <3>1. \A k \in DOMAIN queue : k \in Nat /\ k # 0 /\ k + 0 = k
        BY <1>1
      <3> QED BY <2>1, <2>2, <3>1
    <2>3. CASE q = <<>>
      <3>1. DOMAIN q = {}
        BY <2>3
      <3> QED BY <2>1, <3>1
    <2> QED BY <2>1, <2>2, <2>3 DEF Elsewhere
  <1>3. /\ doc'.press = doc.press /\ doc'.load = doc.load /\ doc'.by = doc.by
        /\ UNCHANGED <<down, wire, navs>> /\ acts' \in {acts, acts + 1}
    BY DEF Elsewhere
  <1>4. \A a : Over(a, 0) => Over(a, 0)'
    BY <1>1, <1>2, <1>3, ShiftOver
  <1>5. Over(0, 0)
    <2>1. 0 \notin 1 .. acts
      BY <1>1
    <2>2. ~Pressed(0) /\ ~Tells(wire, 0) /\ ~Tells(queue, 0)
      BY <2>1 DEF Once
    <2> QED BY <2>2 DEF Over, Unsaid, Tells
  <1>6. CASE Recorded' = Recorded /\ (Recorded # <<>> => rec'.routed = rec.routed)
    <2>1. (\A i, a : MovedAt(i, a)' <=> MovedAt(i, a)) /\ (\A a : Tells(Recorded, a)' <=> Tells(Recorded, a))
      BY <1>6 DEF MovedAt, Tells
    <2>2. NavigatesOnce'
      BY <1>6 DEF MoveInv, NavigatesOnce
    <2>3. \A i, a : MovedAt(i, a) => Recorded # <<>>
      <3>1. PICK r : r = Recorded
        OBVIOUS
      <3>2. r = <<>> => DOMAIN r = {}
        OBVIOUS
      <3> QED BY <3>1, <3>2 DEF MovedAt
    <2>4. Claimable'
      BY <1>4, <1>6, <2>1, <2>3 DEF MoveInv, Claimable
    <2>5. \A i, j, a : MovedAt(i, a)' /\ MovedAt(j, a)' /\ i < j => Recorded'[j].again
      BY <1>6, <2>1 DEF MoveInv, Moves
    <2> QED BY <1>2, <1>3, <2>1, <2>2, <2>4, <2>5, ShiftMoves
  <1>7. CASE Recorded' = <<>> \/ Recorded' = <<NavigateStep(0, FALSE)>>
    <2>1. PICK d : d = NavigateStep(0, FALSE)
      OBVIOUS
    <2>2. d.type = "navigate" /\ d.act = 0
      BY <2>1, NavigateIs
    <2>3. PICK r : r = Recorded'
      OBVIOUS
    <2>4. \A i \in DOMAIN r : i = 1 /\ r[i] = d
      <3>1. CASE r = <<>>
        BY <3>1
      <3>2. CASE r = <<d>>
        BY <3>2
      <3> QED BY <1>7, <2>1, <2>3, <3>1, <3>2
    <2>5. (\A i, a : MovedAt(i, a)' => i = 1 /\ a = 0) /\ (\A a : ~Tells(Recorded, a)')
      BY <2>2, <2>3, <2>4 DEF MovedAt, Tells
    <2>6. NavigatesOnce'
      BY <2>3, <2>4 DEF NavigatesOnce
    <2>7. Claimable'
      BY <1>4, <1>5, <2>5 DEF Claimable
    <2> QED BY <1>2, <1>3, <2>5, <2>6, <2>7, ShiftMoves
  <1> QED BY <1>6, <1>7 DEF Elsewhere

\* No click beside a navigation it caused, unless it is late or took the place of a later one.
Replaced(e) == e.type = "click" /\ e.asserted /\ e.again
Apart(s) ==
    \A i \in DOMAIN s \ {1} :
      {s[i - 1].type, s[i].type} = {"click", "navigate"} /\ s[i - 1].act = s[i].act
        => s[i - 1].late \/ s[i].late \/ Replaced(s[i])

\* It is what is asked of a recording.
LEMMA ApartIs == NavigatesOnce <=> Apart(Recorded)
  BY DEF NavigatesOnce, Apart, Replaced

\* A click and its navigation stay apart when a Step is added that is not the other of the last, ...
LEMMA ApartMore ==
    ASSUME NEW s \in Seq(Step), NEW e \in Step, Apart(s),
           s # <<>> /\ {Last(s).type, e.type} = {"click", "navigate"} /\ Last(s).act = e.act
             => Last(s).late \/ e.late \/ Replaced(e)
    PROVE  Apart(Append(s, e))
  <1>1. PICK t, n : t = Append(s, e) /\ n = Len(s)
    OBVIOUS
  <1>2. /\ DOMAIN t = DOMAIN s \cup {n + 1} /\ n + 1 \notin DOMAIN s /\ t[n + 1] = e /\ DOMAIN s = 1 .. n /\ n \in Nat
        /\ \A k \in DOMAIN s : t[k] = s[k]
    BY <1>1, AppendIs
  <1>3. ASSUME NEW i \in DOMAIN t \ {1}, {t[i - 1].type, t[i].type} = {"click", "navigate"}, t[i - 1].act = t[i].act
        PROVE  t[i - 1].late \/ t[i].late \/ Replaced(t[i])
    <2>1. CASE i \in DOMAIN s
      <3>1. i - 1 \in DOMAIN s
        BY <1>2, <1>3, <2>1
      <3>2. t[i] = s[i] /\ t[i - 1] = s[i - 1]
        BY <1>2, <2>1, <3>1
      <3>3. i \in DOMAIN s \ {1}
        BY <1>3, <2>1
      <3> QED BY <1>3, <3>2, <3>3 DEF Apart
    <2>2. CASE i = n + 1
      <3>1. n # 0 /\ i - 1 = n /\ n \in DOMAIN s
        BY <1>2, <1>3, <2>2
      <3>2. s # <<>>
        BY <1>1, <3>1
      <3>3. Last(s) = s[n]
        BY <1>1, <3>2, FrontIs
      <3>4. t[i - 1] = Last(s) /\ t[i] = e
        BY <1>2, <2>2, <3>1, <3>3
      <3> QED BY <1>3, <3>2, <3>4
    <2> QED BY <1>2, <2>1, <2>2
  <1> QED BY <1>1, <1>3 DEF Apart

\* ... when the last is taken away, ...
LEMMA ApartFront == ASSUME NEW s \in Seq(Step), s # <<>>, Apart(s) PROVE Apart(Front(s))
  <1>1. PICK f, n : f = Front(s) /\ n = Len(s)
    OBVIOUS
  <1>2. DOMAIN f = DOMAIN s \ {n} /\ n \in Nat /\ DOMAIN s = 1 .. n /\ \A k \in DOMAIN f : f[k] = s[k]
    <2>1. n \in Nat /\ DOMAIN s = 1 .. n
      BY <1>1
    <2>2. DOMAIN f = DOMAIN s \ {n} /\ \A k \in DOMAIN f : f[k] = s[k]
      BY <1>1, FrontIs
    <2> QED BY <2>1, <2>2
  <1>3. ASSUME NEW i \in DOMAIN f \ {1} PROVE i \in DOMAIN s \ {1} /\ f[i] = s[i] /\ f[i - 1] = s[i - 1]
    <2>1. i \in DOMAIN f /\ i - 1 \in DOMAIN f
      BY <1>2, <1>3
    <2> QED BY <1>2, <1>3, <2>1
  <1> QED BY <1>1, <1>3 DEF Apart

\* ... and when one is told anew.
LEMMA ApartRetold ==
    ASSUME NEW s \in Seq(Step), NEW n \in DOMAIN s, NEW e \in Step, Apart(s),
           \/ e.type \notin {"click", "navigate"}
           \/ /\ e.type = s[n].type /\ e.act = s[n].act /\ e.late = s[n].late
              /\ e.again = s[n].again /\ (s[n].asserted => e.asserted)
    PROVE  Apart([s EXCEPT ![n] = e])
  <1>1. PICK t : t = [s EXCEPT ![n] = e]
    OBVIOUS
  <1>2. DOMAIN t = DOMAIN s /\ t[n] = e /\ \A k \in DOMAIN s : k # n => t[k] = s[k]
    BY <1>1
  <1>3. ASSUME NEW i \in DOMAIN t \ {1}, {t[i - 1].type, t[i].type} = {"click", "navigate"}, t[i - 1].act = t[i].act
        PROVE  t[i - 1].late \/ t[i].late \/ Replaced(t[i])
    <2>1. i \in DOMAIN s /\ i - 1 \in DOMAIN s
      BY <1>2, <1>3
    <2>2. \A k \in {i - 1, i} : /\ t[k].type = s[k].type /\ t[k].act = s[k].act /\ t[k].late = s[k].late
                                /\ t[k].again = s[k].again /\ (s[k].asserted => t[k].asserted)
      <3>1. t[i - 1].type \in {"click", "navigate"} /\ t[i].type \in {"click", "navigate"}
        BY <1>3
      <3> QED BY <1>2, <2>1, <3>1
    <2>3. s[i - 1].late \/ s[i].late \/ Replaced(s[i])
      BY <1>2, <1>3, <2>2 DEF Apart
    <2> QED BY <2>2, <2>3 DEF Replaced
  <1> QED BY <1>1, <1>3 DEF Apart

\* A navigation is told by the click before it, and a click that comes after its routing takes its
\* place, unless it is late.
LEMMA WorkMoves == ASSUME RecInv, Once, MoveInv, NEW soon \in BOOLEAN, Work(soon) PROVE MoveInv'
  <1>1. /\ queue \in Seq(Queued) /\ queue # <<>> /\ queue' = Tail(queue) /\ acts \in Nat
        /\ doc'.press = doc.press /\ doc'.load = doc.load /\ doc'.by = doc.by /\ UNCHANGED <<down, wire, navs, acts>>
    BY WorkDoes DEF RecInv, OnPage
  <1>2. PICK e : e = Head(queue)
    OBVIOUS
  <1>3. 1 \in DOMAIN queue /\ queue[1] = e
    BY <1>1, <1>2, TailIs
  <1>4. \A k \in DOMAIN queue' : k \in Nat /\ k # 0 /\ k + 1 \in DOMAIN queue /\ queue'[k] = queue[k + 1]
    <2>1. PICK q : q = queue'
      OBVIOUS
    <2>2. \A k \in DOMAIN q : k \in Nat /\ k + 1 \in DOMAIN queue /\ q[k] = queue[k + 1]
      BY <1>1, <2>1, TailIs
    <2>3. q \in Seq(Queued)
      BY <1>1, <2>1, TailIs
    <2>4. \A k \in DOMAIN q : k # 0
      BY <2>3
    <2> QED BY <2>1, <2>2, <2>4
  <1>5. (\A a : Over(a, 0) => Over(a, 0)') /\ (\A a : Over(a, 1) => Over(a, 0)')
    BY <1>1, <1>4, ShiftOver
  <1>6. PICK r : r = Recorded'
    OBVIOUS
  <1>7. ASSUME \A i, a : i \in DOMAIN r /\ r[i].type = "navigate" /\ r[i].act = a =>
                           (\E j : MovedAt(j, a)) \/ NavAt(1, a),
               \A i, j \in DOMAIN r : r[i].type = "navigate" /\ r[j].type = "navigate" /\ r[i].act = r[j].act /\ i < j => r[j].again,
               \A a : Tells(r, a) => Tells(Recorded, a) \/ (e.type = "click" /\ e.act = a),
               Claimable', NavigatesOnce'
        PROVE  MoveInv'
    <2>1. /\ \A i, a : MovedAt(i, a)' => (\E j : MovedAt(j, a)) \/ NavAt(1, a)
          /\ \A i, j, a : MovedAt(i, a)' /\ MovedAt(j, a)' /\ i < j => Recorded'[j].again
          /\ \A a : Tells(Recorded, a)' => Tells(Recorded, a) \/ (queue[1].type = "click" /\ queue[1].act = a)
      BY <1>3, <1>6, <1>7 DEF MovedAt, Tells
    <2> QED BY <1>1, <1>3, <1>4, <1>7, <2>1, ShiftMoves
  <1>8. CASE rec' = rec
    <2>1. Recorded' = Recorded
      BY <1>8, RecordedIs
    <2>2. (\A i, a : MovedAt(i, a)' <=> MovedAt(i, a)) /\ NavigatesOnce'
      BY <2>1 DEF MovedAt, MoveInv, NavigatesOnce
    <2>3. Claimable'
      BY <1>5, <1>8, <2>1, <2>2 DEF MoveInv, Claimable
    <2> QED BY <1>6, <1>7, <2>1, <2>2, <2>3 DEF MovedAt, MoveInv, Moves
  <1>9. CASE rec' = None
    <2>1. r = <<>>
      BY <1>6, <1>9, RecordedIs
    <2>2. DOMAIN r = {}
      BY <2>1
    <2>3. Claimable' /\ NavigatesOnce'
      BY <1>6, <2>2 DEF Claimable, NavigatesOnce, MovedAt
    <2> QED BY <1>7, <2>2, <2>3 DEF Tells
  <1>10. CASE rec \in Record /\ Steps1(rec.steps) /\ e.type = "nav" /\ e.nav \in Navigation /\ rec' = recordNavigation(e.nav)
    <2>1. PICK s : s = rec.steps
      OBVIOUS
    <2>2. s = Recorded /\ s \in Seq(Step)
      BY <1>10, <2>1, RecordedIs DEF Steps1
    <2>3. Apart(s)
      BY <2>2 DEF MoveInv, NavigatesOnce, Apart, Replaced
    <2>4. NavAt(1, e.nav.act) /\ queue[1].nav = e.nav
      BY <1>3, <1>10 DEF NavAt
    <2>5. /\ r = rec'.steps /\ rec' \in Record
          /\ \/ s # <<>> /\ Last(s).type = "click" /\ r = [s EXCEPT ![Len(s)] = [@ EXCEPT !.asserted = TRUE]]
             \/ /\ ~(s # <<>> /\ Last(s).type = "click" /\ e.nav.link) /\ rec'.routed = e.nav.routed
                /\ r = Append(s, NavigateStep(e.nav.act, e.nav.again))
      <3>1. PICK p : p = recordNavigation(e.nav)
        OBVIOUS
      <3>2. /\ p \in Record
            /\ \/ s # <<>> /\ Last(s).type = "click" /\ p.steps = [s EXCEPT ![Len(s)] = [@ EXCEPT !.asserted = TRUE]]
               \/ /\ ~(s # <<>> /\ Last(s).type = "click" /\ e.nav.link) /\ p.routed = e.nav.routed
                  /\ p.steps = Append(s, NavigateStep(e.nav.act, e.nav.again))
        BY <1>10, <2>1, <3>1, NavigatedIs
      <3>3. r = p.steps
        BY <1>6, <1>10, <3>1, <3>2, RecordedIs
      <3> QED BY <1>10, <3>1, <3>2, <3>3
    <2>6. CASE s # <<>> /\ Last(s).type = "click" /\ r = [s EXCEPT ![Len(s)] = [@ EXCEPT !.asserted = TRUE]]
      <3>0. Len(s) \in DOMAIN s /\ Last(s) = s[Len(s)] /\ Last(s) \in Step
        BY <2>2, <2>6, FrontIs
      <3>1. PICK n \in DOMAIN s : n = Len(s) /\ s[n].type = "click" /\ s[n] \in Step
        BY <2>6, <3>0
      <3>2. PICK d : d = [s[n] EXCEPT !.asserted = TRUE]
        OBVIOUS
      <3>3. d \in Step /\ d.type = s[n].type /\ d.act = s[n].act /\ d.late = s[n].late /\ d.again = s[n].again /\ d.asserted
        BY <3>1, <3>2 DEF Step
      <3>4. r = [s EXCEPT ![n] = d]
        BY <2>6, <3>1, <3>2
      <3>5. DOMAIN r = DOMAIN s /\ \A i \in DOMAIN s : r[i].type = s[i].type /\ r[i].act = s[i].act /\ r[i].again = s[i].again
        BY <3>3, <3>4
      <3>6. \A i, a : MovedAt(i, a)' <=> MovedAt(i, a)
        BY <1>6, <2>2, <3>5 DEF MovedAt
      <3>7. Apart(r)
        BY <2>2, <2>3, <3>1, <3>3, <3>4, ApartRetold
      <3>8. NavigatesOnce'
        BY <1>6, <3>7 DEF Apart, NavigatesOnce, Replaced
      <3>9. Claimable'
        <4>1. Len(r) = n
          BY <2>2, <3>1, <3>4
        <4>2. \A a : ~MovedAt(n, a)
          BY <2>2, <3>1 DEF MovedAt
        <4>3. ASSUME NEW i, NEW a, MovedAt(i, a)', ~Over(a, 0)'
              PROVE  (\A j, b : MovedAt(j, b)' /\ i < j => b = a) /\ (\A j : j = Len(r) /\ MovedAt(j, a)' => rec'.routed)
          <5>1. MovedAt(i, a) /\ ~Over(a, 0)
            BY <1>5, <3>6, <4>3
          <5> QED BY <3>6, <4>1, <4>2, <5>1 DEF MoveInv, Claimable
        <4> QED BY <1>6, <4>3 DEF Claimable
      <3>10. \A a : Tells(r, a) => Tells(Recorded, a)
        BY <2>2, <3>1, <3>3, <3>4, TellsRetold
      <3>11. /\ \A i, a : i \in DOMAIN r /\ r[i].type = "navigate" /\ r[i].act = a => MovedAt(i, a)
             /\ \A i, j \in DOMAIN r : r[i].type = "navigate" /\ r[j].type = "navigate" /\ r[i].act = r[j].act /\ i < j => r[j].again
        BY <2>2, <3>5 DEF MovedAt, MoveInv, Moves
      <3> QED BY <1>7, <3>8, <3>9, <3>10, <3>11
    <2>7. CASE /\ ~(s # <<>> /\ Last(s).type = "click" /\ e.nav.link) /\ rec'.routed = e.nav.routed
               /\ r = Append(s, NavigateStep(e.nav.act, e.nav.again))
      <3>1. PICK v \in Step : v = NavigateStep(e.nav.act, e.nav.again) /\ v.type = "navigate" /\ v.act = e.nav.act /\ v.again = e.nav.again
        BY <1>10, NavigateIs DEF Navigation
      <3>2. PICK n : n = Len(s) + 1
        OBVIOUS
      <3>3. /\ DOMAIN r = DOMAIN s \cup {n} /\ n \notin DOMAIN s /\ r[n] = v /\ Len(r) = n
            /\ \A k \in DOMAIN s : r[k] = s[k] /\ k <= n
        <4>1. /\ DOMAIN r = DOMAIN s \cup {n} /\ n \notin DOMAIN s /\ r[n] = v /\ Len(r) = n /\ DOMAIN s = 1 .. Len(s)
              /\ Len(s) \in Nat /\ \A k \in DOMAIN s : r[k] = s[k]
          BY <2>2, <2>7, <3>1, <3>2, AppendIs
        <4>2. \A k \in DOMAIN s : k <= n
          BY <3>2, <4>1
        <4> QED BY <4>1, <4>2
      <3>4. n \in Nat
        BY <2>2, <3>2
      <3>5. \A i, a : MovedAt(i, a)' <=> MovedAt(i, a) \/ (i = n /\ a = e.nav.act)
        BY <1>6, <2>2, <3>1, <3>3 DEF MovedAt
      <3>6. \A i, a : MovedAt(i, a) => (Over(a, 0)' \/ a = e.nav.act) /\ (a = e.nav.act => e.nav.again)
        <4>1. \A i, a : MovedAt(i, a) => Over(a, 1) \/ a = e.nav.act
          BY <2>4 DEF MoveInv, Passed
        <4>2. \A i, a : MovedAt(i, a) /\ a = e.nav.act => e.nav.again
          BY <2>4 DEF MoveInv, Moves
        <4> QED BY <1>5, <4>1, <4>2
      <3>7. ~e.nav.routed => Over(e.nav.act, 0)'
        BY <1>5, <2>4 DEF MoveInv, Left
      <3>8. Claimable'
        <4>1. ASSUME NEW i, NEW a, MovedAt(i, a)', ~Over(a, 0)'
              PROVE  (\A j, b : MovedAt(j, b)' /\ i < j => b = a) /\ (\A j : j = Len(r) /\ MovedAt(j, a)' => rec'.routed)
          <5>1. a = e.nav.act
            BY <3>5, <3>6, <4>1
          <5>2. rec'.routed
            BY <2>7, <3>7, <4>1, <5>1
          <5>3. i \in DOMAIN s => \A j, b : MovedAt(j, b) /\ i < j => b = a
            <6>1. i \in DOMAIN s => i # n
              BY <3>3
            <6>2. ~Over(a, 0)
              BY <1>5, <4>1
            <6> QED BY <3>5, <4>1, <6>1, <6>2 DEF MoveInv, Claimable
          <5>4. i \in DOMAIN s \cup {n} /\ \A j, b : MovedAt(j, b)' => j \in DOMAIN s \cup {n}
            BY <1>6, <3>3, <4>1 DEF MovedAt
          <5>5. ASSUME NEW j, NEW b, MovedAt(j, b)', i < j PROVE b = a
            <6>1. CASE j = n
              <7>1. n \notin DOMAIN s
                BY <3>3
              <7>2. ~MovedAt(j, b)
                BY <2>2, <6>1, <7>1 DEF MovedAt
              <7> QED BY <3>5, <5>1, <5>5, <7>2
            <6>2. CASE j # n
              <7>1. j \in DOMAIN s /\ MovedAt(j, b)
                BY <3>5, <5>4, <5>5, <6>2
              <7>2. i \in DOMAIN s
                BY <2>2, <3>3, <3>4, <5>4, <5>5, <7>1
              <7> QED BY <5>3, <5>5, <7>1, <7>2
            <6> QED BY <6>1, <6>2
          <5> QED BY <5>2, <5>5
        <4> QED BY <1>6, <3>3, <4>1 DEF Claimable
      <3>9. s # <<>> /\ Last(s).type = "click" => Last(s).act # e.nav.act
        <4>1. ASSUME s # <<>>, Last(s).type = "click", Last(s).act = e.nav.act PROVE FALSE
          <5>1. ~e.nav.link
            BY <2>7, <4>1
          <5>2. ~Tells(Recorded, e.nav.act)
            BY <2>4, <5>1 DEF MoveInv, Unlinked
          <5>3. Last(s) = s[Len(s)] /\ Len(s) \in DOMAIN s
            BY <2>2, <4>1, FrontIs
          <5> QED BY <2>2, <4>1, <5>2, <5>3 DEF Tells
        <4> QED BY <4>1
      <3>10. Apart(r)
        <4>1. s # <<>> /\ {Last(s).type, v.type} = {"click", "navigate"} => Last(s).type = "click"
          BY <3>1
        <4> QED BY <2>2, <2>3, <2>7, <3>1, <3>9, <4>1, ApartMore
      <3>11. NavigatesOnce'
        BY <1>6, <3>10 DEF Apart, NavigatesOnce, Replaced
      <3>12. \A a : Tells(r, a) => Tells(Recorded, a)
        BY <2>2, <2>7, <3>1, TellsMore
      <3>13. /\ \A i, a : i \in DOMAIN r /\ r[i].type = "navigate" /\ r[i].act = a => (\E j : MovedAt(j, a)) \/ NavAt(1, a)
             /\ \A i, j \in DOMAIN r : r[i].type = "navigate" /\ r[j].type = "navigate" /\ r[i].act = r[j].act /\ i < j => r[j].again
        <4>1. \A i, a : i \in DOMAIN r /\ r[i].type = "navigate" /\ r[i].act = a => MovedAt(i, a) \/ (i = n /\ a = e.nav.act)
          BY <2>2, <3>1, <3>3 DEF MovedAt
        <4>2. ASSUME NEW i \in DOMAIN r, NEW j \in DOMAIN r,
                     r[i].type = "navigate", r[j].type = "navigate", r[i].act = r[j].act, i < j
              PROVE  r[j].again
          <5>1. CASE j = n
            <6>1. i \in DOMAIN s /\ r[i] = s[i]
              BY <3>3, <3>4, <4>2, <5>1
            <6>2. MovedAt(i, e.nav.act)
              BY <2>2, <3>1, <3>3, <4>2, <5>1, <6>1 DEF MovedAt
            <6> QED BY <3>1, <3>3, <3>6, <5>1, <6>2
          <5>2. CASE j # n
            <6>1. j \in DOMAIN s /\ r[j] = s[j] /\ i \in DOMAIN s /\ r[i] = s[i]
              BY <2>2, <3>3, <3>4, <4>2, <5>2
            <6>2. MovedAt(i, s[i].act) /\ MovedAt(j, s[i].act)
              BY <2>2, <4>2, <6>1 DEF MovedAt
            <6> QED BY <2>2, <4>2, <6>1, <6>2 DEF MoveInv, Moves
          <5> QED BY <5>1, <5>2
        <4>3. NavAt(1, e.nav.act)
          BY <2>4
        <4> QED BY <4>1, <4>2, <4>3
      <3> QED BY <1>7, <3>8, <3>11, <3>12, <3>13
    <2> QED BY <2>5, <2>6, <2>7
  <1>11. CASE rec \in Record /\ Steps1(rec.steps) /\ rec' = recordDownload(soon)
    <2>1. PICK s : s = rec.steps
      OBVIOUS
    <2>2. s = Recorded /\ s \in Seq(Step)
      BY <1>11, <2>1, RecordedIs DEF Steps1
    <2>3. Apart(s)
      BY <2>2 DEF MoveInv, NavigatesOnce, Apart, Replaced
    <2>4. /\ rec'.routed = rec.routed
          /\ \/ r = s
             \/ \E n \in DOMAIN s, d \in Step : r = [s EXCEPT ![n] = d] /\ d.type = "download"
      <3>1. PICK p : p = recordDownload(soon)
        OBVIOUS
      <3>2. /\ p \in Record /\ p.routed = rec.routed
            /\ \/ p.steps = rec.steps
               \/ \E n \in DOMAIN rec.steps, d \in Step : p.steps = [rec.steps EXCEPT ![n] = d] /\ d.type = "download"
        BY <1>11, <3>1, DownloadedIs
      <3>3. r = p.steps
        BY <1>6, <1>11, <3>1, <3>2, RecordedIs
      <3> QED BY <1>11, <2>1, <3>1, <3>2, <3>3
    <2>5. CASE r = s
      <3>1. (\A i, a : MovedAt(i, a)' <=> MovedAt(i, a)) /\ NavigatesOnce'
        BY <1>6, <2>2, <2>5 DEF MovedAt, MoveInv, NavigatesOnce
      <3>2. Claimable'
        BY <1>5, <1>6, <2>2, <2>4, <2>5, <3>1 DEF MoveInv, Claimable
      <3> QED BY <1>7, <2>2, <2>5, <3>1, <3>2 DEF MovedAt, MoveInv, Moves
    <2>6. CASE \E n \in DOMAIN s, d \in Step : r = [s EXCEPT ![n] = d] /\ d.type = "download"
      <3>1. PICK n \in DOMAIN s, d \in Step : r = [s EXCEPT ![n] = d] /\ d.type = "download"
        BY <2>6
      <3>2. DOMAIN r = DOMAIN s /\ Len(r) = Len(s) /\ \A i \in DOMAIN s : r[i].type = "navigate" => r[i] = s[i]
        BY <2>2, <3>1
      <3>3. \A i, a : MovedAt(i, a)' => MovedAt(i, a)
        BY <1>6, <2>2, <3>2 DEF MovedAt
      <3>4. Apart(r)
        BY <2>2, <2>3, <3>1, ApartRetold
      <3>5. NavigatesOnce'
        BY <1>6, <3>4 DEF Apart, NavigatesOnce, Replaced
      <3>6. Claimable'
        BY <1>5, <1>6, <2>2, <2>4, <3>2, <3>3 DEF MoveInv, Claimable
      <3>7. \A a : Tells(r, a) => Tells(Recorded, a)
        BY <2>2, <3>1, TellsRetold
      <3>8. /\ \A i, a : i \in DOMAIN r /\ r[i].type = "navigate" /\ r[i].act = a => MovedAt(i, a)
            /\ \A i, j \in DOMAIN r : r[i].type = "navigate" /\ r[j].type = "navigate" /\ r[i].act = r[j].act /\ i < j => r[j].again
        BY <2>2, <3>2 DEF MovedAt, MoveInv, Moves
      <3> QED BY <1>7, <3>5, <3>6, <3>7, <3>8
    <2> QED BY <2>4, <2>5, <2>6
  <1>12. CASE /\ rec \in Record /\ Steps1(rec.steps) /\ e \in Told /\ e.type # "ax" /\ Silent(e)
              /\ rec' = assembleInteraction(e, soon)
    <2>1. PICK s, c : s = rec.steps /\ c = Claimed(rec, e, soon)
      OBVIOUS
    <2>2. s = Recorded /\ s \in Seq(Step)
      BY <1>12, <2>1, RecordedIs DEF Steps1
    <2>3. Apart(s)
      BY <2>2 DEF MoveInv, NavigatesOnce, Apart, Replaced
    <2>4. PICK d \in Step : /\ d.type = e.type /\ d.act = e.act /\ d.late = ~soon /\ c \in Seq(Step)
                            /\ (Claims(rec, e, soon) => d.asserted /\ d.again = Last(s).again)
                            /\ r = Append(c, d)
      <3>1. PICK p : p = assembleInteraction(e, soon)
        OBVIOUS
      <3>2. InMemory
        BY DEF RecInv
      <3>3. PICK d \in Step : /\ d.type = e.type /\ d.act = e.act /\ d.late = ~soon
                             /\ (Claims(rec, e, soon) => d.asserted /\ d.again = Last(rec.steps).again)
                             /\ p \in Record /\ Steps1(Claimed(rec, e, soon))
                             /\ p.steps = Append(Claimed(rec, e, soon), d)
        <4>1. rec \in Record /\ Steps1(rec.steps) /\ e \in Told /\ e.type # "ax" /\ Silent(e)
          BY <1>12
        <4>2. PICK d \in Step :
                /\ d.type = e.type /\ d.act = e.act /\ d.late = ~soon
                /\ d.asserted = Claims(rec, e, soon)
                /\ Claims(rec, e, soon) => d.again = Last(rec.steps).again
                /\ assembleInteraction(e, soon) \in Record
                /\ assembleInteraction(e, soon).steps = Append(Claimed(rec, e, soon), d)
                /\ Steps1(Claimed(rec, e, soon))
          BY <3>2, <4>1, AssembledIs
        <4>3. Claims(rec, e, soon) => d.asserted
          BY <4>2
        <4> QED BY <3>1, <4>2, <4>3
      <3>4. r = p.steps
        BY <1>6, <1>12, <3>1, <3>3, RecordedIs
      <3> QED BY <2>1, <3>3, <3>4 DEF Steps1
    <2>5. d.type # "navigate"
      BY <1>12, <2>4 DEF Told
    <2>6. \/ c = s /\ ~Claims(rec, e, soon)
          \/ /\ s # <<>> /\ c = Front(s) /\ e.type = "click" /\ Last(s).type = "navigate" /\ Claims(rec, e, soon)
      BY <2>1 DEF Claimed, Claims
    <2>7. /\ DOMAIN s = 1 .. Len(s) /\ Len(s) \in Nat /\ DOMAIN c \subseteq DOMAIN s /\ DOMAIN c = 1 .. Len(c) /\ Len(c) \in Nat
          /\ \A k \in DOMAIN c : c[k] = s[k]
      <3>1. DOMAIN c \subseteq DOMAIN s /\ \A k \in DOMAIN c : c[k] = s[k]
        <4>1. CASE c = s
          BY <4>1
        <4>2. CASE s # <<>> /\ c = Front(s)
          BY <2>2, <4>2, FrontIs
        <4> QED BY <2>6, <4>1, <4>2
      <3> QED BY <2>2, <2>4, <3>1
    <2>8. PICK n : n = Len(c) + 1
      OBVIOUS
    <2>9. /\ DOMAIN r = DOMAIN c \cup {n} /\ n \notin DOMAIN c /\ r[n] = d /\ Len(r) = n
          /\ \A k \in DOMAIN c : r[k] = c[k]
      BY <2>4, <2>8, AppendIs
    <2>10. \A i, a : MovedAt(i, a)' <=> i \in DOMAIN c /\ MovedAt(i, a)
      BY <1>6, <2>2, <2>5, <2>7, <2>9 DEF MovedAt
    <2>11. Claimable'
      <3>1. ASSUME NEW i, NEW a, MovedAt(i, a)', ~Over(a, 0)'
            PROVE  (\A j, b : MovedAt(j, b)' /\ i < j => b = a) /\ ~MovedAt(Len(r), a)'
        <4>1. i \in DOMAIN c /\ MovedAt(i, a) /\ ~Over(a, 0)
          BY <1>5, <2>10, <3>1
        <4>2. \A j, b : MovedAt(j, b) /\ i < j => b = a
          BY <4>1 DEF MoveInv, Claimable
        <4> QED BY <2>9, <2>10, <4>1, <4>2
      <3> QED BY <1>6, <3>1 DEF Claimable
    <2>12. e.type = "click" => ~Over(e.act, 0)
      BY <1>3 DEF Over
    <2>13. Apart(c)
      <3>1. s # <<>> /\ c = Front(s) => Apart(c)
        BY <2>2, <2>3, ApartFront
      <3> QED BY <2>3, <2>6, <3>1
    <2>14. c # <<>> /\ {Last(c).type, d.type} = {"click", "navigate"} /\ Last(c).act = d.act
             => Last(c).late \/ d.late \/ Replaced(d)
      <3> SUFFICES ASSUME c # <<>>, {Last(c).type, d.type} = {"click", "navigate"}, Last(c).act = d.act
                   PROVE  d.late \/ Replaced(d)
        OBVIOUS
      <3>1. d.type = "click" /\ Last(c).type = "navigate"
        BY <2>5
      <3>2. PICK m : m = Len(c)
        OBVIOUS
      <3>3. m \in DOMAIN c /\ Last(c) = c[m] /\ m \in Nat
        BY <2>4, <2>7, <3>2, FrontIs
      <3>4. MovedAt(m, e.act)
        BY <2>2, <2>4, <2>7, <3>1, <3>3 DEF MovedAt
      <3>5. (\A j, b : MovedAt(j, b) /\ m < j => b = e.act) /\ (m = Len(s) => rec.routed)
        BY <2>2, <2>4, <2>12, <3>1, <3>4 DEF MoveInv, Claimable
      <3>6. CASE c = s /\ ~Claims(rec, e, soon)
        <4>1. rec.routed /\ s # <<>> /\ Last(s).type = "navigate"
          BY <3>1, <3>2, <3>5, <3>6
        <4>2. ~soon
          BY <2>1, <2>4, <3>1, <3>6, <4>1 DEF Claims
        <4> QED BY <2>4, <4>2
      <3>7. CASE s # <<>> /\ c = Front(s) /\ Last(s).type = "navigate" /\ Claims(rec, e, soon)
        <4>1. Last(s) = s[Len(s)] /\ Len(s) \in DOMAIN s /\ Len(c) = Len(s) - 1
          BY <2>2, <3>7, FrontIs
        <4>2. MovedAt(Len(s), s[Len(s)].act)
          BY <2>2, <3>7, <4>1 DEF MovedAt
        <4>3. m < Len(s)
          BY <2>7, <3>2, <4>1
        <4>4. MovedAt(Len(s), e.act)
          BY <3>5, <4>2, <4>3
        <4>5. Recorded[Len(s)].again
          BY <3>4, <4>3, <4>4 DEF MoveInv, Moves
        <4>6. d.asserted /\ d.again
          BY <2>2, <2>4, <3>7, <4>1, <4>5
        <4> QED BY <3>1, <4>6 DEF Replaced
      <3> QED BY <2>6, <3>6, <3>7
    <2>15. Apart(r)
      BY <2>4, <2>13, <2>14, ApartMore
    <2>16. NavigatesOnce'
      BY <1>6, <2>15 DEF Apart, NavigatesOnce, Replaced
    <2>17. \A a : Tells(r, a) => Tells(Recorded, a) \/ (e.type = "click" /\ e.act = a)
      <3>1. \A a : Tells(r, a) => Tells(c, a) \/ (e.type = "click" /\ e.act = a)
        BY <2>4, TellsMore
      <3>2. \A a : Tells(c, a) => Tells(Recorded, a)
        BY <2>2, <2>7 DEF Tells
      <3> QED BY <3>1, <3>2
    <2>18. /\ \A i, a : i \in DOMAIN r /\ r[i].type = "navigate" /\ r[i].act = a => MovedAt(i, a)
           /\ \A i, j \in DOMAIN r : r[i].type = "navigate" /\ r[j].type = "navigate" /\ r[i].act = r[j].act /\ i < j => r[j].again
      <3>1. \A i, a : i \in DOMAIN r /\ r[i].type = "navigate" /\ r[i].act = a => MovedAt(i, a)
        BY <2>2, <2>5, <2>7, <2>9 DEF MovedAt
      <3>2. \A i \in DOMAIN r : r[i].type = "navigate" => i \in DOMAIN s /\ r[i] = s[i]
        BY <2>5, <2>7, <2>9
      <3>3. \A i, j \in DOMAIN r : r[i].type = "navigate" /\ r[j].type = "navigate" /\ r[i].act = r[j].act /\ i < j
              => MovedAt(i, r[i].act) /\ MovedAt(j, r[i].act) /\ r[j] = Recorded[j]
        BY <2>2, <3>1, <3>2
      <3> QED BY <3>1, <3>3 DEF MoveInv, Moves
    <2> QED BY <1>7, <2>11, <2>16, <2>17, <2>18
  <1> QED BY <1>2, <1>8, <1>9, <1>10, <1>11, <1>12, WorkDoes

-----------------------------------------------------------------------------
(* Whose role.                                                             *)

\* What is said on the page, in the queue and in answers to be of the element el.
Says(key, el) ==
    \/ \E k \in DOMAIN wire : wire[k].key = key /\ wire[k].el = el
    \/ \E k \in DOMAIN queue : queue[k].type \notin {"nav", "download"} /\ queue[k].key = key /\ queue[k].el = el
    \/ doc.press # None /\ doc.press.event.key = key /\ doc.press.event.el = el
    \/ \E q \in queries : q.key = key /\ q.answer = el /\ el \notin {"asked", "none"}

\* A key is of one element: on the page of the moment the one it numbers.
Named ==
    /\ doc.load >= 1 /\ \A q \in queries : q.key[1] >= 1
    /\ \A key, el : Says(key, el) =>
         /\ key[1] \in 1 .. doc.load
         /\ key[1] = doc.load => key[2] \in DOMAIN doc.seen /\ doc.seen[key[2]] = el
    /\ \A key, a, b : Says(key, a) /\ Says(key, b) => a = b

\* What is said anew is of the page of the moment, ...
Numbers(key, el) == el \in DOMAIN Elements /\ key = <<doc.load, Number(doc, el)>>
Sees(key, el) == key[1] = doc.load /\ key[2] \in DOMAIN doc.seen /\ doc.seen[key[2]] = el

\* ... so no key changes hands.
LEMMA NamedStill ==
    ASSUME RecInv, Named, NEW met \in DOMAIN Elements \cup {None},
           \/ doc'.load = doc.load + 1
           \/ doc'.load = doc.load /\ met = None /\ doc'.seen = doc.seen
           \/ doc'.load = doc.load /\ met # None /\ doc'.seen = Met(doc, met).seen,
           \A key, el : Says(key, el)' => Says(key, el) \/ Sees(key, el) \/ (met # None /\ el = met /\ Numbers(key, el)),
           \A q \in queries' : q.key[1] >= 1
    PROVE  Named'
  <1>1. doc \in Page /\ doc.load \in Nat /\ doc.load >= 1
    BY DEF RecInv, OnPage, Page, Named
  <1>2. PICK seen : seen = IF met = None THEN doc.seen ELSE Met(doc, met).seen
    OBVIOUS
  <1>3. /\ \A k \in DOMAIN doc.seen : k \in DOMAIN seen /\ seen[k] = doc.seen[k]
        /\ met # None => Number(doc, met) \in DOMAIN seen /\ seen[Number(doc, met)] = met
    <2>1. CASE met = None
      BY <1>2, <2>1
    <2>2. CASE met # None
      BY <1>1, <1>2, <2>2, MetIs
    <2> QED BY <2>1, <2>2
  <1>4. ASSUME NEW key, NEW el, Says(key, el)'
        PROVE  /\ key[1] \in 1 .. doc.load
               /\ key[1] = doc.load => key[2] \in DOMAIN seen /\ seen[key[2]] = el
               /\ key[1] # doc.load => Says(key, el)
    <2>1. CASE Says(key, el)
      BY <1>3, <2>1 DEF Named
    <2>2. CASE Sees(key, el)
      BY <1>1, <1>3, <2>2 DEF Sees
    <2>3. CASE met # None /\ el = met /\ Numbers(key, el)
      <3>1. key[1] = doc.load /\ key[2] = Number(doc, met)
        BY <2>3 DEF Numbers
      <3> QED BY <1>1, <1>3, <2>3, <3>1
    <2> QED BY <1>4, <2>1, <2>2, <2>3
  <1>5. ASSUME NEW key, NEW a, NEW b, Says(key, a)', Says(key, b)' PROVE a = b
    <2>1. CASE key[1] = doc.load
      BY <1>4, <1>5, <2>1
    <2>2. CASE key[1] # doc.load
      BY <1>4, <1>5, <2>2 DEF Named
    <2> QED BY <2>1, <2>2
  <1>6. ASSUME NEW key, NEW el, Says(key, el)'
        PROVE  /\ key[1] \in 1 .. doc'.load
               /\ key[1] = doc'.load => key[2] \in DOMAIN doc'.seen /\ doc'.seen[key[2]] = el
    <2>1. key[1] \in 1 .. doc.load /\ (key[1] = doc.load => key[2] \in DOMAIN seen /\ seen[key[2]] = el)
      BY <1>4, <1>6
    <2>2. CASE doc'.load = doc.load + 1
      BY <1>1, <2>1, <2>2
    <2>3. CASE doc'.load = doc.load /\ doc'.seen = seen
      BY <2>1, <2>3
    <2> QED BY <1>2, <2>2, <2>3
  <1>7. doc'.load >= 1
    BY <1>1
  <1> QED BY <1>5, <1>6, <1>7 DEF Named

\* What is said on the page of an element goes on to worker and queue as it is.
LEMMA NamedOn ==
    ASSUME RecInv, Named, NEW met \in DOMAIN Elements \cup {None},
           \/ doc'.load = doc.load + 1
           \/ doc'.load = doc.load /\ met = None /\ doc'.seen = doc.seen
           \/ doc'.load = doc.load /\ met # None /\ doc'.seen = Met(doc, met).seen,
           queries' \subseteq queries,
           \/ doc'.press = None \/ doc'.press = doc.press
           \/ met # None /\ doc'.press.event.el = met /\ Numbers(doc'.press.event.key, met),
           \A k \in DOMAIN wire' :
             \/ \E l \in DOMAIN wire : wire[l] = wire'[k]
             \/ doc.press # None /\ wire'[k] = doc.press.event
             \/ met # None /\ wire'[k].el = met /\ Numbers(wire'[k].key, met),
           \A k \in DOMAIN queue' :
             \/ queue'[k].type \in {"nav", "download"}
             \/ \E l \in DOMAIN queue : queue[l] = queue'[k]
             \/ \E l \in DOMAIN wire : wire[l] = queue'[k]
    PROVE  Named'
  <1>1. ASSUME NEW key, NEW el, Says(key, el)'
        PROVE  Says(key, el) \/ (met # None /\ el = met /\ Numbers(key, el))
    <2>1. CASE \E k \in DOMAIN wire' : wire'[k].key = key /\ wire'[k].el = el
      <3>1. PICK k \in DOMAIN wire' : wire'[k].key = key /\ wire'[k].el = el
        BY <2>1
      <3>2. \/ \E l \in DOMAIN wire : wire[l] = wire'[k]
            \/ doc.press # None /\ wire'[k] = doc.press.event
            \/ met # None /\ wire'[k].el = met /\ Numbers(wire'[k].key, met)
        OBVIOUS
      <3> QED BY <3>1, <3>2 DEF Says
    <2>2. CASE \E k \in DOMAIN queue' : queue'[k].type \notin {"nav", "download"} /\ queue'[k].key = key /\ queue'[k].el = el
      <3>1. PICK k \in DOMAIN queue' : queue'[k].type \notin {"nav", "download"} /\ queue'[k].key = key /\ queue'[k].el = el
        BY <2>2
      <3>2. (\E l \in DOMAIN queue : queue[l] = queue'[k]) \/ (\E l \in DOMAIN wire : wire[l] = queue'[k])
        BY <3>1
      <3> QED BY <3>1, <3>2 DEF Says
    <2>3. CASE doc'.press # None /\ doc'.press.event.key = key /\ doc'.press.event.el = el
      BY <2>3 DEF Says
    <2>4. CASE \E q \in queries' : q.key = key /\ q.answer = el /\ el \notin {"asked", "none"}
      BY <2>4 DEF Says
    <2> QED BY <1>1, <2>1, <2>2, <2>3, <2>4 DEF Says
  <1>2. \A q \in queries' : q.key[1] >= 1
    BY DEF Named
  <1> QED BY <1>1, <1>2, NamedStill

\* More of the queue than there was.
LEMMA QueueGrows ==
    ASSUME NEW s \in Seq(Queued), NEW e \in Queued, NEW q, q = s \/ q = Append(s, e)
    PROVE  \A k \in DOMAIN q : q[k] = e \/ \E l \in DOMAIN s : s[l] = q[k]
  <1>1. CASE q = s
    BY <1>1
  <1>2. CASE q = Append(s, e)
    BY <1>2, AppendIs
  <1> QED BY <1>1, <1>2

\* The page gives the key of what it has met, ...
LEMMA PageNamed ==
    ASSUME RecInv, Named,
           \/ \E el \in DOMAIN Elements, effect \in {"none", "route", "replace"} : Press(el, effect)
           \/ PressTimer
           \/ \E effect \in {"none", "route", "load", "download"} : Release(effect)
           \/ \E el \in DOMAIN Elements : (\E typed \in BOOLEAN : Change(el, typed)) \/ WatchFrames(el)
           \/ armExtract \/ Visit
           \/ \E effect \in {"route", "load"} : Reroute(effect)
    PROVE  Named'
  <1>1. doc \in Page /\ wire \in Seq(Told) /\ queue \in Seq(Queued) /\ None \notin DOMAIN Elements
    BY PageAssumption DEF RecInv, OnPage, InMemory, Queue1, Told1
  <1>2. PICK w : w = wire'
    OBVIOUS
  <1>3. ASSUME queue' = queue
        PROVE  \A k \in DOMAIN queue' : \E l \in DOMAIN queue : queue[l] = queue'[k]
    BY <1>3
  <1>4. ASSUME NEW el \in DOMAIN Elements, NEW effect \in {"none", "route", "replace"}, Press(el, effect) PROVE Named'
    <2>1. PICK m \in Told, x \in Told :
             /\ x.el = el /\ m.el = el /\ x.key = <<doc.load, Number(doc, el)>> /\ m.key = x.key
             /\ wire = <<>> /\ wire' = Append(wire, x)
             /\ doc'.press.event = m /\ doc'.load = doc.load /\ doc'.seen = Met(doc, el).seen
             /\ UNCHANGED <<rec, starting, offer, slow, assembly, outside>>
      BY <1>4, PressDoes
    <2>2. \A k \in DOMAIN w : (\E l \in DOMAIN wire : wire[l] = w[k]) \/ w[k] = x
      BY <1>1, <1>2, <2>1, AppendIs
    <2>3. Numbers(x.key, el) /\ Numbers(m.key, el) /\ el # None /\ queue' = queue /\ queries' = queries
      BY <1>1, <2>1 DEF Numbers, assembly
    <2> QED BY <1>2, <1>3, <2>1, <2>2, <2>3, NamedOn
  <1>5. CASE PressTimer
    <2>1. /\ doc'.press = None /\ doc'.load = doc.load /\ doc'.seen = doc.seen /\ doc.press # None
          /\ doc.press.event \in Told /\ (wire' = wire \/ wire' = Append(wire, doc.press.event))
          /\ queue' = queue /\ queries' = queries
      BY <1>5, TimerDoes DEF assembly
    <2>2. \A k \in DOMAIN w : (\E l \in DOMAIN wire : wire[l] = w[k]) \/ w[k] = doc.press.event
      <3>1. CASE w = wire
        BY <3>1
      <3>2. CASE w = Append(wire, doc.press.event)
        BY <1>1, <2>1, <3>2, AppendIs
      <3> QED BY <1>2, <2>1, <3>1, <3>2
    <2> QED BY <1>2, <1>3, <2>1, <2>2, NamedOn
  <1>6. ASSUME NEW effect \in {"none", "route", "load", "download"}, Release(effect) PROVE Named'
    <2>1. /\ down # None /\ queries' = queries
          /\ queue' = queue \/ queue' = Append(queue, [type |-> "download"])
          /\ \/ UNCHANGED <<doc, wire, navs>>
             \/ \E m \in Told :
                  /\ m.el = down.el /\ m.key = <<doc.load, Number(doc, down.el)>>
                  /\ wire' = Append(wire, m) /\ doc'.press = None
                  /\ \/ doc'.load = doc.load /\ doc'.seen = Met(doc, down.el).seen
                     \/ doc'.load = doc.load + 1
      BY <1>6, ReleaseDoes
    <2>2. \A k \in DOMAIN queue' : queue'[k].type \in {"nav", "download"} \/ \E l \in DOMAIN queue : queue[l] = queue'[k]
      <3>1. [type |-> "download"] \in Queued /\ [type |-> "download"].type = "download"
        BY DEF Queued
      <3>2. PICK e \in Queued : e = [type |-> "download"] /\ e.type = "download"
        BY <3>1
      <3>3. PICK q : q = queue'
        OBVIOUS
      <3>4. \A k \in DOMAIN q : q[k] = e \/ \E l \in DOMAIN queue : queue[l] = q[k]
        BY <1>1, <2>1, <3>2, <3>3, QueueGrows
      <3> QED BY <3>2, <3>3, <3>4
    <2>3. CASE UNCHANGED <<doc, wire, navs>>
      BY <2>1, <2>2, <2>3, NamedOn
    <2>4. CASE \E m \in Told :
                  /\ m.el = down.el /\ m.key = <<doc.load, Number(doc, down.el)>>
                  /\ wire' = Append(wire, m) /\ doc'.press = None
                  /\ \/ doc'.load = doc.load /\ doc'.seen = Met(doc, down.el).seen
                     \/ doc'.load = doc.load + 1
      <3>1. PICK m \in Told :
                  /\ m.el = down.el /\ m.key = <<doc.load, Number(doc, down.el)>>
                  /\ wire' = Append(wire, m) /\ doc'.press = None
                  /\ \/ doc'.load = doc.load /\ doc'.seen = Met(doc, down.el).seen
                     \/ doc'.load = doc.load + 1
        BY <2>4
      <3>2. down.el \in DOMAIN Elements /\ down.el # None
        BY <1>1, <2>1 DEF RecInv, OnPage
      <3>3. \A k \in DOMAIN w : (\E l \in DOMAIN wire : wire[l] = w[k]) \/ w[k] = m
        BY <1>1, <1>2, <3>1, AppendIs
      <3>4. Numbers(m.key, down.el)
        BY <3>1, <3>2 DEF Numbers
      <3> QED BY <1>2, <2>1, <2>2, <3>1, <3>2, <3>3, <3>4, NamedOn
    <2> QED BY <2>1, <2>3, <2>4
  <1>7. ASSUME NEW el \in DOMAIN Elements, (\E typed \in BOOLEAN : Change(el, typed)) \/ WatchFrames(el) PROVE Named'
    <2>1. /\ doc'.press = doc.press /\ doc'.load = doc.load /\ doc'.seen = Met(doc, el).seen
          /\ \A k \in DOMAIN wire' : wire'[k].el = el /\ wire'[k].key = <<doc.load, Number(doc, el)>>
          /\ queue' = queue /\ queries' = queries
      BY <1>7, TypingDoes DEF assembly
    <2>2. el # None /\ \A k \in DOMAIN wire' : Numbers(wire'[k].key, el)
      BY <1>1, <2>1 DEF Numbers
    <2> QED BY <1>3, <2>1, <2>2, NamedOn
  <1>8. CASE armExtract
    <2>1. /\ doc'.press = doc.press /\ doc'.load = doc.load /\ doc'.seen = doc.seen
          /\ wire' = wire /\ queue' = queue /\ queries' = queries
      BY <1>8, ArmDoes DEF assembly
    <2> QED BY <1>3, <2>1, NamedOn
  <1>9. CASE Visit
    <2>1. doc'.press = None /\ doc'.load = doc.load + 1 /\ wire' = wire /\ queue' = queue /\ queries' = queries
      BY <1>9, VisitDoes DEF assembly
    <2> QED BY <1>3, <2>1, NamedOn
  <1>10. ASSUME NEW effect \in {"route", "load"}, Reroute(effect) PROVE Named'
    <2>1. /\ wire' = wire /\ queue' = queue /\ queries' = queries
          /\ doc'.press = None \/ doc'.press = doc.press
          /\ \/ doc'.load = doc.load /\ doc'.seen = doc.seen
             \/ doc'.load = doc.load + 1
      BY <1>10, RerouteDoes DEF assembly
    <2> QED BY <1>3, <2>1, NamedOn
  <1> QED BY <1>4, <1>5, <1>6, <1>7, <1>8, <1>9, <1>10

\* ... the worker passes it on, and asks by it, ...
LEMMA AcceptsNamed == ASSUME RecInv, Named, acceptRecorderMessage PROVE Named'
  <1>1. /\ wire \in Seq(Told) /\ wire # <<>> /\ queue \in Seq(Queued) /\ wire' = Tail(wire) /\ UNCHANGED doc
    BY DEF RecInv, OnPage, InMemory, Told1, Queue1, acceptRecorderMessage
  <1>2. PICK w, e : w = wire' /\ e = Head(wire)
    OBVIOUS
  <1>3. e \in Told /\ 1 \in DOMAIN wire /\ wire[1] = e
    BY <1>1, <1>2, TailIs
  <1>4. \A k \in DOMAIN w : \E l \in DOMAIN wire : wire[l] = w[k]
    BY <1>1, <1>2, TailIs
  <1>5. CASE queries' = queries /\ (queue' = queue \/ queue' = Append(queue, e))
    <2>1. PICK q : q = queue'
      OBVIOUS
    <2>2. \A k \in DOMAIN q : q[k] = e \/ \E l \in DOMAIN queue : queue[l] = q[k]
      BY <1>1, <1>3, <1>5, <2>1, QueueGrows DEF Queued
    <2>3. \A k \in DOMAIN q : (\E l \in DOMAIN queue : queue[l] = q[k]) \/ \E l \in DOMAIN wire : wire[l] = q[k]
      BY <1>3, <2>2
    <2> QED BY <1>1, <1>2, <1>4, <1>5, <2>1, <2>3, NamedOn
  <1>6. CASE queue' = queue /\ queries' = Asked(e.key)
    <2>1. \A q \in queries' : q \in queries \/ q = [key |-> e.key, answer |-> "asked"]
      BY <1>6 DEF Asked
    <2>2. Says(e.key, e.el)
      BY <1>3 DEF Says
    <2>3. e.key[1] \in 1 .. doc.load /\ doc.load \in Nat
      BY <2>2 DEF Named, RecInv, OnPage, Page
    <2>4. \A q \in queries' : q.key[1] >= 1
      BY <2>1, <2>3 DEF Named
    <2>5. ASSUME NEW key, NEW el, Says(key, el)' PROVE Says(key, el)
      <3>1. CASE \E k \in DOMAIN wire' : wire'[k].key = key /\ wire'[k].el = el
        BY <1>2, <1>4, <3>1 DEF Says
      <3>2. CASE \E q \in queries' : q.key = key /\ q.answer = el /\ el \notin {"asked", "none"}
        BY <2>1, <3>2 DEF Says
      <3> QED BY <1>1, <1>6, <2>5, <3>1, <3>2 DEF Says
    <2> QED BY <1>1, <2>4, <2>5, NamedStill
  <1> QED BY <1>2, <1>5, <1>6 DEF acceptRecorderMessage, assembly

LEMMA NavArrivesNamed == ASSUME RecInv, Named, NavArrives PROVE Named'
  <1>1. /\ navs \in Seq(Navigation) /\ navs # <<>> /\ queue \in Seq(Queued)
        /\ UNCHANGED <<doc, wire, queries>>
    BY DEF RecInv, OnPage, InMemory, Queue1, NavArrives
  <1>2. PICK e : e = [type |-> "nav", nav |-> Head(navs)]
    OBVIOUS
  <1>3. e \in Queued /\ e.type = "nav" /\ queue' = Append(queue, e)
    BY <1>1, <1>2, TailIs DEF Queued, NavArrives
  <1>4. PICK q : q = queue'
    OBVIOUS
  <1>5. \A k \in DOMAIN q : q[k] = e \/ \E l \in DOMAIN queue : queue[l] = q[k]
    BY <1>1, <1>3, <1>4, QueueGrows
  <1> QED BY <1>1, <1>3, <1>4, <1>5, NamedOn

\* The answer to a query is the element that the page numbers so.
LEMMA QueryNamed == ASSUME RecInv, Named, NEW q \in queries, queryAccessibility(q) PROVE Named'
  <1>1. UNCHANGED <<doc, wire, queue>>
    BY DEF queryAccessibility, tab
  <1>2. PICK el : el = Found(q.key)
    OBVIOUS
  <1>3. PICK a : a = IF el # None /\ Elements[el].role THEN el ELSE "none"
    OBVIOUS
  <1>4. PICK p : p = [q EXCEPT !.answer = a]
    OBVIOUS
  <1>5. queries' = (queries \ {q}) \cup {p} /\ p.key = q.key /\ p.answer = a
    BY <1>2, <1>3, <1>4 DEF queryAccessibility, RecInv, InMemory
  <1>6. a \notin {"asked", "none"} => Sees(q.key, a)
    <2>1. SUFFICES ASSUME a \notin {"asked", "none"} PROVE Sees(q.key, a)
      OBVIOUS
    <2>2. a = Found(q.key) /\ a # None
      BY <1>2, <1>3, <2>1
    <2>3. q.key[1] \in {0, doc.load} /\ q.key[2] \in DOMAIN doc.seen /\ doc.seen[q.key[2]] = a
      BY <2>2 DEF Found
    <2>4. q.key[1] # 0
      BY DEF Named
    <2> QED BY <2>3, <2>4 DEF Sees
  <1>7. \A r \in queries' : r.key[1] >= 1
    BY <1>5 DEF Named
  <1>8. ASSUME NEW key, NEW b, Says(key, b)' PROVE Says(key, b) \/ Sees(key, b)
    <2>1. CASE \E r \in queries' : r.key = key /\ r.answer = b /\ b \notin {"asked", "none"}
      BY <1>5, <1>6, <2>1 DEF Says
    <2> QED BY <1>1, <1>8, <2>1 DEF Says
  <1> QED BY <1>1, <1>7, <1>8, NamedStill

LEMMA WorkNamed == ASSUME RecInv, Named, NEW soon \in BOOLEAN, Work(soon) PROVE Named'
  <1>1. /\ queue \in Seq(Queued) /\ queue # <<>> /\ queue' = Tail(queue) /\ wire' = wire /\ queries' \subseteq queries
        /\ doc'.press = doc.press /\ doc'.load = doc.load /\ doc'.seen = doc.seen
    BY WorkDoes
  <1>2. PICK q : q = queue'
    OBVIOUS
  <1>3. \A k \in DOMAIN q : \E l \in DOMAIN queue : queue[l] = q[k]
    BY <1>1, <1>2, TailIs
  <1> QED BY <1>1, <1>2, <1>3, NamedOn

LEMMA AsideNamed == ASSUME RecInv, Named, Aside PROVE Named'
  <1>1. Elsewhere
    BY AsideIs
  <1>2. CASE \E q \in queries : queryAccessibility(q)
    BY <1>2, QueryNamed
  <1>3. CASE queries' \subseteq queries
    <2>1. \A k \in DOMAIN queue' : \E l \in DOMAIN queue : queue[l] = queue'[k]
      BY <1>1 DEF Elsewhere
    <2> QED BY <1>1, <1>3, <2>1, NamedOn DEF Elsewhere
  <1>4. CASE \/ (\E mode \in Mode : Offer(mode)) \/ acceptRecordingPageMessage \/ startPendingRecording
             \/ announceRecordingStart \/ takeRecordingIntent \/ startRecording
    <2>1. queries' = queries
      BY <1>4 DEF Offer, acceptRecordingPageMessage, startPendingRecording, announceRecordingStart, takeRecordingIntent,
                  startRecording, assembly
    <2> QED BY <1>3, <2>1
  <1>5. CASE Stop \/ discardRecording \/ RecorderStops
    <2>1. queries' = {}
      BY <1>5 DEF Stop, discardRecording, RecorderStops
    <2> QED BY <1>3, <2>1
  <1>6. CASE \/ Save \/ LogOut \/ WithdrawSite
             \/ resolveRecordingSecrets \/ permissionsContain \/ uploadAuthStates \/ finalizeRecording
    <2>1. queries' = queries
      BY <1>6 DEF Save, LogOut, WithdrawSite, resolveRecordingSecrets, permissionsContain, uploadAuthStates,
                  finalizeRecording, assembly
    <2> QED BY <1>3, <2>1
  <1> QED BY <1>2, <1>4, <1>5, <1>6 DEF Aside

\* A Step has the role of its own element.
LEMMA PageRoles == ASSUME OwnRole, UNCHANGED rec PROVE OwnRole'
  BY DEF OwnRole, Recorded

\* A recording that is cleared has no roles.
LEMMA AsideRoles == ASSUME OwnRole, Elsewhere PROVE OwnRole'
  <1>1. PICK r, d : r = Recorded' /\ d = NavigateStep(0, FALSE)
    OBVIOUS
  <1>2. d.role = None
    BY <1>1, NavigateIs
  <1>3. r = Recorded \/ r = <<>> \/ r = <<d>>
    BY <1>1 DEF Elsewhere
  <1>4. \A i \in DOMAIN r : r[i].role \in {None, r[i].on}
    BY <1>2, <1>3 DEF OwnRole
  <1> QED BY <1>1, <1>4 DEF OwnRole

\* The role a Step is given was answered for its key, which is of its element alone.
LEMMA WorkRoles == ASSUME RecInv, Named, OwnRole, NEW soon \in BOOLEAN, Work(soon) PROVE OwnRole'
  <1>1. queue \in Seq(Queued) /\ queue # <<>> /\ InMemory
    BY WorkDoes DEF RecInv
  <1>2. PICK r, e : r = Recorded' /\ e = Head(queue)
    OBVIOUS
  <1>3. SUFFICES \A i \in DOMAIN r : r[i].role \in {None, r[i].on}
    BY <1>2 DEF OwnRole
  <1>4. CASE rec' = rec \/ rec' = None
    BY <1>2, <1>4, RecordedIs DEF OwnRole
  <1>5. CASE rec \in Record /\ Steps1(rec.steps) /\ e.nav \in Navigation /\ rec' = recordNavigation(e.nav)
    <2>1. PICK p, s : p = recordNavigation(e.nav) /\ s = rec.steps
      OBVIOUS
    <2>2. /\ p \in Record /\ s = Recorded /\ s \in Seq(Step)
          /\ \/ s # <<>> /\ p.steps = [s EXCEPT ![Len(s)] = [@ EXCEPT !.asserted = TRUE]]
             \/ p.steps = Append(s, NavigateStep(e.nav.act, e.nav.again))
      BY <1>5, <2>1, NavigatedIs, RecordedIs DEF Steps1
    <2>3. r = p.steps
      BY <1>2, <1>5, <2>1, <2>2, RecordedIs
    <2>4. CASE s # <<>> /\ p.steps = [s EXCEPT ![Len(s)] = [@ EXCEPT !.asserted = TRUE]]
      <3>1. PICK n, d : n = Len(s) /\ d = [s[Len(s)] EXCEPT !.asserted = TRUE]
        OBVIOUS
      <3>2. n \in DOMAIN s /\ s[n] \in Step
        BY <2>2, <2>4, <3>1, FrontIs
      <3>3. d.role = s[n].role /\ d.on = s[n].on /\ r = [s EXCEPT ![n] = d]
        BY <2>3, <2>4, <3>1, <3>2 DEF Step
      <3> QED BY <2>2, <3>3 DEF OwnRole
    <2>5. CASE p.steps = Append(s, NavigateStep(e.nav.act, e.nav.again))
      <3>1. PICK d : d = NavigateStep(e.nav.act, e.nav.again)
        OBVIOUS
      <3>2. d \in Step /\ d.role = None
        BY <1>5, <3>1, NavigateIs DEF Navigation
      <3>3. DOMAIN r = DOMAIN s \cup {Len(s) + 1} /\ r[Len(s) + 1] = d /\ \A k \in DOMAIN s : r[k] = s[k]
        BY <2>2, <2>3, <2>5, <3>1, <3>2, AppendIs
      <3> QED BY <2>2, <3>2, <3>3 DEF OwnRole
    <2> QED BY <2>2, <2>4, <2>5
  <1>6. CASE rec \in Record /\ Steps1(rec.steps) /\ rec' = recordDownload(soon)
    <2>1. PICK p, s : p = recordDownload(soon) /\ s = rec.steps
      OBVIOUS
    <2>2. /\ p \in Record /\ s = Recorded
          /\ \/ p.steps = s
             \/ \E n \in DOMAIN s, d \in Step : p.steps = [s EXCEPT ![n] = d] /\ d.on = s[n].on /\ d.role = s[n].role
      BY <1>6, <2>1, DownloadedIs, RecordedIs
    <2>3. r = p.steps
      BY <1>2, <1>6, <2>1, <2>2, RecordedIs
    <2>4. CASE p.steps = s
      BY <2>2, <2>3, <2>4 DEF OwnRole
    <2>5. CASE \E n \in DOMAIN s, d \in Step : p.steps = [s EXCEPT ![n] = d] /\ d.on = s[n].on /\ d.role = s[n].role
      BY <2>2, <2>3, <2>5 DEF OwnRole
    <2> QED BY <2>2, <2>4, <2>5
  <1>7. CASE /\ rec \in Record /\ Steps1(rec.steps) /\ e \in Told /\ e.type # "ax" /\ Silent(e)
             /\ rec' = assembleInteraction(e, soon)
    <2>1. PICK s, c : s = rec.steps /\ c = Claimed(rec, e, soon)
      OBVIOUS
    <2>2. s = Recorded /\ s \in Seq(Step)
      BY <1>7, <2>1, RecordedIs DEF Steps1
    <2>3. PICK d \in Step :
             /\ d.on = e.el /\ assembleInteraction(e, soon) \in Record
             /\ d.role # None => [key |-> e.key, answer |-> d.role] \in queries /\ d.role \notin {"asked", "none"}
             /\ assembleInteraction(e, soon).steps = Append(Claimed(rec, e, soon), d)
             /\ Steps1(Claimed(rec, e, soon))
      BY <1>1, <1>7, AssembledIs
    <2>4. r = Append(c, d) /\ c \in Seq(Step)
      <3>1. PICK p : p = assembleInteraction(e, soon)
        OBVIOUS
      <3>2. p \in Record /\ p.steps = Append(c, d) /\ rec' = p
        BY <1>7, <2>1, <2>3, <3>1
      <3> QED BY <1>2, <2>1, <2>3, <3>2, RecordedIs DEF Steps1
    <2>5. c = s \/ (s # <<>> /\ c = Front(s))
      BY <2>1 DEF Claimed, Claims
    <2>6. \A k \in DOMAIN c : k \in DOMAIN s /\ c[k] = s[k]
      <3>1. DOMAIN c \subseteq DOMAIN s /\ \A k \in DOMAIN c : c[k] = s[k]
        <4>1. CASE c = s
          BY <4>1
        <4>2. CASE s # <<>> /\ c = Front(s)
          BY <2>2, <4>2, FrontIs
        <4> QED BY <2>5, <4>1, <4>2
      <3> QED BY <3>1
    <2>7. d.role # None => d.role = d.on
      <3> SUFFICES ASSUME d.role # None PROVE d.role = d.on
        OBVIOUS
      <3>1. Says(e.key, d.role)
        <4>1. PICK q \in queries : q.key = e.key /\ q.answer = d.role
          BY <2>3
        <4> QED BY <2>3, <4>1 DEF Says
      <3>2. Says(e.key, e.el)
        <4>1. 1 \in DOMAIN queue /\ queue[1] = e /\ e.type \notin {"nav", "download"}
          BY <1>1, <1>2, <1>7, TailIs DEF Told
        <4> QED BY <4>1 DEF Says
      <3> QED BY <2>3, <3>1, <3>2 DEF Named
    <2>8. DOMAIN r = DOMAIN c \cup {Len(c) + 1} /\ r[Len(c) + 1] = d /\ \A k \in DOMAIN c : r[k] = c[k]
      BY <2>4, AppendIs
    <2> QED BY <2>2, <2>6, <2>7, <2>8 DEF OwnRole
  <1> QED BY <1>2, <1>4, <1>5, <1>6, <1>7, WorkDoes

-----------------------------------------------------------------------------
(* Which sessions are answered.                                            *)

\* A session is of an act, and is offered, recorded or answered.
Sessions ==
    /\ offer # None => offer.session <= acts
    /\ rec # None => rec.session <= acts
    /\ rec # None /\ offer # None => rec.session # offer.session
    /\ \A k \in DOMAIN heard :
         /\ heard[k] <= acts
         /\ offer # None => heard[k] # offer.session
         /\ rec # None => heard[k] # rec.session
    /\ OneAnswer

\* No session comes about but by an offer.
LEMMA SessionsStay ==
    ASSUME RecInv, Sessions, acts' \in {acts, acts + 1}, offer' = offer, heard' = heard,
           rec' = None \/ (rec # None /\ rec'.session = rec.session)
    PROVE  Sessions'
  <1>1. /\ acts \in Nat /\ (offer # None => offer.session \in Nat) /\ (rec # None => rec.session \in Nat) /\ heard \in Seq(Nat)
    BY DEF RecInv, OnPage, InStore, Record
  <1>2. \A k \in DOMAIN heard : heard[k] \in Nat
    BY <1>1
  <1> QED BY <1>1, <1>2 DEF Sessions, OneAnswer

\* A session offered is new, ...
LEMMA OffersSession == ASSUME RecInv, Sessions, NEW mode \in Mode, Offer(mode) PROVE Sessions'
  <1>1. /\ acts \in Nat /\ (rec # None => rec.session \in Nat) /\ heard \in Seq(Nat)
    BY DEF RecInv, OnPage, InStore, Record
  <1>2. \A k \in DOMAIN heard : heard[k] \in Nat
    BY <1>1
  <1>3. acts' = acts + 1 /\ offer' = [mode |-> mode, session |-> acts + 1] /\ rec' = rec /\ heard' = heard
    BY DEF Offer, outside
  <1>4. offer'.session = acts + 1
    BY <1>3
  <1> QED BY <1>1, <1>2, <1>3, <1>4 DEF Sessions, OneAnswer

\* ... and a recording of it is no longer offered.
LEMMA AcceptsSession == ASSUME RecInv, Sessions, acceptRecordingPageMessage PROVE Sessions'
  <1>1. offer # None /\ offer' = None /\ heard' = heard /\ acts' = acts /\ (rec' = rec \/ rec' = readPendingRecording)
    BY DEF acceptRecordingPageMessage, outside
  <1>2. readPendingRecording.session = offer.session
    BY DEF readPendingRecording
  <1> QED BY <1>1, <1>2 DEF Sessions, OneAnswer

\* Whatever else is done beside the page and the queue.
LEMMA AsideSessions == ASSUME RecInv, Sessions, Aside PROVE Sessions'
  <1>1. rec # None => rec \in Record
    BY DEF RecInv, InStore
  <1>2. CASE (\E mode \in Mode : Offer(mode)) \/ acceptRecordingPageMessage
    BY <1>2, OffersSession, AcceptsSession
  <1>3. CASE \/ startPendingRecording \/ announceRecordingStart \/ takeRecordingIntent
             \/ Save \/ LogOut \/ WithdrawSite \/ resolveRecordingSecrets \/ permissionsContain \/ uploadAuthStates
             \/ \E q \in queries : queryAccessibility(q)
    <2>1. rec' = rec /\ offer' = offer /\ heard' = heard /\ acts' = acts
      BY <1>3 DEF startPendingRecording, announceRecordingStart, takeRecordingIntent, Save, LogOut, WithdrawSite,
                  resolveRecordingSecrets, permissionsContain, uploadAuthStates, queryAccessibility, outside
    <2> QED BY <2>1, SessionsStay
  <1>4. CASE startRecording
    <2>1. offer' = offer /\ heard' = heard /\ acts' = acts
      BY <1>4 DEF startRecording, outside
    <2>2. rec' = rec \/ (rec # None /\ rec'.session = rec.session)
      BY <1>1, <1>4 DEF startRecording, Record
    <2> QED BY <2>1, <2>2, SessionsStay
  <1>5. CASE Stop
    <2>1. offer' = offer /\ heard' = heard /\ acts' = acts
      BY <1>5 DEF Stop, outside
    <2>2. rec' = None \/ (rec # None /\ rec'.session = rec.session)
      BY <1>1, <1>5 DEF Stop, Record
    <2> QED BY <2>1, <2>2, SessionsStay
  <1>6. CASE discardRecording \/ RecorderStops \/ finalizeRecording
    <2>1. offer' = offer /\ heard' = heard /\ acts' = acts /\ (rec' = rec \/ rec' = None)
      BY <1>6 DEF discardRecording, RecorderStops, finalizeRecording, outside
    <2> QED BY <2>1, SessionsStay
  <1> QED BY <1>2, <1>3, <1>4, <1>5, <1>6 DEF Aside

\* An answer ends the recording.
LEMMA WorkSessions == ASSUME RecInv, Sessions, NEW soon \in BOOLEAN, Work(soon) PROVE Sessions'
  <1>1. offer' = offer /\ acts' = acts /\ acts \in Nat /\ InMemory /\ heard \in Seq(Nat)
    BY WorkDoes DEF RecInv, OnPage, InStore
  <1>2. CASE rec' = rec /\ heard' = heard
    BY <1>1, <1>2, SessionsStay
  <1>3. CASE rec # None /\ rec' = None /\ heard' = broadcastRecording(rec.session) /\ rec.session \in Nat
    <2>1. PICK h, n : h = heard' /\ n = rec.session
      OBVIOUS
    <2>2. h = heard \/ h = Append(heard, n)
      BY <1>1, <1>3, <2>1, BroadcastIs
    <2>3. CASE h = heard
      BY <1>1, <1>3, <2>1, <2>3, SessionsStay
    <2>4. CASE h = Append(heard, n)
      <3>1. /\ DOMAIN h = DOMAIN heard \cup {Len(heard) + 1} /\ h[Len(heard) + 1] = n
            /\ \A k \in DOMAIN heard : h[k] = heard[k] /\ heard[k] # n
        BY <1>1, <1>3, <2>1, <2>4, AppendIs DEF Sessions
      <3>2. \A i, j \in DOMAIN h : h[i] = h[j] => i = j
        BY <3>1 DEF Sessions, OneAnswer
      <3>3. \A k \in DOMAIN h : h[k] <= acts /\ (offer # None => h[k] # offer.session)
        BY <1>3, <2>1, <3>1 DEF Sessions
      <3> QED BY <1>1, <1>3, <2>1, <3>2, <3>3 DEF Sessions, OneAnswer
    <2> QED BY <2>2, <2>3, <2>4
  <1>4. CASE /\ rec \in Record /\ Steps1(rec.steps) /\ heard' = heard /\ Head(queue).nav \in Navigation
             /\ rec' = recordNavigation(Head(queue).nav)
    <2>1. rec'.session = rec.session
      BY <1>4, NavigatedIs
    <2> QED BY <1>1, <1>4, <2>1, RecordAssumption, SessionsStay
  <1>5. CASE rec \in Record /\ Steps1(rec.steps) /\ heard' = heard /\ rec' = recordDownload(soon)
    <2>1. rec'.session = rec.session
      BY <1>5, DownloadedIs
    <2> QED BY <1>1, <1>5, <2>1, RecordAssumption, SessionsStay
  <1>6. CASE /\ rec \in Record /\ Steps1(rec.steps) /\ heard' = heard
             /\ Head(queue) \in Told /\ Head(queue).type # "ax" /\ Silent(Head(queue))
             /\ rec' = assembleInteraction(Head(queue), soon)
    <2>1. rec'.session = rec.session
      BY <1>1, <1>6, AssembledIs
    <2> QED BY <1>1, <1>6, <2>1, RecordAssumption, SessionsStay
  <1> QED BY <1>2, <1>3, <1>4, <1>5, <1>6, WorkDoes

-----------------------------------------------------------------------------
(* Recorded as done.                                                       *)

\* What recording keeps to beside its types.
DoneInv == Once /\ MoveInv /\ Named /\ OwnRole /\ Sessions

\* At first nothing was done.
LEMMA DoneInitHolds == RecorderInit => DoneInv
  <1> SUFFICES ASSUME RecorderInit PROVE DoneInv
    OBVIOUS
  <1>1. /\ rec = None /\ offer = None /\ down = None /\ wire = <<>> /\ navs = <<>> /\ queue = <<>> /\ queries = {}
        /\ heard = <<>> /\ acts = 0 /\ Recorded = <<>> /\ doc.press = None /\ doc.load = 1 /\ doc.by = 0
    BY DEF RecorderInit, Recorded, Document
  <1>2. DOMAIN (<<>>) = {}
    OBVIOUS
  <1>3. \A a : ~Pressed(a) /\ ~Tells(wire, a) /\ ~Tells(queue, a) /\ ~Tells(Recorded, a)
    BY <1>1, TellsNone DEF Pressed
  <1>4. Once
    BY <1>1, <1>3, TellsNone DEF Once
  <1>5. \A k, a : ~NavAt(k, a) /\ ~MovedAt(k, a)
    BY <1>1, <1>2 DEF NavAt, MovedAt
  <1>6. MoveInv
    BY <1>1, <1>2, <1>5 DEF MoveInv, Moves, Still, Unlinked, Loads, Left, Passed, Claimable, Again, NavigatesOnce, Noted
  <1>7. Named
    BY <1>1, <1>2 DEF Named, Says
  <1>8. OwnRole /\ Sessions
    BY <1>1, <1>2 DEF OwnRole, Sessions, OneAnswer
  <1> QED BY <1>4, <1>6, <1>7, <1>8 DEF DoneInv

\* What an act on the page and a message on its way do to sessions: nothing.
LEMMA PageSessions == ASSUME RecInv, Sessions, UNCHANGED <<rec, offer, heard>>, acts' \in {acts, acts + 1} PROVE Sessions'
  BY SessionsStay

\* What was done is kept by all that goes on beside page and queue, ...
LEMMA AsideDone == ASSUME RecInv, DoneInv, Aside PROVE DoneInv'
  BY AsideIs, AsideOnce, AsideMoves, AsideNamed, AsideRoles, AsideSessions DEF DoneInv

\* ... by what the page and Chrome do and tell, ...
LEMMA PageDone ==
    ASSUME RecInv, DoneInv, Tabbing \/ armExtract \/ Releasing \/ PressTimer \/ acceptRecorderMessage \/ NavArrives
    PROVE  DoneInv'
  <1>1. UNCHANGED <<rec, offer, heard>> /\ acts' \in {acts, acts + 1}
    BY DEF Tabbing, Releasing, Press, Change, WatchFrames, Visit, armExtract, Release, Reroute, PressTimer, acceptRecorderMessage,
           NavArrives, outside
  <1>2. OwnRole' /\ Sessions'
    BY <1>1, PageRoles, PageSessions DEF DoneInv
  <1>3. CASE Tabbing
    BY <1>2, <1>3, PressOnce, PressMoves, TypingOnce, TypingMoves, TurnsOnce, TurnsMove, PageNamed DEF Tabbing, DoneInv
  <1>4. CASE armExtract
    BY <1>2, <1>4, TurnsOnce, TurnsMove, PageNamed DEF DoneInv
  <1>5. CASE Releasing
    BY <1>2, <1>5, ReleaseOnce, ReleaseMoves, RerouteOnce, RerouteMoves, PageNamed DEF Releasing, DoneInv
  <1>6. CASE PressTimer
    BY <1>2, <1>6, TimerOnce, TimerMoves, PageNamed DEF DoneInv
  <1>7. CASE acceptRecorderMessage
    BY <1>2, <1>7, AcceptsOnce, AcceptsMove, AcceptsNamed DEF DoneInv
  <1>8. CASE NavArrives
    BY <1>2, <1>8, NavArrivesOnce, NavArrivesMoves, NavArrivesNamed DEF DoneInv
  <1> QED BY <1>3, <1>4, <1>5, <1>6, <1>7, <1>8

\* ... by the worker at its queue, ...
LEMMA WorkDone == ASSUME RecInv, DoneInv, NEW soon \in BOOLEAN, Work(soon) PROVE DoneInv'
  BY WorkOnce, WorkMoves, WorkNamed, WorkRoles, WorkSessions DEF DoneInv

\* ... so by every step of recording, ...
LEMMA RecorderDone == ASSUME RecInv, DoneInv, RecorderNext PROVE DoneInv'
  <1>1. CASE (\E mode \in {"record", "repick"} : Offer(mode)) \/ Stop \/ discardRecording \/ Save
    BY <1>1, AsideDone DEF Aside, Mode
  <1>2. CASE LogOut \/ WithdrawSite \/ resolveRecordingSecrets \/ permissionsContain \/ uploadAuthStates
           \/ finalizeRecording \/ Starting
    BY <1>2, AsideDone DEF Aside, Starting
  <1>3. CASE Tabbing \/ armExtract \/ Releasing \/ PressTimer
    BY <1>3, PageDone
  <1>4. CASE Assembling
    BY <1>4, AsideDone, PageDone, WorkDone DEF Assembling, Aside
  <1> QED BY <1>1, <1>2, <1>3, <1>4 DEF RecorderNext

\* ... and by connecting, which has no part in it.
LEMMA ConnectingDone == ASSUME DoneInv, UNCHANGED recVars PROVE DoneInv'
  <1>1. UNCHANGED <<rec, offer, doc, down, wire, navs, slow, queue, queries, heard, acts>>
    BY DEF recVars, tab, assembly, outside
  <1>2. Recorded' = Recorded
    BY <1>1, RecordedIs
  <1>3. /\ \A a : /\ Pressed(a)' <=> Pressed(a)
                  /\ Tells(wire, a)' <=> Tells(wire, a)
                  /\ Tells(queue, a)' <=> Tells(queue, a)
                  /\ Tells(Recorded, a)' <=> Tells(Recorded, a)
        /\ OnceIn(wire, slow)' <=> OnceIn(wire, slow)
        /\ OnceIn(queue, slow)' <=> OnceIn(queue, slow)
        /\ OnceIn(Recorded, slow)' <=> OnceIn(Recorded, slow)
    BY <1>1, <1>2 DEF Pressed, Tells, OnceIn
  <1>4. Once'
    BY <1>1, <1>3 DEF Once, DoneInv
  <1>5. /\ \A k, a : (NavAt(k, a)' <=> NavAt(k, a)) /\ (MovedAt(k, a)' <=> MovedAt(k, a)) /\ (Over(a, k)' <=> Over(a, k))
        /\ \A a : (Noted(a)' <=> Noted(a)) /\ (Unsaid(a)' <=> Unsaid(a))
    BY <1>1, <1>2, <1>3 DEF NavAt, MovedAt, Over, Unsaid, Noted
  <1>6. Moves' /\ Still' /\ Unlinked' /\ Loads'
    BY <1>1, <1>2, <1>3, <1>5 DEF DoneInv, MoveInv, Moves, Still, Unlinked, Loads
  <1>7. Left' /\ Passed' /\ Claimable' /\ NavigatesOnce'
    <2>1. Left'
      BY <1>1, <1>3, <1>5 DEF DoneInv, MoveInv, Left
    <2>2. Passed'
      BY <1>1, <1>5 DEF DoneInv, MoveInv, Passed
    <2>3. Claimable'
      BY <1>1, <1>2, <1>5 DEF DoneInv, MoveInv, Claimable
    <2>4. NavigatesOnce'
      BY <1>2 DEF DoneInv, MoveInv, NavigatesOnce
    <2> QED BY <2>1, <2>2, <2>3, <2>4
  <1>8. Named'
    <2>1. \A key, el : Says(key, el)' <=> Says(key, el)
      BY <1>1 DEF Says
    <2> QED BY <1>1, <2>1 DEF DoneInv, Named
  <1>9. OwnRole' /\ Sessions'
    BY <1>1, <1>2 DEF DoneInv, OwnRole, Sessions, OneAnswer
  <1>10. Again'
    BY <1>1, <1>5 DEF DoneInv, MoveInv, Again
  <1> QED BY <1>4, <1>6, <1>7, <1>8, <1>9, <1>10 DEF DoneInv, MoveInv

-----------------------------------------------------------------------------
(* The extension.                                                          *)

\* No step of recording breaks what a recording keeps to, ...
LEMMA RecorderKeeps == ASSUME RecInv, RecorderNext PROVE RecInv'
  <1>1. CASE \E mode \in {"record", "repick"} : Offer(mode)
    BY <1>1, OffersKeep DEF Mode
  <1>2. CASE Tabbing
    BY <1>2, PressKeeps, TypingKeeps, TurnsKeep DEF Tabbing
  <1>3. CASE armExtract
    BY <1>3, TurnsKeep
  <1>4. CASE Stop \/ discardRecording
    BY <1>4, EndsKeep
  <1>5. CASE Save \/ LogOut \/ WithdrawSite \/ resolveRecordingSecrets \/ permissionsContain \/ uploadAuthStates
           \/ finalizeRecording
    BY <1>5, SaveKeeps, WithdrawsKeep, ResolvesKeep, FinalizeKeeps
  <1>6. CASE Starting
    BY <1>6, OffersKeep, StartKeeps DEF Starting
  <1>7. CASE Releasing \/ PressTimer
    BY <1>7, ReleaseKeeps, RerouteKeeps, PressTimerKeeps DEF Releasing
  <1>8. CASE Assembling
    BY <1>8, AcceptsKeep, NavArrivesKeeps, QueriesKeep, WorkKeeps DEF Assembling
  <1> QED BY <1>1, <1>2, <1>3, <1>4, <1>5, <1>6, <1>7, <1>8 DEF RecorderNext

\* Connecting leaves a recording alone.
LEMMA ConnectingApart == ASSUME RecInv, UNCHANGED recVars PROVE RecInv'
  BY RestIs DEF recVars, outside, RecInv

\* ... whatever of the bounds it spends.
LEMMA RecordingSpends == ASSUME left \in Budget, RecorderNext PROVE left' \in Budget
  <1>1. CASE \E mode \in {"record", "repick"} : Offer(mode)
    BY <1>1, SpentIs DEF Offer, Op
  <1>2. CASE Tabbing
    BY <1>2, SpentIs DEF Tabbing, Press, Change, WatchFrames, Visit, Op
  <1>3. CASE armExtract \/ Stop \/ discardRecording \/ Save \/ LogOut
    BY <1>3, SpentIs DEF armExtract, Stop, discardRecording, Save, LogOut, Op
  <1>4. CASE WithdrawSite \/ resolveRecordingSecrets \/ permissionsContain \/ uploadAuthStates
    BY <1>4, SpentIs DEF WithdrawSite, resolveRecordingSecrets, permissionsContain, uploadAuthStates
  <1>5. CASE finalizeRecording
    BY <1>5, SpentIs DEF finalizeRecording
  <1> QED BY <1>1, <1>2, <1>3, <1>4, <1>5 DEF RecorderNext

\* What is asked of connections follows from what they keep to.
LEMMA ConnectsRight ==
    ASSUME ConnInv
    PROVE  OneTabPerClick /\ DisconnectSticks /\ OlderGivesWay /\ AttemptIsNewer /\ PillIsRecent
  <1>1. OneTabPerClick
    BY DEF ConnInv
  <1>2. DisconnectSticks
    BY DEF ConnInv, Cut, CutOff, Held, DisconnectSticks
  <1>5. OlderGivesWay
    <2>1. held # None => held.by \in Nat
      BY BoundAssumption DEF ConnInv, ConnectionTypeOK, Clicks
    <2>2. past.settled \in Nat
      BY DEF ConnInv, ConnectionTypeOK, Past
    <2> QED BY <2>1, <2>2 DEF ConnInv, Cut, CutOff, Held, OlderGivesWay
  <1>3. AttemptIsNewer
    BY DEF ConnInv, Newest, AttemptIsNewer, Busy, At
  <1>4. PillIsRecent
    <2>1. app.version \in {"unknown", "none", "found"}
      BY DEF ConnInv, ConnectionTypeOK, App
    <2>2. app.version = "unknown" => connectionState = None
      BY DEF connectionState
    <2>3. app.version = "none" => connectionState = "not_connected"
      BY DEF connectionState
    <2> QED BY <2>1, <2>2, <2>3, NonesApart DEF ConnInv, Pill, PillIsRecent
  <1> QED BY <1>1, <1>2, <1>3, <1>4, <1>5

BothInv == ConnInv /\ RecInv

\* The two halves of the extension keep to both.
LEMMA BothKept == BothInv /\ [Next]_vars => BothInv'
  <1> SUFFICES ASSUME BothInv, [Next]_vars PROVE BothInv'
    OBVIOUS
  <1>1. left \in Budget
    BY DEF BothInv, ConnInv, ConnectionTypeOK
  <1>2. CASE ConnectionNext /\ UNCHANGED recVars
    BY <1>2, ConnectionKeeps, ConnectingApart DEF BothInv
  <1>3. CASE Stopping /\ RecorderStops
    BY <1>3, StopsKeep, EndsKeep DEF BothInv
  <1>4. CASE RecorderNext /\ UNCHANGED connVars
    BY <1>1, <1>4, RecorderKeeps, RecordingSpends, RecordingApart DEF BothInv
  <1>5. CASE UNCHANGED vars
    BY <1>1, <1>5, RecordingApart, ConnectingApart DEF BothInv, vars
  <1> QED BY <1>2, <1>3, <1>4, <1>5 DEF Next

(* The browser is connected as the person last asked, whatever popups      *)
(* close, pages load and workers stop; older connects that come late give  *)
(* way, but for a handshake accepted before                                *)
(* (finishConnect, disconnect, acceptHandshake, probeExtension).           *)
THEOREM ConnectedAsAsked == Spec => []ConnectsAsAsked
  <1>1. Init => BothInv
    BY ConnInitHolds, RecInitHolds DEF Init, BothInv
  <1>2. BothInv => ConnectsAsAsked
    BY ConnectsRight, RecTypes DEF BothInv, ConnInv, ConnectsAsAsked, TypeOK
  <1> QED BY <1>1, <1>2, BothKept, PTL DEF Spec

(* Passwords stay on their page, each password Step is bound to the Secret *)
(* chosen for it, and a saved login is not replaced by an empty one while  *)
(* the browser has cookies, unless access goes while they are read,        *)
(* however a save goes wrong (candidatesFor, bindSecretSteps,              *)
(* uploadAuthStates).                                                      *)
THEOREM RecordingsSavedWhole == Spec => []SavedWhole
  <1>1. Init => BothInv
    BY ConnInitHolds, RecInitHolds DEF Init, BothInv
  <1>2. BothInv => SavedWhole
    BY PasswordsAreKept DEF BothInv, RecInv, InSaving, SavedWhole
  <1> QED BY <1>1, <1>2, BothKept, PTL DEF Spec

(* A press is one Step, a navigation is told by its click, but for a click *)
(* that is late or took the place of the last of two, a Step has the role  *)
(* of its own element and a re-pick answers once, in whatever order page,  *)
(* Chrome and worker tell (assembleInteraction, recordNavigation,          *)
(* correlationFor, completeRepick).                                        *)
THEOREM RecordingsAsDone == Spec => []RecordedAsDone
  <1>1. Init => BothInv /\ DoneInv
    BY ConnInitHolds, RecInitHolds, DoneInitHolds DEF Init, BothInv
  <1>2. BothInv /\ DoneInv /\ [Next]_vars => BothInv' /\ DoneInv'
    <2> SUFFICES ASSUME BothInv, DoneInv, [Next]_vars PROVE DoneInv'
      BY BothKept
    <2>1. CASE (ConnectionNext /\ UNCHANGED recVars) \/ UNCHANGED vars
      BY <2>1, ConnectingDone DEF vars
    <2>2. CASE Stopping /\ RecorderStops
      BY <2>2, AsideDone DEF Aside, BothInv
    <2>3. CASE RecorderNext /\ UNCHANGED connVars
      BY <2>3, RecorderDone DEF BothInv
    <2> QED BY <2>1, <2>2, <2>3 DEF Next
  <1>3. DoneInv => RecordedAsDone
    <2>1. Once => OnceEach
      BY DEF Once, OnceIn, OnceEach
    <2> QED BY <2>1 DEF DoneInv, RecordedAsDone, MoveInv, Sessions
  <1> QED BY <1>1, <1>2, <1>3, PTL DEF Spec
=============================================================================

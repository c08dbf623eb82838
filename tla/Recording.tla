----------------------------- MODULE Recording -----------------------------
(***************************************************************************)
(* A recording: the extension's service worker, whose handlers read the    *)
(* stored recording, wait, and write the whole of it back                  *)
(* (service-worker.js); the API's recording session (workflows/            *)
(* recording.py); and the editor page, which renews a lapsed token.        *)
(*                                                                         *)
(* Only recorder events go through recordingQueue; start, stop, detach, a  *)
(* new token, discard and save run beside it.  What a handler will write   *)
(* depends only on what it read, so a task holds the buffer it is going to *)
(* write.  One session, in record mode.                                    *)
(***************************************************************************)
EXTENDS ExtensionBase, Naturals, Sequences, SequencesExt, FiniteSets

CONSTANTS
    MaxEvents,   \* bound: events in the recorded tab
    MaxInputs,   \* bound: those and start, stop, save, discard, detachment
    MaxBusy,     \* bound: handlers at work at once
    MaxTroubles  \* bound: requests that fail, kills of the service worker,
                 \* and tokens that outlive SESSION_LIFETIME

VARIABLES
    local,      \* storage.local[RECORDING_KEY], or None
    recordingQueue,   \* events not begun
    task,       \* [Threads -> a handler between two awaits]
    requests,   \* requests on their way to the API
    session,    \* the RecordingSession row
    draft,      \* the document of the WorkflowDraft a save wrote, or None
    notice,     \* the page has been told that the token expired
    offers,     \* tokens the page minted and has not delivered
    events, asks, troubles

recordingVars == <<local, recordingQueue, task, requests, session, draft, notice, offers,
                   events, asks, troubles>>

Threads == {"queue", "start", "stop", "token", "save"}

(* interact: a click, an input or an extraction; navigate: in the page or  *)
(* by a commit; mark: a navigation that the click before it caused, or a   *)
(* download; visit: visited hosts or the frames' storage are kept.         *)
Event == {"interact", "navigate", "mark", "visit"}

\* A Step is the number of the event it came from; routed: routedAt is set.
Buffer == [state : {"pending", "recording", "ended"}, token : Nat, expired : BOOLEAN,
           steps : Seq(Nat), seq : Nat, routed : BOOLEAN]

\* op: what the handler does after its write.
Task == [pc : {"held", "again", "waiting", "granted", "denied", "end"},
         snap : Buffer,
         op : {"checkpoint", "again", "options", "prepare", "finalize", None}]

Request == [by : Threads \cup {None}, op : {"checkpoint", "options", "prepare", "finalize"},
            token : Nat, seq : Nat, steps : Seq(Nat)]

ASSUME RecordingAssumption == None \notin Threads \cup Buffer \cup Task

RecordingTypeOK ==
    /\ local \in Buffer \cup {None}
    /\ recordingQueue \in Seq([kind : Event, id : Nat])
    /\ task \in [Threads -> Task \cup {None}]
    /\ requests \subseteq Request
    /\ session \in [token : Nat, lapsed : BOOLEAN, finalized : BOOLEAN,
                    seq : Nat, steps : Seq(Nat)]
    /\ draft \in Seq(Nat) \cup {None}
    /\ notice \in BOOLEAN
    /\ offers \subseteq Nat
    /\ {events, asks, troubles} \subseteq Nat

\* The page has minted a session and the extension has accepted it.
RecordingInit ==
    /\ session = [token |-> 1, lapsed |-> FALSE, finalized |-> FALSE, seq |-> 0, steps |-> <<>>]
    /\ local = [state |-> "pending", token |-> 1, expired |-> FALSE, steps |-> <<>>,
                seq |-> 0, routed |-> FALSE]
    /\ recordingQueue = <<>>
    /\ task = [t \in Threads |-> None]
    /\ requests = {}
    /\ draft = None
    /\ notice = FALSE
    /\ offers = {}
    /\ events = 0 /\ asks = 0 /\ troubles = 0

server == <<session, draft>>
page == <<notice, offers>>
bounds == <<events, asks, troubles>>

\* The person at the popup, or Chrome, asks for something.
Ask == events + asks < MaxInputs /\ asks' = asks + 1 /\ UNCHANGED <<events, troubles>>

Mishap == troubles < MaxTroubles /\ troubles' = troubles + 1 /\ UNCHANGED <<events, asks>>

-----------------------------------------------------------------------------
(* Handlers and their requests.                                            *)

Idle(t) == task[t] = None

\* A handler may begin.
Free(t) == Idle(t) /\ Cardinality({u \in Threads : ~Idle(u)}) < MaxBusy

\* Bound: one renewal of the token at a time.
Renewing == offers # {} \/ ~Idle("token")

\* The handler t has read the recording and will write b.
Hold(t, b, op) == task' = [task EXCEPT ![t] = [pc |-> "held", snap |-> b, op |-> op]]

\* The handler t sends op, with the token and the buffer it holds, and waits.
Send(t, b, op) ==
    /\ requests' = requests \cup
          {[by |-> t, op |-> op, token |-> b.token, seq |-> b.seq, steps |-> b.steps]}
    /\ task' = [task EXCEPT ![t] = [pc |-> "waiting", snap |-> b, op |-> op]]

\* Mutant: any answer to finalize counts as saved.
LeftAfterAny(k, a) ==
    CASE k.op = "checkpoint" /\ a # "denied" -> None
      [] k.op = "prepare" /\ a \in {"refused", "failed"} -> None
      [] k.op = "options" /\ a # "denied" -> [k EXCEPT !.pc = "end"]
      [] OTHER -> [k EXCEPT !.pc = IF k.op = "finalize" THEN "granted" ELSE a]

\* What is left to do of the handler k once the answer a has come: nothing when a
\* checkpoint is not denied, or a save does not succeed; a recording that is
\* ending ends, unless it is denied first.
LeftAfter(k, a) ==
    CASE k.op = "checkpoint" /\ a # "denied" -> None
      [] k.op \in {"prepare", "finalize"} /\ a \in {"refused", "failed"} -> None
      [] k.op = "options" /\ a # "denied" -> [k EXCEPT !.pc = "end"]
      [] OTHER -> [k EXCEPT !.pc = a]

Answered(t, a) == task' = [task EXCEPT ![t] = LeftAfter(@, a)]

\* storage.local.set of the whole recording.
Write(t) ==
    /\ ~Idle(t) /\ task[t].pc = "held"
    /\ local' = task[t].snap
    /\ CASE task[t].op = "checkpoint" -> Send(t, task[t].snap, "checkpoint")
         [] task[t].op = "again" ->
              task' = [task EXCEPT ![t].pc = "again"] /\ UNCHANGED requests
         [] OTHER -> task' = [task EXCEPT ![t] = None] /\ UNCHANGED requests
    /\ UNCHANGED <<recordingQueue, server, page, bounds>>

\* fetch throws: the request was lost, or its answer was and it comes late.
Fail(t) ==
    /\ ~Idle(t) /\ task[t].pc = "waiting"
    /\ Mishap
    /\ Answered(t, "failed")
    /\ \E late \in {{}, {[r EXCEPT !.by = None] : r \in {q \in requests : q.by = t}}} :
         requests' = {r \in requests : r.by # t} \cup late
    /\ UNCHANGED <<local, recordingQueue, server, page>>

\* markTokenExpired: a write of what the handler holds, and a broadcast.
Denied(t) ==
    LET b == [task[t].snap EXCEPT !.expired = TRUE] IN
    /\ ~Idle(t) /\ task[t].pc = "denied"
    /\ local' = b
    /\ notice' = TRUE
    /\ task' = [task EXCEPT ![t] =
          IF @.op = "options" THEN [@ EXCEPT !.snap = b, !.pc = "end"] ELSE None]
    /\ UNCHANGED <<recordingQueue, requests, server, offers, bounds>>

\* Chrome kills the service worker: the queue and every handler are gone, a
\* request it has sent may still arrive.
Kill ==
    /\ Mishap
    /\ recordingQueue' = <<>>
    /\ task' = [t \in Threads |-> None]
    /\ requests' = {[r EXCEPT !.by = None] : r \in requests}
    /\ UNCHANGED <<local, server, page>>

-----------------------------------------------------------------------------
(* The recording queue.                                                    *)

\* An event of the tab; interactions are taken only while recording.
Happen(e) ==
    /\ events < MaxEvents /\ events + asks < MaxInputs
    /\ local # None
    /\ e = "interact" => local.state = "recording"
    /\ events' = events + 1
    /\ recordingQueue' = Append(recordingQueue, [kind |-> e, id |-> events + 2])
    /\ UNCHANGED <<local, task, requests, server, page, asks, troubles>>

\* assembleInteraction, recordNavigation, recordRecentClickAsDownload.  so: a
\* click comes soon enough to take the place of the routing it caused; the
\* navigation was routed in the page; the mark is a download, which leaves
\* routedAt.
Assembled(b, e, so) ==
    LET next == [b EXCEPT !.seq = @ + 1, !.routed = FALSE] IN
    CASE e.kind = "interact" ->
           [next EXCEPT !.steps = Append(IF so /\ b.routed THEN Front(@) ELSE @, e.id)]
      [] e.kind = "navigate" -> [next EXCEPT !.steps = Append(@, e.id), !.routed = so]
      [] e.kind = "mark" -> [next EXCEPT !.routed = so /\ b.routed /\ b.state = "recording"]

\* The recording has a tab.
OfThisTab == local # None /\ local.state # "pending"

\* The next event is begun: activeRecording.
Begin ==
    \E so \in BOOLEAN :
      /\ Free("queue")
      /\ recordingQueue # <<>>
      /\ recordingQueue' = Tail(recordingQueue)
      /\ IF ~OfThisTab THEN UNCHANGED task
         ELSE IF Head(recordingQueue).kind = "visit" THEN Hold("queue", local, None)
         ELSE Hold("queue", Assembled(local, Head(recordingQueue), so), "checkpoint")
      /\ UNCHANGED <<local, requests, server, page, bounds>>

-----------------------------------------------------------------------------
(* The popup's buttons, the debugger and the page.                         *)

\* startRecording up to its write; the page it begins on is the first Step.
Start ==
    /\ Ask
    /\ Free("start")
    /\ local # None /\ local.state = "pending"
    /\ Hold("start", [local EXCEPT !.state = "recording", !.steps = <<1>>], "again")
    /\ UNCHANGED <<local, recordingQueue, requests, server, page>>

\* captureOpenFrameStorage at the end of startRecording.
Capture ==
    /\ ~Idle("start") /\ task["start"].pc = "again"
    /\ IF local # None /\ local.state = "recording"
       THEN Hold("start", local, None)
       ELSE task' = [task EXCEPT !["start"] = None]
    /\ UNCHANGED <<local, recordingQueue, requests, server, page, bounds>>

\* stopRecording: captureOpenFrameStorage writes back what it read, ...
StopRecording ==
    /\ Ask
    /\ Free("stop")
    /\ local # None /\ local.state = "recording"
    /\ Hold("stop", local, "again")
    /\ UNCHANGED <<local, recordingQueue, requests, server, page>>

\* ... the recording is read again, and loadAuthChoices asks.
Fresh ==
    LET old == task["stop"].snap
        b == IF local = None THEN old
             ELSE [local EXCEPT !.expired = @ \/ old.expired, !.routed = @ \/ old.routed]
    IN
    /\ ~Idle("stop") /\ task["stop"].pc = "again"
    /\ Send("stop", b, "options")
    /\ UNCHANGED <<local, recordingQueue, server, page, bounds>>

\* endRecordingAfterDetach.  Bound: not while a stop is under way.
Detach ==
    /\ Ask
    /\ Free("stop")
    /\ local # None /\ local.state = "recording"
    /\ Send("stop", local, "options")
    /\ UNCHANGED <<local, recordingQueue, server, page>>

\* The recording ends, whatever the API answered.
End(t) ==
    /\ ~Idle(t)
    /\ task[t].pc = "end"
    /\ local' = [task[t].snap EXCEPT !.state = "ended"]
    /\ task' = [task EXCEPT ![t] = None]
    /\ UNCHANGED <<recordingQueue, requests, server, page, bounds>>

Discard ==
    /\ Ask
    /\ local # None
    /\ local' = None
    /\ UNCHANGED <<recordingQueue, task, requests, server, page>>

\* finalizeRecording: the password Steps are all bound; first the Secrets to
\* create and the logins to upload, if any, ...
SaveRecording ==
    /\ Ask
    /\ Free("save")
    /\ local # None /\ local.state = "ended"
    /\ \E op \in {"prepare", "finalize"} : Send("save", local, op)
    /\ UNCHANGED <<local, recordingQueue, server, page>>

Prepared ==
    /\ ~Idle("save") /\ task["save"].op = "prepare" /\ task["save"].pc = "granted"
    /\ Send("save", task["save"].snap, "finalize")
    /\ UNCHANGED <<local, recordingQueue, server, page, bounds>>

Saved ==
    /\ ~Idle("save") /\ task["save"].op = "finalize" /\ task["save"].pc = "granted"
    /\ local' = None
    /\ task' = [task EXCEPT !["save"] = None]
    /\ UNCHANGED <<recordingQueue, requests, server, page, bounds>>

\* Mutant: an expired token is mentioned only while recording.
ReloadRecording ==
    /\ local # None /\ local.expired /\ local.state = "recording"
    /\ ~notice /\ ~Renewing
    /\ notice' = TRUE
    /\ UNCHANGED <<local, recordingQueue, task, requests, server, offers, bounds>>

\* The bridge of a loading page asks RECORDING_STATUS.
Reload ==
    /\ local # None /\ local.expired
    /\ ~notice /\ ~Renewing
    /\ notice' = TRUE
    /\ UNCHANGED <<local, recordingQueue, task, requests, server, offers, bounds>>

\* RECORDING_TOKEN reaches the service worker.
TokenArrives(k) ==
    /\ k \in offers
    /\ Free("token")
    /\ offers' = offers \ {k}
    /\ IF local = None THEN UNCHANGED task
       ELSE Hold("token", [local EXCEPT !.token = k, !.expired = FALSE],
                 IF local.seq > 0 THEN "checkpoint" ELSE None)
    /\ UNCHANGED <<local, recordingQueue, requests, server, notice, bounds>>

-----------------------------------------------------------------------------
(* The API.                                                                *)

\* The page mints a token for the session it has.
mint_session ==
    /\ notice /\ ~Renewing
    /\ notice' = FALSE
    /\ IF session.finalized THEN UNCHANGED <<session, offers>>
       ELSE /\ session' = [session EXCEPT !.token = @ + 1, !.lapsed = FALSE]
            /\ offers' = offers \cup {session.token + 1}
    /\ UNCHANGED <<local, recordingQueue, task, requests, draft, bounds>>

Lapse ==
    /\ Mishap
    /\ ~session.lapsed
    /\ session' = [session EXCEPT !.lapsed = TRUE]
    /\ UNCHANGED <<local, recordingQueue, task, requests, draft, page>>

\* Mutant: a finalized session still takes requests.
AuthorizedAgain(r) ==
    IF r.token # session.token \/ session.lapsed THEN "denied" ELSE "granted"

authorized_session(r) ==
    IF r.token # session.token \/ session.lapsed THEN "denied"
    ELSE IF session.finalized THEN "refused" ELSE "granted"

\* Mutant: the checkpoint that comes last wins.
SaveAnyCheckpoint(r) == [session EXCEPT !.seq = r.seq, !.steps = r.steps]

save_checkpoint(r) ==
    IF r.seq > session.seq THEN [session EXCEPT !.seq = r.seq, !.steps = r.steps] ELSE session

\* create_recording_secret may find the name taken and finalize_session the
\* document invalid.
AnswersTo(r) ==
    {authorized_session(r)} \cup
    (IF authorized_session(r) = "granted" /\ r.op \in {"prepare", "finalize"}
     THEN {"refused"} ELSE {})

\* A request is handled under the session's row lock and its answer, if someone
\* still waits for it, arrives.
Serve(r) ==
    \E a \in AnswersTo(r) :
      /\ r \in requests
      /\ requests' = requests \ {r}
      /\ IF r.by = None THEN UNCHANGED task ELSE Answered(r.by, a)
      /\ CASE a = "granted" /\ r.op = "checkpoint" ->
                session' = save_checkpoint(r) /\ UNCHANGED draft
           [] a = "granted" /\ r.op = "finalize" ->
                session' = [session EXCEPT !.finalized = TRUE] /\ draft' = r.steps
           [] OTHER -> UNCHANGED server
      /\ UNCHANGED <<local, recordingQueue, page, bounds>>

-----------------------------------------------------------------------------
RecordingNext ==
    \/ \E e \in Event : Happen(e)
    \/ Begin \/ Start \/ Capture \/ StopRecording \/ Fresh \/ Detach
    \/ Discard \/ SaveRecording \/ Prepared \/ Saved
    \/ \E t \in Threads : Write(t) \/ Fail(t) \/ Denied(t) \/ End(t)
    \/ Kill \/ Reload \/ mint_session \/ Lapse
    \/ \E k \in offers : TokenArrives(k)
    \/ \E r \in requests : Serve(r)

RecordingSpec == RecordingInit /\ [][RecordingNext]_recordingVars

(* A handler that has begun goes on, a fetch is answered or fails, and an  *)
(* editor page is open or is opened again, so that an expired token is     *)
(* noticed and renewed.  Nothing is assumed of the person recording, nor   *)
(* of which of them goes first.                                            *)
HandlersGoOn ==
    \/ Begin \/ Capture \/ Fresh \/ Prepared \/ Saved \/ Reload \/ mint_session
    \/ \E t \in Threads : Write(t) \/ Fail(t) \/ Denied(t) \/ End(t)
    \/ \E k \in offers : TokenArrives(k)
    \/ \E r \in requests : r.by # None /\ Serve(r)

FairSpec == RecordingSpec /\ WF_recordingVars(HandlersGoOn)

-----------------------------------------------------------------------------
(* Properties.                                                             *)

(* A finalized session and the Draft it wrote stay: checkpoints that come  *)
(* late, a save retried because its answer was lost and a token renewed    *)
(* too late change nothing (authorized_session, mint_session).             *)
FinalIsFinal ==
    [][session.finalized => draft' = draft /\ [session' EXCEPT !.lapsed = session.lapsed] = session]_recordingVars

(* A recording leaves the extension only by Discard or when the API has    *)
(* saved it (finalizeRecording): not because of a lost answer, an expired  *)
(* token, a refusal or the death of the service worker.                    *)
LeavesSaved ==
    [][local # None /\ local' = None => session.finalized \/ Discard]_recordingVars

(* The buffer on the API is never replaced by an older one, whatever is    *)
(* late or sent twice (save_checkpoint).                                   *)
BufferGoesForward == [][session'.steps # session.steps => session'.seq > session.seq]_recordingVars

(* "the app re-mints against the same session, the extension resumes": an  *)
(* expired token is renewed although a handler that had read the old one   *)
(* writes it back, unless the recording is gone or saved.                  *)
Expired == local # None /\ local.expired /\ ~session.finalized

TokenHeals == Expired ~> ~Expired
=============================================================================

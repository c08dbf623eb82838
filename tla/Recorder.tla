------------------------------ MODULE Recorder ------------------------------
(***************************************************************************)
(* What a recording is made of: the page hands a pending recording to the  *)
(* extension it is connected to, the popup starts it in a tab, the content *)
(* script of that tab (recorder-content.js) reports presses, clicks and    *)
(* typed values, Chrome reports navigations beside it, and the service     *)
(* worker assembles both into Steps, which are bound to Secrets and saved. *)
(*                                                                         *)
(* The reads and writes of the stored recording race in Recording; here    *)
(* each handler is one step, and the order of what reaches the worker, its *)
(* timers and what a Step is put together from are what matters.           *)
(***************************************************************************)
EXTENDS Connection, SequencesExt

CONSTANTS
    Elements,    \* [element -> [is, role, unique]], see Element
    Declared,    \* the Workflow's Variables: [name -> is it secret]
    Names,       \* Variable names a person may give when saving, "" among them
    Known,       \* Secrets the app page told the extension of
    NewSecret,   \* the name a person gives a Secret made when saving
    MaxQueue     \* bound: length of recordingQueue when the person acts

VARIABLES
    rec,         \* storage.local: the recording, or None
    starting,    \* RECORDING_INTENT_KEY and startingRecording
    offer,       \* RECORDING_PENDING on its way, or None
    doc,         \* the document in the recorded tab, with its content script
    down,        \* the mouse button is down: [act, el, moved], or None
    wire,        \* messages of the content script, in order
    navs,        \* navigations Chrome has yet to report, in order
    queue,       \* recordingQueue
    queries,     \* accessibilityQueries
    saving,      \* finalizeRecording between two awaits, or None
    heard,       \* sessions the app page heard REPICK_CANDIDATES of
    vault,       \* names of the Organization's Secrets
    site,        \* Chrome lets the extension see the recorded site's cookies
    cookies,     \* the browser has cookies of that site: the person is logged in
    login,       \* the saved login of that site, see CookiesSeen
    saved,       \* the finalized document, or None
    slow,        \* history: presses held for PRESS_WITHOUT_CLICK_MS
    acts         \* acts of the person in the app page and the recorded tab

tab == <<doc, down, wire, navs, slow>>
assembly == <<queue, queries>>
logins == <<site, cookies, login>>
outside == <<saving, heard, vault, saved, logins>>
recVars == <<rec, starting, offer, tab, assembly, outside, acts>>

(* is: what the element is; role: it has an accessible name of its own;    *)
(* unique: the kinds of selector that find it alone, which are tried in    *)
(* one order; "text" of an input is its value.                             *)
Kinds == {"testid", "placeholder", "label", "aria", "alt", "text", "title", "css"}
Element == [is : {"button", "field", "password", "frame"}, role : BOOLEAN, unique : SUBSET Kinds]

ASSUME PageAssumption == Elements \in [DOMAIN Elements -> Element] /\ None \notin DOMAIN Elements
ASSUME VariableAssumption == Declared \in [DOMAIN Declared -> BOOLEAN]

\* gone: elements the page took away; seen: elements in the order they were numbered;
\* by: the act that moved the page once, or 0.
Document == [load |-> 1, url |-> 0, installed |-> FALSE, press |-> None, armed |-> FALSE,
             gone |-> {}, seen |-> <<>>, warned |-> {}, by |-> 0]

\* What the content script says, what Chrome says, and what is made of both.
Told == [type : {"ax", "click", "type", "extract"}, load : Nat, key : Nat \X Nat, el : DOMAIN Elements,
         act : Nat, cands : SUBSET Kinds, value : {"", "typed"}, secret : BOOLEAN]
\* again: the act had moved the page before.
Navigation == [act : Nat, routed : BOOLEAN, link : BOOLEAN, load : Nat, again : BOOLEAN]
Step == [type : {"navigate", "click", "type", "extract", "download"}, act : Nat, on : DOMAIN Elements \cup {None},
         cands : SUBSET (Kinds \cup {"role"}), role : DOMAIN Elements \cup {None}, value : {"", "typed"},
         asserted : BOOLEAN, secret : BOOLEAN, late : BOOLEAN, again : BOOLEAN]
Mode == {"record", "repick"}
Record == [mode : Mode, session : Nat, state : {"pending", "recording", "ended"}, steps : Seq(Step),
           routed : BOOLEAN, recent : Nat, logins : BOOLEAN]
ASSUME RecordAssumption == None \notin Record

Page == [load : Nat, url : Nat, installed : BOOLEAN, press : [event : Told, url : Nat] \cup {None},
         armed : BOOLEAN, gone : SUBSET DOMAIN Elements, seen : Seq(DOMAIN Elements),
         warned : SUBSET DOMAIN Elements, by : Nat]
Queued == Told \cup [type : {"nav"}, nav : Navigation] \cup [type : {"download"}]

RecorderTypeOK ==
    /\ rec \in Record \cup {None}
    /\ starting \in {None, "told", "asked", "taken"}
    /\ offer \in [mode : Mode, session : Nat] \cup {None}
    /\ doc \in Page
    /\ down \in [act : Nat, el : DOMAIN Elements, moved : BOOLEAN] \cup {None}
    /\ wire \in Seq(Told) /\ navs \in Seq(Navigation)
    /\ queue \in Seq(Queued)
    /\ queries \subseteq [key : Nat \X Nat, answer : {"asked", "none"} \cup DOMAIN Elements]
    /\ \A p, q \in queries : p.key = q.key => p = q
    /\ heard \in Seq(Nat) /\ slow \subseteq Nat /\ acts \in Nat
    /\ vault \subseteq Known \cup {NewSecret}
    /\ site \in BOOLEAN /\ cookies \in BOOLEAN /\ login \in {"kept", "captured", "bare", "raced", "empty"}

RecorderInit ==
    /\ rec = None /\ starting = None /\ offer = None
    /\ doc = Document /\ down = None /\ wire = <<>> /\ navs = <<>> /\ slow = {} /\ acts = 0
    /\ queue = <<>> /\ queries = {}
    /\ saving = None /\ heard = <<>> /\ vault = Known /\ saved = None
    /\ site = FALSE /\ cookies = TRUE /\ login = "kept"
-----------------------------------------------------------------------------
(* Pending, started.                                                       *)

\* The editor hands a session over, by the bridge of its page.
Offer(mode) ==
    /\ Act("record") /\ offer = None /\ saved = None
    /\ acts' = acts + 1
    /\ offer' = [mode |-> mode, session |-> acts + 1]
    /\ UNCHANGED <<rec, starting, tab, assembly, outside>>

\* readPendingRecording: what the extension keeps of the offer.
readPendingRecording ==
    [mode |-> offer.mode, session |-> offer.session, state |-> "pending",
     steps |-> <<>>, routed |-> FALSE, recent |-> 0, logins |-> FALSE]

acceptRecordingPageMessage ==
    /\ offer # None
    /\ offer' = None
    /\ rec' = IF app.bridge /\ ConnectedTo(Home) /\ (rec = None \/ rec.state = "pending")
              THEN readPendingRecording
              ELSE rec
    /\ UNCHANGED <<starting, tab, assembly, outside, acts>>

\* The popup's Start: announced, allowed by Chrome and taken as a connect is.
startPendingRecording ==
    /\ rec # None /\ rec.state = "pending" /\ starting = None
    /\ starting' = "told"
    /\ UNCHANGED <<rec, offer, tab, assembly, outside, acts>>

announceRecordingStart ==
    /\ starting = "told"
    /\ starting' = "asked"
    /\ UNCHANGED <<rec, offer, tab, assembly, outside, acts>>

takeRecordingIntent ==
    /\ starting = "asked"
    /\ starting' = "taken"
    /\ UNCHANGED <<rec, offer, tab, assembly, outside, acts>>

NavigateStep(act, again) ==
    [type |-> "navigate", act |-> act, on |-> None, cands |-> {}, role |-> None, value |-> "",
     asserted |-> FALSE, secret |-> FALSE, late |-> FALSE, again |-> again]

\* startRecording: only for the instance that is connected; the page it begins
\* on is the first Step, and injectRecorder enters it.
startRecording ==
    /\ starting = "taken"
    /\ starting' = None
    /\ IF rec # None /\ rec.state = "pending" /\ ConnectedTo(Home)
       THEN /\ rec' = [rec EXCEPT !.state = "recording",
                                  !.steps = IF rec.mode = "record" THEN <<NavigateStep(0, FALSE)>> ELSE @]
            /\ doc' = [doc EXCEPT !.installed = TRUE]
       ELSE UNCHANGED <<rec, doc>>
    /\ UNCHANGED <<offer, down, wire, navs, slow, assembly, outside, acts>>
-----------------------------------------------------------------------------
(* The content script.                                                     *)

\* Mutant: the text of an input is its value, whatever its type.
candidatesWithValue(el) == Elements[el].unique

\* candidatesFor: the kinds of selector that find the element alone.  The value of a password is never its text.
candidatesFor(el) ==
    {k \in Elements[el].unique : k = "text" => Elements[el].is # "password"}

\* correlationFor: elements are numbered as they are met, in one page load.
Met(d, el) == IF el \in Range(d.seen) THEN d ELSE [d EXCEPT !.seen = Append(@, el)]
Number(d, el) == CHOOSE n \in DOMAIN Met(d, el).seen : Met(d, el).seen[n] = el

\* Mutant: numbers alone.
KeyByNumber(d, el) == <<0, Number(d, el)>>

Key(d, el) == <<d.load, Number(d, el)>>

Message(type, d, el, act) ==
    [type |-> type, load |-> d.load, key |-> Key(d, el), el |-> el, act |-> act,
     cands |-> IF type = "ax" THEN {} ELSE candidatesFor(el),
     value |-> IF type = "type" /\ Elements[el].is = "field" THEN "typed" ELSE "",
     secret |-> type = "type" /\ Elements[el].is = "password"]

There(el) == doc.installed /\ el \notin doc.gone

\* The page routes without loading: onHistoryStateUpdated.
Routed(act, d) == [act |-> act, routed |-> TRUE, link |-> TRUE, load |-> d.load, again |-> FALSE]
\* The tab loads another page: onCommitted.
Committed(act, link) ==
    [act |-> act, routed |-> FALSE, link |-> link, load |-> doc.load + 1, again |-> FALSE]

NewPage == [Document EXCEPT !.load = doc.load + 1]

\* What an act sent reaches the worker before the person acts again, which is a
\* matter of milliseconds; what the worker makes of it may take seconds.
Room == wire = <<>> /\ navs = <<>> /\ Len(queue) < MaxQueue

\* pointerdown: the element is described now, for a control that acts on the
\* press: the page may route, and the element may be gone with it.
Press(el, effect) ==
    LET d == Met(doc, el)
        pressed == [d EXCEPT !.press = [event |-> Message("click", doc, el, acts + 1), url |-> d.url]]
    IN
    /\ Act("press") /\ Room
    /\ There(el) /\ Elements[el].is # "frame" /\ down = None
    /\ Elements[el].is # "button" => effect = "none"
    /\ acts' = acts + 1
    /\ down' = [act |-> acts + 1, el |-> el, moved |-> effect # "none"]
    /\ wire' = Append(wire, Message("ax", doc, el, acts + 1))
    /\ doc' = CASE effect = "none" -> pressed
                [] effect = "route" -> [pressed EXCEPT !.url = @ + 1, !.by = acts + 1]
                [] effect = "replace" -> [pressed EXCEPT !.url = @ + 1, !.by = acts + 1, !.gone = @ \cup {el}]
    /\ navs' = IF effect = "none" THEN navs ELSE Append(navs, Routed(acts + 1, doc))
    /\ UNCHANGED <<rec, starting, offer, slow, assembly, outside>>

\* PRESS_WITHOUT_CLICK_MS: a press that did something and became no click.
PressTimer ==
    /\ doc.press # None
    /\ doc' = [doc EXCEPT !.press = None]
    /\ wire' = IF doc.press.url # doc.url \/ doc.press.event.el \in doc.gone
               THEN Append(wire, doc.press.event) ELSE wire
    /\ slow' = IF down = None THEN slow ELSE slow \cup {down.act}
    /\ UNCHANGED <<rec, starting, offer, down, navs, assembly, outside, acts>>

\* Mutant: a click leaves the press to its timer.
ClickedKeepsPress(d) == [Met(d, down.el) EXCEPT !.armed = FALSE]

\* A click is heard: the press became it, and an armed extraction is used up.
Clicked(d) == [Met(d, down.el) EXCEPT !.press = None, !.armed = FALSE]

(* The release: a click, if the element is still there, after which the    *)
(* page may route, be left or start a download.  An extraction swallows    *)
(* the click.                                                              *)
Release(effect) ==
    /\ down # None
    /\ down' = None
    /\ IF ~There(down.el)
       THEN effect = "none" /\ UNCHANGED <<doc, wire, navs, queue>>
       ELSE /\ doc.armed \/ down.moved \/ Elements[down.el].is # "button" => effect = "none"
            /\ wire' = Append(wire, Message(IF doc.armed THEN "extract" ELSE "click", doc, down.el, down.act))
            /\ doc' = CASE effect = "route" ->
                             [Clicked(doc) EXCEPT !.url = @ + 1, !.by = down.act, !.gone = @ \cup {down.el}]
                        [] effect = "load" -> [NewPage EXCEPT !.by = down.act]
                        [] OTHER -> Clicked(doc)
            /\ navs' = CASE effect = "route" -> Append(navs, Routed(down.act, doc))
                         [] effect = "load" -> Append(navs, Committed(down.act, TRUE))
                         [] OTHER -> navs
            /\ queue' = IF effect = "download" THEN Append(queue, [type |-> "download"]) ELSE queue
    /\ UNCHANGED <<rec, starting, offer, slow, queries, outside, acts>>

(* What the act set off moves the page once more: a router that redirects, *)
(* a link that opens after the page has routed.  (An act moves the page    *)
(* twice at most, and before the person acts again: a bound.)              *)
Reroute(effect) ==
    /\ "redirect" \in left.ops
    /\ doc.by # 0 /\ doc.by = acts /\ navs = <<>>
    /\ \/ /\ effect = "route"
          /\ doc' = [doc EXCEPT !.url = @ + 1, !.by = 0]
          /\ navs' = <<[Routed(doc.by, doc) EXCEPT !.again = TRUE]>>
          /\ UNCHANGED down
       \/ /\ effect = "load"
          /\ doc' = NewPage /\ down' = None
          /\ navs' = <<[Committed(doc.by, TRUE) EXCEPT !.again = TRUE]>>
    /\ UNCHANGED <<rec, starting, offer, wire, slow, assembly, outside, acts>>

\* focusin of a field, and change if something was typed: a password's value
\* stays in the page.
Change(el, typed) ==
    /\ Act("type") /\ Room
    /\ There(el) /\ Elements[el].is \in {"field", "password"}
    /\ acts' = acts + 1
    /\ doc' = Met(doc, el)
    /\ wire' = <<Message("ax", doc, el, acts + 1)>>
               \o (IF typed THEN <<Message("type", doc, el, acts + 1)>> ELSE <<>>)
    /\ UNCHANGED <<rec, starting, offer, down, navs, slow, assembly, outside>>

\* An unreachable frame has the focus: a click, said once, that nobody asked the
\* role of.
WatchFrames(el) ==
    /\ Act("move") /\ Room
    /\ There(el) /\ Elements[el].is = "frame" /\ el \notin doc.warned
    /\ acts' = acts + 1
    /\ doc' = [Met(doc, el) EXCEPT !.warned = @ \cup {el}]
    /\ wire' = Append(wire, Message("click", doc, el, acts + 1))
    /\ UNCHANGED <<rec, starting, offer, down, navs, slow, assembly, outside>>

Armed(d) == [d EXCEPT !.armed = TRUE]

\* armExtract reaches the content script of the page of the moment.
armExtract ==
    /\ Act("record") /\ rec # None /\ rec.state = "recording"
    /\ doc.installed /\ ~doc.armed
    /\ doc' = Armed(doc)
    /\ UNCHANGED <<rec, starting, offer, down, wire, navs, slow, assembly, outside, acts>>

\* The person goes to another page by hand.
Visit ==
    /\ Act("move") /\ Room /\ doc.installed
    /\ acts' = acts + 1
    /\ doc' = NewPage /\ down' = None
    /\ navs' = Append(navs, Committed(acts + 1, FALSE))
    /\ UNCHANGED <<rec, starting, offer, wire, slow, assembly, outside>>
-----------------------------------------------------------------------------
(* The service worker.                                                     *)

\* Mutant: an earlier question is kept beside it.
AskedAlso(key) == queries \cup {[key |-> key, answer |-> "asked"]}

Asked(key) == {q \in queries : q.key # key} \cup {[key |-> key, answer |-> "asked"]}

\* acceptRecorderMessage.
acceptRecorderMessage ==
    LET msg == Head(wire) IN
    /\ wire # <<>>
    /\ wire' = Tail(wire)
    /\ IF rec = None \/ rec.state # "recording" THEN UNCHANGED assembly
       ELSE IF msg.type = "ax" THEN queries' = Asked(msg.key) /\ UNCHANGED queue
       ELSE queue' = Append(queue, msg) /\ UNCHANGED queries
    /\ UNCHANGED <<rec, starting, offer, doc, down, navs, slow, outside, acts>>

\* queryAccessibility finds the element by its number in the page of the moment.
Found(key) ==
    IF key[1] \in {0, doc.load} /\ key[2] \in DOMAIN doc.seen /\ doc.seen[key[2]] \notin doc.gone
    THEN doc.seen[key[2]] ELSE None

queryAccessibility(q) ==
    LET el == Found(q.key) IN
    /\ q \in queries /\ q.answer = "asked"
    /\ queries' = (queries \ {q}) \cup
         {[q EXCEPT !.answer = IF el # None /\ Elements[el].role THEN el ELSE "none"]}
    /\ UNCHANGED <<rec, starting, offer, tab, queue, outside, acts>>

\* A navigation is reported; a commit follows all that its page had sent.
NavArrives ==
    /\ navs # <<>>
    /\ ~Head(navs).routed => \A k \in DOMAIN wire : wire[k].load >= Head(navs).load
    /\ navs' = Tail(navs)
    /\ queue' = Append(queue, [type |-> "nav", nav |-> Head(navs)])
    /\ UNCHANGED <<rec, starting, offer, doc, down, wire, slow, queries, outside, acts>>

\* The prefetched role, which comes behind a testid and before all others.
WithRole(cands, role) == IF role = None THEN cands ELSE cands \cup {"role"}

\* Mutant: routing that was reported first keeps its Step.
Unclaimed(r, msg, soon) == r.steps

\* A click takes the place of the routing it caused, within ROUTED_CLAIM_MS.
Claims(r, msg, soon) ==
    msg.type = "click" /\ r.routed /\ soon /\ r.steps # <<>> /\ Last(r.steps).type = "navigate"
Claimed(r, msg, soon) == IF Claims(r, msg, soon) THEN Front(r.steps) ELSE r.steps

\* assembleInteraction: a query that has not answered within AX_WAIT_MS is dropped.
assembleInteraction(msg, soon) ==
    LET answers == {q.answer : q \in {p \in queries : p.key = msg.key}} \ {"asked", "none"}
        role == IF answers = {} THEN None ELSE CHOOSE el \in answers : TRUE
        step == [type |-> msg.type, act |-> msg.act, on |-> msg.el,
                 cands |-> WithRole(msg.cands, role), role |-> role, value |-> msg.value,
                 asserted |-> Claims(rec, msg, soon), secret |-> msg.secret, late |-> ~soon,
                 again |-> Claims(rec, msg, soon) /\ Last(rec.steps).again]
        steps == Append(Claimed(rec, msg, soon), step)
    IN  [rec EXCEPT !.steps = steps, !.routed = FALSE,
                    !.recent = IF msg.type = "click" THEN Len(steps) ELSE @]

\* recordNavigation: the click before it, or a Step of its own.
recordNavigation(nav) ==
    IF rec.steps # <<>> /\ Last(rec.steps).type = "click" /\ nav.link
    THEN [rec EXCEPT !.steps[Len(rec.steps)].asserted = TRUE, !.routed = FALSE]
    ELSE [rec EXCEPT !.steps = Append(@, NavigateStep(nav.act, nav.again)), !.routed = nav.routed]

\* recordRecentClickAsDownload, within DOWNLOAD_WINDOW_MS; a click that a later
\* one replaced is not found.
recordDownload(soon) ==
    IF /\ rec.state = "recording" /\ rec.recent \in DOMAIN rec.steps /\ soon
       /\ rec.steps[rec.recent].type = "click"
    THEN [rec EXCEPT !.steps[rec.recent] = [@ EXCEPT !.type = "download", !.asserted = FALSE],
                     !.recent = 0]
    ELSE rec

\* injectRecorder enters the page that is there.
Entered(nav) == IF nav.load = doc.load THEN [doc EXCEPT !.installed = TRUE] ELSE doc

\* The bridge of the app page passes it on to the page.
pageHears(session) == IF app.bridge THEN Append(heard, session) ELSE heard

\* broadcastRecording: to the pages of the instance that is connected.
broadcastRecording(session) == IF ConnectedTo(Home) THEN pageHears(session) ELSE heard

\* Mutant: the recording stays, to be stopped by hand.
RepickGoesOn ==
    /\ heard' = broadcastRecording(rec.session)
    /\ UNCHANGED <<rec, doc, queries>>

\* completeRepick: the candidates are broadcast, and the recording is over.
completeRepick ==
    /\ heard' = broadcastRecording(rec.session)
    /\ rec' = None /\ queries' = {}
    /\ UNCHANGED doc

\* The next event of recordingQueue.  soon: it is handled in time.
Work(soon) ==
    LET w == Head(queue)
        live == rec # None /\ rec.state # "pending"
        rest == IF w.type \in {"nav", "download"} THEN queries ELSE {q \in queries : q.key # w.key}
    IN
    /\ queue # <<>>
    /\ queue' = Tail(queue)
    /\ CASE ~live -> UNCHANGED <<rec, doc, heard, queries>>
         [] live /\ w.type = "nav" ->
              /\ rec' = IF rec.mode = "repick" THEN rec ELSE recordNavigation(w.nav)
              /\ doc' = Entered(w.nav)
              /\ UNCHANGED <<heard, queries>>
         [] live /\ w.type = "download" -> rec' = recordDownload(soon) /\ UNCHANGED <<doc, heard, queries>>
         [] live /\ w.type \notin {"nav", "download"} /\ rec.mode = "repick" -> completeRepick
         [] OTHER -> /\ rec' = assembleInteraction(w, soon)
                     /\ queries' = rest
                     /\ UNCHANGED <<doc, heard>>
    /\ UNCHANGED <<starting, offer, down, wire, navs, slow, saving, vault, saved, logins, acts>>

\* loadAuthChoices: the instance is asked which sites' logins may be saved; no
\* answer is no choice.
loadAuthChoices == BOOLEAN

\* stopRecording, endRecordingAfterDetach: a re-pick is dropped.
Stop ==
    \E choice \in loadAuthChoices :
      /\ Act("save") /\ rec # None /\ rec.state = "recording"
      /\ rec' = IF rec.mode = "repick" THEN None ELSE [rec EXCEPT !.state = "ended", !.logins = choice]
      /\ queries' = {}
      /\ UNCHANGED <<starting, offer, tab, queue, outside, acts>>

discardRecording ==
    /\ Act("save") /\ rec # None /\ rec.state = "ended"
    /\ rec' = None /\ queries' = {}
    /\ UNCHANGED <<starting, offer, tab, queue, outside, acts>>

\* The worker is stopped: what it had in memory is lost, the recording is not.
RecorderStops ==
    /\ queue' = <<>> /\ queries' = {} /\ saving' = None
    /\ starting' = IF starting = "taken" THEN None ELSE starting
    /\ UNCHANGED <<rec, offer, tab, heard, vault, saved, logins, acts>>
-----------------------------------------------------------------------------
(* Saving.                                                                 *)

NeedsSecret(steps) == {i \in DOMAIN steps : steps[i].secret}
Binding == [name : Names, secret : Known \cup {None, NewSecret}]

\* The popup sends what was chosen for every password Step; for a login it has
\* Chrome ask for its site first, and sends nothing when that is refused.
Save ==
    /\ Act("save") /\ saving = None
    /\ rec # None /\ rec.state = "ended"
    /\ \E bindings \in [NeedsSecret(rec.steps) -> Binding], checked \in BOOLEAN :
         /\ checked => rec.logins
         /\ saving' = [steps |-> rec.steps, bindings |-> bindings, made |-> {}, raced |-> FALSE,
                       upload |-> IF checked THEN "chosen" ELSE "none"]
         /\ site' = (site \/ checked)
    /\ UNCHANGED <<rec, starting, offer, tab, assembly, heard, vault, saved, cookies, login, acts>>

\* The person logs out of the recorded site, in any tab.
LogOut ==
    /\ Act("save") /\ rec # None /\ rec.state = "ended" /\ rec.logins /\ cookies
    /\ cookies' = FALSE
    /\ UNCHANGED <<rec, starting, offer, tab, assembly, heard, saving, vault, saved, site, login, acts>>

\* The site is withdrawn in Chrome, before the worker has looked or behind it.
WithdrawSite ==
    /\ Trouble /\ site /\ saving # None
    /\ site' = FALSE
    /\ saving' = [saving EXCEPT !.raced = @ \/ saving.upload = "permitted"]
    /\ UNCHANGED <<rec, starting, offer, tab, assembly, heard, vault, saved, cookies, login, acts>>

ToMake == {i \in DOMAIN saving.bindings : saving.bindings[i].secret = NewSecret} \ saving.made

\* resolveRecordingSecrets: one after the other; a name may be taken, and an
\* answer may be lost after the Secret was made.
resolveRecordingSecrets ==
    /\ saving # None /\ ToMake # {}
    /\ LET i == CHOOSE n \in ToMake : \A m \in ToMake : n <= m IN
       \/ /\ NewSecret \notin vault
          /\ vault' = vault \cup {NewSecret}
          /\ saving' = [saving EXCEPT !.made = @ \cup {i}]
          /\ UNCHANGED left
       \/ /\ NewSecret \in vault
          /\ saving' = None
          /\ UNCHANGED <<vault, left>>
       \/ /\ Trouble
          /\ saving' = None
          /\ \/ vault' = vault \cup {NewSecret}
             \/ UNCHANGED vault
    /\ UNCHANGED <<rec, starting, offer, tab, assembly, heard, saved, logins, acts>>

\* Mutant: the second binding of a Variable wins.
LastBindingWins(b) ==
    \A i \in DOMAIN b :
      /\ b[i].name # "" /\ b[i].secret # None
      /\ b[i].name \in DOMAIN Declared => Declared[b[i].name]

\* What bindSecretSteps refuses: a Step without Variable or Secret, a plain
\* Variable, and two Secrets for one Variable.
Binds(b) ==
    \A i \in DOMAIN b :
      /\ b[i].name # "" /\ b[i].secret # None
      /\ b[i].name \in DOMAIN Declared => Declared[b[i].name]
      /\ \A j \in DOMAIN b : b[j].name = b[i].name => b[j].secret = b[i].secret

Given(b) == {b[i].name : i \in DOMAIN b}
LastFor(b, name) == b[CHOOSE i \in DOMAIN b : b[i].name = name /\ \A j \in DOMAIN b : b[j].name = name => j <= i]

bindSecretSteps(steps, b) ==
    [steps |-> [i \in DOMAIN steps |->
                  IF steps[i].secret THEN [steps[i] EXCEPT !.value = b[i].name] ELSE steps[i]],
     variables |-> [name \in DOMAIN Declared \cup Given(b) |->
                      IF name \in Given(b) THEN [secret |-> TRUE, is |-> LastFor(b, name).secret]
                      ELSE [secret |-> Declared[name], is |-> None]],
     chosen |-> b]

Bound == saving # None /\ ToMake = {} /\ Binds(saving.bindings)

\* Mutant: the cookies are asked for whether Chrome shows them or not.
UploadsAnyway ==
    /\ Bound /\ saving.upload = "chosen"
    /\ saving' = [saving EXCEPT !.upload = "permitted"]
    /\ UNCHANGED <<rec, starting, offer, tab, assembly, heard, vault, saved, logins, acts, left>>

\* uploadAuthStates asks first: without the site Chrome answers with no cookies, so
\* nothing is sent.
permissionsContain ==
    /\ Bound /\ saving.upload = "chosen"
    /\ saving' = IF site THEN [saving EXCEPT !.upload = "permitted"] ELSE None
    /\ UNCHANGED <<rec, starting, offer, tab, assembly, heard, vault, saved, logins, acts, left>>

\* The cookies Chrome shows, none among them: "bare" when the browser has none, "raced"
\* when the site was withdrawn since the worker looked, "empty" for no such reason.
CookiesSeen ==
    CASE ~cookies -> "bare"
      [] cookies /\ site -> "captured"
      [] cookies /\ ~site /\ saving.raced -> "raced"
      [] OTHER -> "empty"

\* Whatever Chrome shows is sent and stored; refused or lost, the save ends and the
\* recording stays.
uploadAuthStates ==
    /\ Bound /\ saving.upload = "permitted"
    /\ \/ login' = CookiesSeen /\ saving' = [saving EXCEPT !.upload = "none"]
          /\ UNCHANGED left
       \/ /\ saved # None
          /\ saving' = None
          /\ UNCHANGED <<login, left>>
       \/ /\ Trouble
          /\ saving' = None
          /\ login' \in {login, CookiesSeen}
    /\ UNCHANGED <<rec, starting, offer, tab, assembly, heard, vault, saved, site, cookies, acts>>

\* The finalize call: refused, or its answer lost, nothing of the recording is
\* given up.
finalizeRecording ==
    /\ saving # None /\ ToMake = {} /\ (Binds(saving.bindings) => saving.upload = "none")
    /\ saving' = None
    /\ IF ~Binds(saving.bindings) THEN UNCHANGED <<saved, rec, left>>
       ELSE \/ /\ saved = None
               /\ saved' = bindSecretSteps(saving.steps, saving.bindings)
               /\ rec' = None
               /\ UNCHANGED left
            \/ /\ Trouble
               /\ UNCHANGED rec
               /\ \/ saved' = IF saved = None THEN bindSecretSteps(saving.steps, saving.bindings) ELSE saved
                  \/ UNCHANGED saved
            \/ saved # None /\ UNCHANGED <<saved, rec, left>>
    /\ UNCHANGED <<starting, offer, tab, assembly, heard, vault, logins, acts>>
-----------------------------------------------------------------------------
Tabbing == \/ \E el \in DOMAIN Elements, effect \in {"none", "route", "replace"} : Press(el, effect)
           \/ \E el \in DOMAIN Elements, typed \in BOOLEAN : Change(el, typed)
           \/ \E el \in DOMAIN Elements : WatchFrames(el)
           \/ Visit
Releasing == \/ \E effect \in {"none", "route", "load", "download"} : Release(effect)
             \/ \E effect \in {"route", "load"} : Reroute(effect)
Starting == \/ acceptRecordingPageMessage
            \/ startPendingRecording \/ announceRecordingStart \/ takeRecordingIntent \/ startRecording
Assembling == \/ acceptRecorderMessage \/ NavArrives
              \/ \E q \in queries : queryAccessibility(q)
              \/ \E soon \in BOOLEAN : Work(soon)

RecorderNext ==
    \/ \E mode \in {"record", "repick"} : Offer(mode)
    \/ Tabbing \/ armExtract \/ Stop \/ discardRecording \/ Save
    \/ LogOut \/ WithdrawSite
    \/ resolveRecordingSecrets \/ permissionsContain \/ uploadAuthStates \/ finalizeRecording
    \/ (Starting \/ Releasing \/ PressTimer \/ Assembling) /\ UNCHANGED left
-----------------------------------------------------------------------------
(* Properties.                                                             *)

Recorded == IF rec = None THEN <<>> ELSE rec.steps
Mute(m) == m.value = "" /\ "text" \notin m.cands

(* The value of a password never leaves its page: not as what was typed,   *)
(* and not as the text an input is found by, in a message or a recorded    *)
(* Step (candidatesFor, the change listener).                              *)
PasswordsStay ==
    /\ \A k \in DOMAIN wire : Elements[wire[k].el].is = "password" => Mute(wire[k])
    /\ \A i \in DOMAIN Recorded :
         Recorded[i].on # None /\ Elements[Recorded[i].on].is = "password" => Mute(Recorded[i])

(* A press is one Step, whether the page hears it as a click, takes the    *)
(* element away under it, or both in either order: the timer of a press    *)
(* and its click never both tell, unless it was held longer than the timer *)
(* (PRESS_WITHOUT_CLICK_MS).                                               *)
OnceEach ==
    \A i, j \in DOMAIN Recorded :
      i # j /\ Recorded[i].type = "click" /\ Recorded[j].type = "click" /\ Recorded[i].act = Recorded[j].act
        => Recorded[i].act \in slow

(* A navigation that a click caused is told by the click, not by a Step    *)
(* beside it, in whichever order Chrome and the page report the two        *)
(* (recordNavigation, ROUTED_CLAIM_MS), unless the click is handled late,  *)
(* or had moved the page twice before it was handled: it takes the place   *)
(* of the last routing alone, and the first stays as a Step before it.     *)
NavigatesOnce ==
    \A i \in DOMAIN Recorded \ {1} :
      LET a == Recorded[i - 1]
          b == Recorded[i]
      IN  {a.type, b.type} = {"click", "navigate"} /\ a.act = b.act
            => a.late \/ b.late \/ (b.type = "click" /\ b.asserted /\ b.again)

(* A Step is given the role of its own element, though roles are asked for *)
(* ahead, answered in any order, and answers of an earlier page are left   *)
(* in accessibilityQueries (correlationFor, pageLoad).                     *)
OwnRole == \A i \in DOMAIN Recorded : Recorded[i].role \in {None, Recorded[i].on}

(* A re-pick answers once: interactions queued behind the one that was     *)
(* picked are dropped (completeRepick).                                    *)
OneAnswer == \A i, j \in DOMAIN heard : heard[i] = heard[j] => i = j

(* Every password Step of a saved recording uses a secret Variable that    *)
(* holds the Secret chosen for that Step, the Secret exists, and no plain  *)
(* Variable of the Workflow has become secret or been dropped, though a    *)
(* save may be refused half-way and tried again (resolveRecordingSecrets,  *)
(* bindSecretSteps).                                                       *)
SavedBinds ==
    saved # None =>
      /\ \A i \in DOMAIN saved.steps : saved.steps[i].secret =>
           LET v == saved.variables[saved.steps[i].value] IN v.secret /\ v.is \in vault /\ v.is = saved.chosen[i].secret
      /\ \A name \in DOMAIN Declared : ~Declared[name] => ~saved.variables[name].secret

(* A saved login is not replaced by one without cookies while the browser  *)
(* has cookies of its site, though access to the site may be gone by the   *)
(* time the worker is at it (uploadAuthStates), unless it goes in the      *)
(* moment between the worker's look and the reading of the cookies.        *)
LoginKept == login # "empty"
=============================================================================

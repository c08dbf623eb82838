----------------------------- MODULE Connection -----------------------------
(***************************************************************************)
(* How the extension is connected to an instance: the popup, the service   *)
(* worker, the connect page it opens and hands a nonce to, the connect     *)
(* code that replaces the page, and the pill of an app page, which probes. *)
(*                                                                         *)
(* Chrome's prompt may close the popup that caused it, so the popup        *)
(* announces what it is about to do, and the permission event finishes it; *)
(* a popup that survives asks for the same.  Handlers of the worker        *)
(* interleave at every await, and the worker may be stopped at any; what   *)
(* is in storage.session and storage.local stays.  Nonces and tabs are     *)
(* named by the click they were made for.                                  *)
(***************************************************************************)
EXTENDS ExtensionBase, Naturals, Sequences, FiniteSets, Functions

CONSTANTS
    Origins,      \* instances a person may connect to
    Home,         \* the instance of the app page
    Addresses,    \* what a person may type: [form, host]
    Version,      \* VERSION of the extension, a sequence of numbers
    Minimum,      \* minimum_supported of the instance
    MaxClicks,    \* bound: clicks on Connect
    Budgets       \* bounds of a behaviour, one of these: see Budget

VARIABLES
    held,         \* storage.local: the connection
    attempt,      \* storage.session: the connect page that was opened
    intent,       \* storage.session: the connect that was announced
    finish,       \* finishing: the one connect being performed
    shakes,       \* handshakes sent by a bridge, and their handlers
    parting,      \* disconnect, between two awaits
    leaving,      \* origins whose access is being given back
    popup,        \* the popup, or None
    announcing,   \* "about-to-connect" on its way, or None
    prompt,       \* the origin Chrome asks about, or None
    access,       \* origins the extension may work on
    tabs,         \* [click -> the connect page opened for it, or None]
    app,          \* the app page's probes
    code,         \* the connect code shown by the app
    clicks,       \* clicks on Connect so far
    past,         \* history: what the properties ask about
    left          \* what is left of the behaviour's budget

worker == <<finish, shakes, parting, leaving>>
storage == <<held, attempt, intent>>
desk == <<popup, announcing, prompt, access>>
pages == <<tabs, app, code>>
connVars == <<storage, worker, desk, pages, clicks, past>>

Clicks == 1 .. MaxClicks

(* ops: what may happen; acts: how many acts of a person; troubles: how    *)
(* often the worker is stopped, an answer lost or something left too long. *)
Op == {"connect", "elsewhere", "disconnect", "tab", "close", "focus", "app", "code",
       "record", "press", "redirect", "type", "move", "save"}
Budget == [ops : SUBSET Op, acts : Nat, troubles : Nat]
Act(op) == op \in left.ops /\ left.acts > 0 /\ left' = [left EXCEPT !.acts = @ - 1]
Trouble == left.troubles > 0 /\ left' = [left EXCEPT !.troubles = @ - 1]

Intent == [origin : Origins, how : {"page", "code"}, good : BOOLEAN, by : Clicks]
Tab == [origin : Origins, loaded : BOOLEAN, event : BOOLEAN, mounted : BOOLEAN,
        bridge : BOOLEAN, told : BOOLEAN]
Answer == {"late", "opened", "connected", "not-permitted", "bad-code", "unreachable",
           "failed", "declined", "bad-address"}

\* What is typed in full or without a scheme names an instance.
ASSUME AddressAssumption ==
    /\ Home \in Origins
    /\ \A typed \in Addresses : typed.form \in {"bare", "url"} => typed.host \in Origins

ASSUME BoundAssumption == MaxClicks \in Nat /\ Budgets \subseteq Budget

\* None is no value of its own, and nothing that is in storage or being done.
ASSUME NoneAssumption ==
    /\ None \notin Origins \cup Answer \cup {"prompt", "announced", "finish", "out_of_date", "accepted", "kept"}
    /\ None \notin Intent \cup [pc : {"forget"}, took : Intent]

\* A connect: how far it has come, and what it goes by.
Finish == [pc : {"read"}, origins : {None} \cup (SUBSET Origins)]
          \cup [pc : {"perform", "store", "inject", "fetch", "remember", "forget"}, took : Intent]
Popup == [shows : {"connect", "connected"}, due : BOOLEAN,
          waits : {None, "prompt", "announced", "finish"}, says : Answer \cup {None}]
App == [bridge : BOOLEAN, event : BOOLEAN, latest : Nat, waiting : SUBSET Nat, asked : SUBSET Nat,
        coming : BOOLEAN, version : {"unknown", "none", "found"}, since : BOOLEAN]

(* opened: the connect pages each click opened; granted: the clicks that   *)
(* were being allowed; broken: the worker was stopped at work; lost: access*)
(* was given back under a page; cut, spared: the clicks up to a Disconnect,*)
(* and those whose handshake was accepted by then; settled, racing: the    *)
(* click of the last complete connect, and those accepted by then.         *)
Past == [opened : [Clicks -> Nat], granted : SUBSET Nat, broken : BOOLEAN, lost : BOOLEAN,
         cut : Nat \cup {None}, spared : SUBSET Nat, settled : Nat, racing : SUBSET Nat]

ConnectionTypeOK ==
    /\ held \in [origin : Origins, by : Clicks \cup {0}] \cup {None}
    /\ attempt \in [origin : Origins, by : Clicks] \cup {None}
    /\ intent \in Intent \cup {None} /\ announcing \in Intent \cup {None}
    /\ finish \in Finish \cup {None}
    /\ shakes \subseteq [tab : Clicks, origin : Origins, pc : {"sent", "accepted", "kept"}]
    /\ parting \in [pc : {"held", "attempt", "intent"}, by : Nat \cup {None}, origin : Origins \cup {None}]
                  \cup {None}
    /\ popup \in Popup \cup {None}
    /\ prompt \in Origins \cup {None} /\ access \cup leaving \subseteq Origins
    /\ tabs \in [Clicks -> Tab \cup {None}]
    /\ app \in App /\ app.waiting \cup app.asked \subseteq 1 .. app.latest
    /\ code \in {"none", "issued", "spent"}
    /\ clicks \in 0 .. MaxClicks
    /\ past \in Past
    /\ left \in Budget

ConnectedTo(o) == held # None /\ held.origin = o

\* The page of the app, loaded and probed; found: by an extension it is connected to.
AppPage(found) ==
    [bridge |-> found, event |-> FALSE, latest |-> 0, waiting |-> {}, asked |-> {},
     coming |-> FALSE, version |-> IF found THEN "found" ELSE "none", since |-> found]

\* A fresh install, or one that is connected to the app page's instance.
ConnectionInit ==
    /\ \E on \in BOOLEAN :
         /\ held = IF on THEN [origin |-> Home, by |-> 0] ELSE None
         /\ access = IF on THEN {Home} ELSE {}
         /\ app = AppPage(on)
    /\ attempt = None /\ intent = None /\ finish = None /\ shakes = {}
    /\ parting = None /\ leaving = {} /\ popup = None /\ announcing = None /\ prompt = None
    /\ tabs = [t \in Clicks |-> None]
    /\ code = "none" /\ clicks = 0
    /\ past = [opened |-> [t \in Clicks |-> 0], granted |-> {}, broken |-> FALSE,
               lost |-> FALSE, cut |-> None, spared |-> {}, settled |-> 0, racing |-> {}]
    /\ left \in Budgets

At(pc) == finish # None /\ finish.pc = pc
Busy == finish # None \/ shakes # {} \/ parting # None
-----------------------------------------------------------------------------
(* The popup.                                                              *)

\* readInstanceUrl: the origin of what was typed, or None.
readInstanceUrl(typed) == IF typed.form \in {"bare", "url"} THEN typed.host ELSE None

\* An announcement nobody has answered yet.
unanswered == intent # None

\* connection and unanswered, asked by a popup that opens or hears of a change.
Show(p) ==
    [p EXCEPT !.shows = IF held # None THEN "connected" ELSE "connect",
              !.due = FALSE,
              !.says = IF held = None /\ unanswered THEN "declined" ELSE @]

OpenPopup ==
    /\ popup = None /\ left.ops \cap {"connect", "disconnect"} # {}
    /\ popup' = Show([shows |-> "connect", due |-> FALSE, waits |-> None, says |-> None])
    /\ UNCHANGED <<storage, worker, announcing, prompt, access, pages, clicks, past, left>>

\* Chrome's prompt takes the focus, and the popup is gone.
ClosePopup ==
    /\ popup # None /\ prompt # None
    /\ popup' = None
    /\ UNCHANGED <<storage, worker, announcing, prompt, access, pages, clicks, past, left>>

\* storage.local.onChanged.
Refresh ==
    /\ popup # None /\ popup.due
    /\ popup' = Show(popup)
    /\ UNCHANGED <<storage, worker, announcing, prompt, access, pages, clicks, past, left>>

Hears(p) == IF p = None THEN None ELSE [p EXCEPT !.due = TRUE]

\* connect(how): the announcement is sent before Chrome is asked, which does not
\* ask the person about an origin it has allowed.  One connect of a popup at a time.
Connect(typed, how) ==
    LET o == readInstanceUrl(typed) IN
    /\ popup # None /\ popup.shows = "connect" /\ popup.waits = None /\ announcing = None
    /\ prompt = None /\ clicks < MaxClicks
    /\ how = "code" => "code" \in left.ops
    /\ o # Home => "elsewhere" \in left.ops
    /\ Act("connect")
    /\ IF o = None
       THEN /\ popup' = [popup EXCEPT !.says = "bad-address"]
            /\ UNCHANGED <<announcing, prompt, clicks>>
       ELSE /\ clicks' = clicks + 1
            /\ announcing' = [origin |-> o, how |-> how, by |-> clicks + 1,
                              good |-> code = "issued" /\ o = Home]
            /\ prompt' = IF o \in access THEN None ELSE o
            /\ popup' = [popup EXCEPT !.waits = IF o \in access THEN "announced" ELSE "prompt",
                                      !.says = None]
    /\ UNCHANGED <<storage, worker, access, pages, past>>

announce ==
    /\ announcing # None
    /\ intent' = announcing
    /\ announcing' = None
    /\ UNCHANGED <<held, attempt, worker, popup, prompt, access, pages, clicks, past, left>>

\* finishConnect(origins): the permission event and the popup share one attempt.
finishConnect(origins) ==
    IF finish = None
    THEN /\ finish' = [pc |-> "read", origins |-> origins]
         /\ past' = [past EXCEPT !.granted = @ \cup {clicks}]
    ELSE UNCHANGED <<finish, past>>

\* The person answers, which takes longer than the worker's reads and writes of
\* the announcement.
Allow ==
    /\ prompt # None /\ announcing = None /\ ~At("read")
    /\ access' = access \cup {prompt}
    /\ prompt' = None
    /\ finishConnect({prompt})
    /\ popup' = IF popup # None /\ popup.waits = "prompt"
                THEN [popup EXCEPT !.waits = "announced"] ELSE popup
    /\ UNCHANGED <<storage, shakes, parting, leaving, announcing, pages, clicks, left>>

\* A popup that is still there answers the announcement itself.
Decline ==
    /\ prompt # None /\ announcing = None
    /\ prompt' = None
    /\ IF popup # None /\ popup.waits = "prompt"
       THEN /\ popup' = [popup EXCEPT !.waits = None, !.says = "declined"]
            /\ intent' = None
       ELSE UNCHANGED <<popup, intent>>
    /\ UNCHANGED <<held, attempt, worker, announcing, access, pages, clicks, past, left>>

\* Mutant: the announcement is not awaited.
FinishAtOnce ==
    /\ popup # None /\ popup.waits = "announced"
    /\ finishConnect(None)
    /\ popup' = [popup EXCEPT !.waits = "finish"]
    /\ UNCHANGED <<storage, shakes, parting, leaving, announcing, prompt, access, pages, clicks, left>>

\* The popup's own finish-connect, once its announcement is stored.
PopupFinishes ==
    /\ popup # None /\ popup.waits = "announced" /\ announcing = None
    /\ finishConnect(None)
    /\ popup' = [popup EXCEPT !.waits = "finish"]
    /\ UNCHANGED <<storage, shakes, parting, leaving, announcing, prompt, access, pages, clicks, left>>

\* landed: what the popup makes of an answer; late and connected ask again.
landed(p, answer) ==
    IF p = None \/ p.waits # "finish" THEN p
    ELSE IF answer \in {"late", "connected"} THEN Show([p EXCEPT !.waits = None])
    ELSE [p EXCEPT !.waits = None, !.says = answer]

Land(answer) == finish' = None /\ popup' = landed(popup, answer)
-----------------------------------------------------------------------------
(* finishConnect in the worker: take, then perform.                        *)

Takes == intent # None /\ (finish.origins = None \/ intent.origin \in finish.origins)

\* Mutant: the announcement is left in storage.
takeKeeps ==
    /\ At("read")
    /\ IF Takes THEN finish' = [pc |-> "perform", took |-> intent] /\ UNCHANGED popup
                ELSE Land("late")
    /\ UNCHANGED <<storage, shakes, parting, leaving, announcing, prompt, access, pages, clicks, past, left>>

\* An announcement that is there, and is for a granted origin, is taken out.
take ==
    /\ At("read")
    /\ IF Takes THEN finish' = [pc |-> "perform", took |-> intent] /\ UNCHANGED popup
                ELSE Land("late")
    /\ intent' = IF Takes THEN None ELSE intent
    /\ UNCHANGED <<held, attempt, shakes, parting, leaving, announcing, prompt, access, pages, clicks, past, left>>

NewTab(o) == [origin |-> o, loaded |-> FALSE, event |-> FALSE, mounted |-> FALSE,
              bridge |-> FALSE, told |-> FALSE]

\* perform: the connect page is opened, or the code is sent.
perform ==
    /\ At("perform")
    /\ IF finish.took.origin \notin access
       THEN Land("not-permitted") /\ UNCHANGED <<tabs, past>>
       ELSE IF finish.took.how = "code"
       THEN /\ finish' = [finish EXCEPT !.pc = "fetch"] /\ UNCHANGED <<popup, tabs, past>>
       ELSE /\ tabs' = [tabs EXCEPT ![finish.took.by] = NewTab(finish.took.origin)]
            /\ past' = [past EXCEPT !.opened[finish.took.by] = @ + 1]
            /\ finish' = [finish EXCEPT !.pc = "store"]
            /\ UNCHANGED popup
    /\ UNCHANGED <<storage, shakes, parting, leaving, announcing, prompt, access, app, code, clicks, left>>

openTheConnectPage ==
    /\ At("store")
    /\ attempt' = [origin |-> finish.took.origin, by |-> finish.took.by]
    /\ finish' = [finish EXCEPT !.pc = "inject"]
    /\ UNCHANGED <<held, intent, shakes, parting, leaving, desk, pages, clicks, past, left>>

\* The bridge enters a connect page: it says READY, and a mounted page hands over.
Reaches(t) == tabs[t] # None /\ tabs[t].origin \in access
Sent(t) == [tab |-> t, origin |-> tabs[t].origin, pc |-> "sent"]
Inject(t) ==
    IF Reaches(t) /\ ~tabs[t].bridge
    THEN /\ tabs' = [tabs EXCEPT ![t].bridge = TRUE, ![t].event = FALSE]
         /\ shakes' = IF tabs[t].mounted THEN shakes \cup {Sent(t)} ELSE shakes
    ELSE /\ tabs' = [tabs EXCEPT ![t] = IF @ = None THEN None ELSE [@ EXCEPT !.event = FALSE]]
         /\ UNCHANGED shakes

\* Mutant: nobody looks whether the page has already loaded.
waitForLoad ==
    /\ At("inject")
    /\ Land("opened")
    /\ UNCHANGED <<storage, shakes, parting, leaving, announcing, prompt, access, pages, clicks, past, left>>

injectIfLoaded ==
    LET t == finish.took.by IN
    /\ At("inject")
    /\ IF tabs[t] # None /\ tabs[t].loaded /\ attempt # None /\ attempt.by = t
       THEN Inject(t) ELSE UNCHANGED <<tabs, shakes>>
    /\ Land(IF tabs[t] = None THEN "failed" ELSE "opened")
    /\ UNCHANGED <<storage, parting, leaving, announcing, prompt, access, app, code, clicks, past, left>>

\* claim: the code that was typed is there; connect_extension deletes it.
claim == finish.took.good /\ code = "issued"

\* spendConnectCode: the answer may be lost after the code was spent.
spendConnectCode ==
    \E answered \in BOOLEAN :
      /\ At("fetch")
      /\ IF answered THEN UNCHANGED left ELSE Trouble
      /\ code' = IF claim THEN "spent" ELSE code
      /\ CASE ~answered -> Land("unreachable")
           [] answered /\ claim ->
                finish' = [finish EXCEPT !.pc = "remember"] /\ UNCHANGED popup
           [] OTHER -> Land("bad-code")
      /\ UNCHANGED <<storage, shakes, parting, leaving, announcing, prompt, access, tabs, app, clicks, past>>

\* remember: the connection is stored; its pages are reached afterwards.
Remember(o, by) ==
    /\ held' = [origin |-> o, by |-> by]
    /\ popup' = Hears(popup)
    /\ app' = IF o = Home THEN [app EXCEPT !.since = TRUE] ELSE app

\* injectIntoConnectedTabs: a bridge that was not there says READY.
ReachApp(o) ==
    app' = IF o = Home /\ Home \in access /\ ~app.bridge
           THEN [app EXCEPT !.bridge = TRUE, !.coming = TRUE] ELSE app

\* A connect is complete: its connection is the one that counts from now on, but for
\* those of the handshakes among others that are accepted already.
Accepted(S) == {s.tab : s \in {s \in S : s.pc = "accepted"}}
Settles(others) ==
    past' = IF held = None THEN past
            ELSE [past EXCEPT !.settled = held.by, !.racing = Accepted(others)]

CodeRemembered ==
    /\ At("remember")
    /\ Remember(finish.took.origin, finish.took.by)
    /\ finish' = [finish EXCEPT !.pc = "forget"]
    /\ UNCHANGED <<attempt, intent, shakes, parting, leaving, announcing, prompt, access, tabs, code, clicks, past, left>>

\* Mutant: a connect page that is still open keeps its attempt.
CodeLeaves ==
    /\ At("forget")
    /\ ReachApp(finish.took.origin)
    /\ Land("connected") /\ Settles(shakes)
    /\ UNCHANGED <<storage, shakes, parting, leaving, announcing, prompt, access, tabs, code, clicks, left>>

CodeLanded ==
    /\ At("forget")
    /\ ReachApp(finish.took.origin)
    /\ attempt' = None
    /\ Land("connected") /\ Settles(shakes)
    /\ UNCHANGED <<held, intent, shakes, parting, leaving, announcing, prompt, access, tabs, code, clicks, left>>
-----------------------------------------------------------------------------
(* The connect page and its handshake.                                     *)

\* A page has loaded: tabs.onUpdated.
Load(t) ==
    /\ tabs[t] # None /\ ~tabs[t].loaded
    /\ tabs' = [tabs EXCEPT ![t].loaded = TRUE, ![t].event = TRUE]
    /\ UNCHANGED <<storage, worker, desk, app, code, clicks, past, left>>

injectIntoTheConnectPage(t) ==
    /\ tabs[t] # None /\ tabs[t].event
    /\ IF attempt # None /\ attempt.by = t THEN Inject(t)
       ELSE tabs' = [tabs EXCEPT ![t].event = FALSE] /\ UNCHANGED shakes
    /\ UNCHANGED <<storage, finish, parting, leaving, desk, app, code, clicks, past, left>>

\* ConnectScreen mounts and hands over; only a bridge that is there hears it.
Mount(t) ==
    /\ tabs[t] # None /\ ~tabs[t].mounted
    /\ tabs' = [tabs EXCEPT ![t].mounted = TRUE]
    /\ shakes' = IF tabs[t].bridge THEN shakes \cup {Sent(t)} ELSE shakes
    /\ UNCHANGED <<storage, finish, parting, leaving, desk, app, code, clicks, past, left>>

\* judgeHandshake: the tab and the nonce are those of the attempt.
judgeHandshake(s) == attempt # None /\ attempt.by = s.tab

Handled(s, pc) == (shakes \ {s}) \cup (IF pc = None THEN {} ELSE {[s EXCEPT !.pc = pc]})

acceptHandshake(s) ==
    /\ s.pc = "sent"
    /\ shakes' = Handled(s, IF judgeHandshake(s) THEN "accepted" ELSE None)
    /\ UNCHANGED <<storage, finish, parting, leaving, desk, pages, clicks, past, left>>

ShakeRemembered(s) ==
    /\ s.pc = "accepted"
    /\ Remember(s.origin, s.tab)
    /\ shakes' = Handled(s, "kept")
    /\ UNCHANGED <<attempt, intent, finish, parting, leaving, announcing, prompt, access, tabs, code, clicks, past, left>>

\* Mutant: the attempt is left to expire.
ShakeLeaves(s) ==
    /\ s.pc = "kept"
    /\ ReachApp(s.origin)
    /\ tabs' = [tabs EXCEPT ![s.tab] = IF @ = None THEN None ELSE [@ EXCEPT !.told = TRUE]]
    /\ shakes' = Handled(s, None) /\ Settles(shakes')
    /\ UNCHANGED <<storage, finish, parting, leaving, desk, code, clicks, left>>

ShakeLanded(s) ==
    /\ s.pc = "kept"
    /\ ReachApp(s.origin)
    /\ attempt' = None
    /\ tabs' = [tabs EXCEPT ![s.tab] = IF @ = None THEN None ELSE [@ EXCEPT !.told = TRUE]]
    /\ shakes' = Handled(s, None) /\ Settles(shakes')
    /\ UNCHANGED <<held, intent, finish, parting, leaving, desk, code, clicks, left>>

\* The person reloads the connect page, or closes it.
ReloadTab(t) ==
    /\ tabs[t] # None /\ tabs[t].loaded
    /\ Act("tab")
    /\ tabs' = [tabs EXCEPT ![t] = NewTab(@.origin)]
    /\ UNCHANGED <<storage, worker, desk, app, code, clicks, past>>

CloseTab(t) ==
    /\ tabs[t] # None
    /\ Act("close")
    /\ tabs' = [tabs EXCEPT ![t] = None]
    /\ UNCHANGED <<storage, worker, desk, app, code, clicks, past>>

issue == "issued"

\* "Show a connect code", on the connect page.  Codes that have not expired stay
\* good beside a new one; here one is shown at a time (a bound).
showCode ==
    /\ Act("code") /\ code # "issued"
    /\ code' = issue
    /\ UNCHANGED <<storage, worker, desk, tabs, app, clicks, past>>
-----------------------------------------------------------------------------
(* Disconnecting.                                                          *)

\* The popup turns at once.
Disconnect ==
    /\ popup # None /\ popup.shows = "connected" /\ parting = None
    /\ Act("disconnect")
    /\ popup' = [popup EXCEPT !.shows = "connect", !.says = None]
    /\ parting' = [pc |-> "held", origin |-> None,
                   by |-> IF finish = None /\ popup.waits = None /\ announcing = None /\ prompt = None
                          THEN clicks ELSE None]
    /\ UNCHANGED <<storage, finish, shakes, leaving, announcing, prompt, access, pages, clicks, past>>

Parts(pc) == parting # None /\ parting.pc = pc

disconnect ==
    /\ Parts("held")
    /\ held' = None
    /\ popup' = IF held = None THEN popup ELSE Hears(popup)
    /\ parting' = [parting EXCEPT !.pc = "attempt",
                                  !.origin = IF held = None THEN None ELSE held.origin]
    /\ UNCHANGED <<attempt, intent, finish, shakes, leaving, announcing, prompt, access, pages, clicks, past, left>>

\* Mutant: the attempt is left in storage.
disconnectKeepsAttempt ==
    /\ Parts("attempt")
    /\ parting' = [parting EXCEPT !.pc = "intent"]
    /\ UNCHANGED <<storage, finish, shakes, leaving, desk, pages, clicks, past, left>>

disconnectAttempt ==
    /\ Parts("attempt")
    /\ attempt' = None
    /\ parting' = [parting EXCEPT !.pc = "intent"]
    /\ UNCHANGED <<held, intent, finish, shakes, leaving, desk, pages, clicks, past, left>>

disconnectIntent ==
    /\ Parts("intent")
    /\ intent' = None
    /\ leaving' = IF parting.origin = None THEN leaving ELSE leaving \cup {parting.origin}
    /\ parting' = None
    /\ past' = IF parting.by = None THEN past
               ELSE [past EXCEPT !.cut = parting.by,
                                 !.spared = Accepted(shakes) \cup (IF held = None THEN {} ELSE {held.by})]
    /\ UNCHANGED <<held, attempt, finish, shakes, desk, pages, clicks, left>>

\* The worker is stopped: handlers are gone, a waiting popup hears of a failure.
Stops ==
    /\ finish' = None /\ parting' = None /\ leaving' = {}
    /\ shakes' = {s \in shakes : s.pc = "sent"}
    /\ popup' = landed(popup, "failed")

Losing(o, p) ==
    past' = [p EXCEPT !.lost = @ \/ \E t \in Clicks : tabs[t] # None /\ tabs[t].origin = o]

\* giveTheAccessBack.
giveTheAccessBack(o) ==
    /\ o \in leaving
    /\ access' = access \ {o}
    /\ leaving' = leaving \ {o}
    /\ Losing(o, past)
    /\ UNCHANGED <<storage, finish, shakes, parting, popup, announcing, prompt, pages, clicks, left>>

\* Chrome may restart the worker for it.
RestartsFor(o) ==
    /\ o \in leaving
    /\ access' = access \ {o}
    /\ Stops
    /\ Losing(o, [past EXCEPT !.broken = @ \/ Busy])
    /\ UNCHANGED <<storage, announcing, prompt, pages, clicks, left>>

Restart ==
    /\ Trouble
    /\ Stops
    /\ past' = [past EXCEPT !.broken = @ \/ Busy]
    /\ UNCHANGED <<storage, announcing, prompt, access, pages, clicks>>

\* INTENT_LIFETIME_MS or ATTEMPT_LIFETIME_MS has passed.
Expire ==
    /\ Trouble
    /\ \/ intent # None /\ intent' = None /\ UNCHANGED attempt
       \/ attempt # None /\ attempt' = None /\ UNCHANGED intent
    /\ UNCHANGED <<held, worker, desk, pages, clicks, past>>
-----------------------------------------------------------------------------
(* The pill of the app page.                                               *)

\* An injection that has not come yet.
Reaching ==
    \/ app.event
    \/ \E s \in shakes : s.pc = "kept" /\ s.origin = Home
    \/ At("forget") /\ finish.took.origin = Home

\* probeExtension: a probe is posted, which a bridge passes on.
Probe(a) ==
    [a EXCEPT !.latest = @ + 1, !.waiting = @ \cup {a.latest + 1},
              !.asked = IF a.bridge THEN @ \cup {a.latest + 1} ELSE @,
              !.since = ConnectedTo(Home) \/ (@ /\ (a.asked # {} \/ a.coming \/ Reaching))]

\* The window gets the focus.
Focus ==
    /\ Act("focus")
    /\ app' = Probe(app)
    /\ UNCHANGED <<storage, worker, desk, tabs, code, clicks, past>>

\* The app page is loaded again; its provider probes on mount.
ReloadApp ==
    /\ Act("app")
    /\ app' = Probe([AppPage(FALSE) EXCEPT !.event = TRUE, !.version = "unknown", !.since = app.since])
    /\ UNCHANGED <<storage, worker, desk, tabs, code, clicks, past>>

injectIntoConnectedPage ==
    /\ app.event
    /\ app' = IF ConnectedTo(Home) /\ Home \in access /\ ~app.bridge
              THEN [app EXCEPT !.event = FALSE, !.bridge = TRUE, !.coming = TRUE]
              ELSE [app EXCEPT !.event = FALSE]
    /\ UNCHANGED <<storage, worker, desk, tabs, code, clicks, past, left>>

\* Mutant: a bridge is proof enough.
AnswersAlways(i) == TRUE

Answers(i) == ConnectedTo(Home)

answerProbe(i) ==
    /\ i \in app.asked
    /\ app' = [app EXCEPT !.asked = @ \ {i}, !.coming = @ \/ Answers(i)]
    /\ UNCHANGED <<storage, worker, desk, tabs, code, clicks, past, left>>

\* READY answers every probe that waits; only the latest one is shown.
Ready ==
    /\ app.coming
    /\ app' = [app EXCEPT !.coming = FALSE, !.waiting = {},
                          !.version = IF app.latest \in app.waiting THEN "found" ELSE @]
    /\ UNCHANGED <<storage, worker, desk, tabs, code, clicks, past, left>>

ProbeTimesOut(i) ==
    /\ i \in app.waiting
    /\ app' = [app EXCEPT !.waiting = @ \ {i},
                          !.version = IF i = app.latest THEN "none" ELSE @]
    /\ UNCHANGED <<storage, worker, desk, tabs, code, clicks, past, left>>

versionAtLeast(version, minimum) ==
    LET part(v, i) == IF i \in DOMAIN v THEN v[i] ELSE 0
        width == 1 .. (IF Len(version) > Len(minimum) THEN Len(version) ELSE Len(minimum))
    IN  \A i \in width : part(version, i) < part(minimum, i) =>
           \E j \in 1 .. i - 1 : part(version, j) > part(minimum, j)

connectionState ==
    CASE app.version = "unknown" -> None
      [] app.version = "none" -> "not_connected"
      [] OTHER -> IF versionAtLeast(Version, Minimum) THEN "connected" ELSE "out_of_date"
-----------------------------------------------------------------------------
Finishing == take \/ perform \/ openTheConnectPage \/ injectIfLoaded
             \/ spendConnectCode \/ CodeRemembered \/ CodeLanded
Paging == \E t \in Clicks : Load(t) \/ injectIntoTheConnectPage(t) \/ Mount(t)
Shaking == \E s \in shakes : acceptHandshake(s) \/ ShakeRemembered(s) \/ ShakeLanded(s)
Parting == disconnect \/ disconnectAttempt \/ disconnectIntent
           \/ \E o \in leaving : giveTheAccessBack(o)
Probing == injectIntoConnectedPage \/ Ready
           \/ \E i \in app.waiting \cup app.asked : answerProbe(i) \/ ProbeTimesOut(i)

\* With what the worker was doing beside; see Extension.
Stopping == Restart \/ \E o \in leaving : RestartsFor(o)

ConnectionNext ==
    \/ OpenPopup \/ ClosePopup \/ Refresh
    \/ \E typed \in Addresses, how \in {"page", "code"} : Connect(typed, how)
    \/ announce \/ Allow \/ Decline \/ PopupFinishes
    \/ Finishing \/ Paging \/ Shaking
    \/ \E t \in Clicks : ReloadTab(t) \/ CloseTab(t)
    \/ showCode
    \/ Disconnect \/ Parting \/ Expire
    \/ Focus \/ ReloadApp \/ Probing
-----------------------------------------------------------------------------
(* Properties.                                                             *)

(* "One grant opens one tab": the permission event and the popup both      *)
(* finish a connect, and a stopped worker is asked again, but no click     *)
(* opens two connect pages (finishConnect, take).                          *)
OneTabPerClick == \A c \in Clicks : past.opened[c] <= 1

(* A Disconnect sticks: what was clicked before it, a connect page that is *)
(* still open or an announcement still stored, connects nothing after it   *)
(* (disconnect).  Spared are the handshakes that were accepted before the  *)
(* attempt was removed: those still store their connection, or did so      *)
(* while the Disconnect was under way.                                     *)
DisconnectSticks ==
    held # None /\ past.cut # None => held.by > past.cut \/ held.by \in past.spared

(* Once a connect is complete no click before it takes the connection to   *)
(* its own instance (acceptHandshake, spendConnectCode): its page may load,*)
(* mount or be reloaded at any time.  A handshake that was accepted before *)
(* the newer connect was complete still stores its connection over it.     *)
OlderGivesWay ==
    held # None => held.by >= past.settled \/ held.by \in past.racing

(* A completed connect forgets the page that was open: when the worker has *)
(* come to rest, an attempt that is left was clicked after the connection  *)
(* was (acceptHandshake, spendConnectCode), unless the worker was stopped  *)
(* between the two writes.                                                 *)
AttemptIsNewer ==
    held # None /\ attempt # None /\ ~Busy /\ ~past.broken => attempt.by > held.by

(* The app page says connected only if this browser was connected to its   *)
(* instance at some time since the oldest question on its way: probes, the *)
(* answers of earlier ones and READY overlap (probeExtension, answerProbe).*)
PillIsRecent ==
    connectionState \in {"connected", "out_of_date"} /\ app.waiting = {} => app.since

(* A connect page with a live attempt is connected, whether it loads or    *)
(* mounts before or after the attempt is stored (injectIfLoaded,           *)
(* tabs.onUpdated, ConnectScreen's two hand-overs), unless it is closed,   *)
(* the attempt is gone, its access was given back under it, or the worker  *)
(* is stopped.                                                             *)
HandedOver ==
    \A c \in Clicks :
      (attempt # None /\ attempt.by = c /\ Reaches(c))
        ~> (\/ held # None /\ held.by = c
            \/ attempt = None \/ attempt.by # c
            \/ ~Reaches(c) \/ past.lost \/ past.broken)

(* A connect that Chrome allowed while no other was being performed is     *)
(* performed, whether or not the popup survived the prompt; or the popup   *)
(* says that it was not (announce, permissions.onAdded, connect).          *)
GrantedIsPerformed ==
    \A c \in Clicks :
      (c \in past.granted /\ intent # None /\ intent.by = c)
        ~> (\/ intent = None \/ intent.by # c
            \/ past.broken
            \/ popup # None /\ popup.says = "declined")
=============================================================================

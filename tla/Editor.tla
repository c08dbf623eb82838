------------------------------- MODULE Editor -------------------------------
(***************************************************************************)
(* The Draft editor (apps/web workflows/[id]: layout.tsx, editor/page.tsx) *)
(* open in one tab, against the API's Draft and Versions                   *)
(* (workflows/routes.py, workflows/recording.py), the extension that       *)
(* records and re-picks for it, and another member who saves, restores,    *)
(* publishes and deletes.                                                  *)
(*                                                                         *)
(* The tab holds one edited copy beside what its queries last read.  A     *)
(* request is sent, served and answered in separate steps, and an answer   *)
(* may be lost; so is a query read and taken.  A save replaces the Draft   *)
(* whole; only publishing and a finalized recording session lock its row.  *)
(***************************************************************************)
EXTENDS Document

CONSTANTS
    Start,        \* documents the Draft may hold when the tab opens
    Recorded,     \* the document a recording finalizes
    Foreign,      \* documents the other member may save
    Budgets       \* bounds of a behaviour, one of these: see Budget

ASSUME EditorAssumption ==
    \A document \in Start \cup Foreign \cup {Recorded} :
        document \in WorkflowDocument /\ refusal(document) = None

Call == {"save", "restore", "publish", "remove", "record", "pick", "patch", "test"}
Query == {"draft", "versions", "diff"}
Member == {"me", "other"}

VARIABLES
    draft,      \* workflow_drafts row: document, and updated_at as a count of writes
    versions,   \* workflow_versions, by number
    minting,    \* publish_workflow_version between its read and its commit, by member
    sessions,   \* recording_sessions
    ext,        \* the session the extension holds, or None
    told,       \* messages of the extension the page has not handled
    page,       \* DraftEditor and WorkflowFrame
    feed,       \* the page's queries
    calls,      \* the page's mutations
    left        \* what is left of the behaviour's budget

vars == <<draft, versions, minting, sessions, ext, told, page, feed, calls, left>>
stored == <<draft, versions, minting, sessions>>
remote == <<stored, ext, told>>
tab == <<page, feed, calls>>

(* tools: groups of edits a person may use; edits: how many; may, asks:    *)
(* what the page may ask for, and how often; others: what the other member *)
(* does; troubles: requests that fail or answers that are lost; looks:     *)
(* times the window takes focus again.                                     *)
Tool == {"steps", "form", "variables"}
Budget == [tools : SUBSET Tool, edits : Nat, may : SUBSET Call, asks : Nat,
           others : Nat, troubles : Nat, looks : Nat]

Draft == [rev : Nat, document : WorkflowDocument]

\* got: what an answer under way holds; error: whether the last fetch failed.
Holds(data) == [st : {"idle", "asked", "read"}, got : data \cup {None}, data : data \cup {None},
                error : BOOLEAN]
Feed == [draft : Holds(Draft), versions : Holds(Nat), diff : Holds([worth : BOOLEAN, number : Nat])]

(* viewing: ?version=, 0 the Draft; repick: the session and Step being     *)
(* re-picked and the candidates offered; restoring: the Version the        *)
(* restore dialog is about; own: the latest write this page was told of    *)
(* while it had a Draft; late: the requests that were pending when the     *)
(* edited copy was last changed.                                           *)
Page == [here : BOOLEAN, edited : WorkflowDocument \cup {None}, viewing : Nat,
         open : {"none", "variables", "publish", "restore", "test", "delete"},
         repick : [session : Nat, step : StepIds, next : Seq(Kinds) \cup {None}] \cup {None},
         restoring : Nat, own : Nat, late : SUBSET Call]

TypeOK ==
    /\ draft \in Draft \cup {None}
    /\ versions \in Seq(WorkflowDocument)
    /\ minting \in [Member -> [number : Nat, document : WorkflowDocument] \cup {None}]
    /\ sessions \in Seq([step : StepIds \cup {None}, final : BOOLEAN])
    /\ ext \in 0..Len(sessions)
    /\ \A m \in told : m.session \in 1..Len(sessions) /\ m.next \in Seq(Kinds) \cup {None}
    /\ page \in Page
    /\ feed \in Feed
    /\ \A c \in Call : calls[c].st \in {"idle", "sent", "ok", "refused", "settling"}
    /\ left \in Budget

Asked == [st |-> "asked", got |-> None, data |-> None, error |-> FALSE]
Idle == [st |-> "idle", arg |-> None, rev |-> 0]

Init ==
    /\ draft \in {[rev |-> 0, document |-> document] : document \in Start}
    /\ versions = <<>> /\ minting = [m \in Member |-> None]
    /\ sessions = <<>> /\ ext = 0 /\ told = {}
    /\ page = [here |-> TRUE, edited |-> None, viewing |-> 0, open |-> "none",
               repick |-> None, restoring |-> 0, own |-> 0, late |-> {}]
    /\ feed = [q \in Query |-> IF q = "diff" THEN [Asked EXCEPT !.st = "idle"] ELSE Asked]
    /\ calls = [c \in Call |-> Idle]
    /\ left \in Budgets

Spend(what) == left[what] > 0 /\ left' = [left EXCEPT ![what] = @ - 1]

-----------------------------------------------------------------------------
(* The API.  A write waits for a row lock a publisher holds.               *)

Unlocked == \A m \in Member : minting[m] = None

Write(document) == draft' = [rev |-> draft.rev + 1, document |-> document]

next_number == Len(versions) + 1

\* Mutant of publish_workflow_version: the Draft is read without FOR UPDATE.
PublishUnlocked(m) ==
    /\ draft # None
    /\ minting' = [minting EXCEPT ![m] = [number |-> next_number, document |-> draft.document]]

publish_workflow_version(m) ==
    /\ draft # None /\ Unlocked
    /\ minting' = [minting EXCEPT ![m] = [number |-> next_number, document |-> draft.document]]

\* The commit inserts the Version; its number is part of the primary key.
Inserts(m) == minting[m].number \notin DOMAIN versions

Mint(m) ==
    /\ minting[m] # None
    /\ versions' = IF Inserts(m) THEN Append(versions, minting[m].document) ELSE versions
    /\ minting' = [minting EXCEPT ![m] = None]

\* The Step with the candidates a re-pick found, or None where finalize_repick refuses.
finalize_repick(session, candidates) ==
    LET steps == draft.document.steps
        at == {i \in DOMAIN steps : steps[i].id = session.step}
        i == CHOOSE i \in at : TRUE
    IN IF at = {} \/ steps[i].target = None \/ steps[i].type = "pause-for-takeover" THEN None
       ELSE [draft.document EXCEPT !.steps[i].target = candidates]

-----------------------------------------------------------------------------
(* What serves the page's requests.                                        *)

Sent(c) == calls[c].st = "sent"
Serves(c, st) == calls' = [calls EXCEPT ![c].st = st]

\* Serves a request that wrote the Draft.
Wrote(c) == calls' = [calls EXCEPT ![c].st = "ok", ![c].rev = draft.rev + 1]

Refuses(c) == Serves(c, "refused") /\ UNCHANGED stored

\* Mutant of save_workflow_draft: the document is stored without being validated.
SaveUnchecked ==
    /\ Sent("save")
    /\ IF draft = None THEN Refuses("save")
       ELSE /\ Unlocked
            /\ Write(calls["save"].arg) /\ Wrote("save")
            /\ UNCHANGED <<versions, minting, sessions>>

save_workflow_draft ==
    /\ Sent("save")
    /\ IF draft = None \/ refusal(calls["save"].arg) # None THEN Refuses("save")
       ELSE /\ Unlocked
            /\ Write(calls["save"].arg) /\ Wrote("save")
            /\ UNCHANGED <<versions, minting, sessions>>

restore_workflow_version ==
    /\ Sent("restore")
    /\ IF draft = None THEN Refuses("restore")
       ELSE /\ Unlocked
            /\ Write(versions[calls["restore"].arg]) /\ Wrote("restore")
            /\ UNCHANGED <<versions, minting, sessions>>

ServePublish ==
    /\ Sent("publish")
    /\ \/ draft = None /\ minting["me"] = None /\ Refuses("publish")
       \/ /\ minting["me"] = None /\ publish_workflow_version("me")
          /\ UNCHANGED <<draft, versions, sessions, calls>>
       \/ /\ Mint("me") /\ Serves("publish", IF Inserts("me") THEN "ok" ELSE "refused")
          /\ UNCHANGED <<draft, sessions>>

\* Refused when there is none, and while a Run of it is active (RunLifecycle).
delete_workflow ==
    /\ Sent("remove")
    /\ \/ Refuses("remove")
       \/ /\ draft # None /\ Unlocked
          /\ draft' = None /\ Serves("remove", "ok")
          /\ UNCHANGED <<versions, minting, sessions>>

\* createRecordingSession of startRecording ("record") and startRepick ("pick").
mint_session(c) ==
    /\ Sent(c)
    /\ IF draft = None \/ (c = "pick" /\ calls[c].arg \notin idsOf(draft.document))
       THEN Refuses(c)
       ELSE /\ sessions' = Append(sessions, [step |-> calls[c].arg, final |-> FALSE])
            /\ calls' = [calls EXCEPT ![c].st = "ok", ![c].rev = Len(sessions) + 1]
            /\ UNCHANGED <<draft, versions, minting>>

\* finalizeRecordingSession of confirmRepick.
finalize_session ==
    /\ Sent("patch")
    /\ LET i == calls["patch"].arg.session
           saved == finalize_repick(sessions[i], calls["patch"].arg.next)
       IN IF draft = None \/ sessions[i].final \/ saved = None \/ refusal(saved) # None
          THEN Refuses("patch")
          ELSE /\ Unlocked
               /\ Write(saved) /\ Wrote("patch")
               /\ sessions' = [sessions EXCEPT ![i].final = TRUE]
               /\ UNCHANGED <<versions, minting>>

\* startRun with test: a Run of the Draft as it is stored.
start_run ==
    /\ Sent("test")
    /\ Serves("test", IF draft = None THEN "refused" ELSE "ok")
    /\ UNCHANGED stored

Serve ==
    /\ \/ save_workflow_draft \/ restore_workflow_version \/ ServePublish \/ delete_workflow
       \/ mint_session("record") \/ mint_session("pick") \/ finalize_session \/ start_run
    /\ UNCHANGED <<ext, told, page, feed, left>>

\* The request or its answer is lost: a mutation is never retried.
Lose ==
    /\ Spend("troubles")
    /\ \E c \in Call : /\ calls[c].st \in {"sent", "ok"}
                       /\ ~(c = "publish" /\ minting["me"] # None)
                       /\ Serves(c, "refused")
    /\ UNCHANGED <<remote, page, feed>>

-----------------------------------------------------------------------------
(* Another member, and the extension.                                      *)

Elsewhere ==
    /\ draft # None /\ minting["other"] = None
    /\ Spend("others")
    /\ \/ /\ Unlocked
          /\ \E document \in Foreign \cup ToSet(versions) :
                document # draft.document /\ Write(document)
          /\ UNCHANGED <<versions, minting>>
       \/ publish_workflow_version("other") /\ UNCHANGED <<draft, versions>>
       \/ "remove" \in left.may /\ Unlocked /\ draft' = None /\ UNCHANGED <<versions, minting>>
    /\ UNCHANGED <<sessions, ext, told, tab>>

ElsewhereCommits ==
    /\ Mint("other")
    /\ UNCHANGED <<draft, sessions, ext, told, tab, left>>

\* The person clicks the element in another tab: the candidates go to the page.
Pick ==
    /\ ext # 0 /\ sessions[ext].step # None
    /\ \E kind \in Kinds : told' = told \cup {[session |-> ext, next |-> <<kind>>]}
    /\ ext' = 0
    /\ UNCHANGED <<stored, tab, left>>

\* The recording is saved from the extension, which then tells the page.
Record ==
    /\ ext # 0 /\ sessions[ext].step = None
    /\ draft # None /\ Unlocked
    /\ Write(Recorded)
    /\ sessions' = [sessions EXCEPT ![ext].final = TRUE]
    /\ told' = told \cup {[session |-> ext, next |-> None]}
    /\ ext' = 0
    /\ UNCHANGED <<versions, minting, tab, left>>

-----------------------------------------------------------------------------
(* The page's queries.                                                     *)

\* A fetch in flight is left to finish.  Mutant of Invalidate: whatever is cached.
Join(q) == IF q.st = "idle" THEN [q EXCEPT !.st = "asked"] ELSE q

\* invalidateQueries: a fetch in flight is cancelled and the query asked again, but a
\* query that has no data yet goes on with the fetch it has.
Invalidate(q) == IF q.data = None THEN Join(q) ELSE [q EXCEPT !.st = "asked", !.got = None]

Refresh(queries) ==
    feed' = [q \in Query |-> IF q \in queries THEN Invalidate(feed[q]) ELSE feed[q]]

get_workflow_draft_diff ==
    [worth |-> draft_state(draft.document, versions) # "in-sync", number |-> next_number]

Reads(q) ==
    CASE q = "draft" -> draft
      [] q = "versions" -> Len(versions)
      [] q = "diff" -> get_workflow_draft_diff

ReadFeed(q) ==
    /\ page.here /\ feed[q].st = "asked"
    /\ feed' = [feed EXCEPT ![q] =
                  IF draft = None THEN [@ EXCEPT !.st = "idle", !.error = TRUE]
                  ELSE [@ EXCEPT !.st = "read", !.got = Reads(q)]]
    /\ UNCHANGED <<remote, page, calls, left>>

TakeFeed(q) ==
    /\ page.here /\ feed[q].st = "read"
    /\ feed' = [feed EXCEPT ![q] = [@ EXCEPT !.st = "idle", !.data = feed[q].got, !.got = None,
                                            !.error = FALSE]]
    /\ UNCHANGED <<remote, page, calls, left>>

FailFeed(q) ==
    /\ page.here /\ feed[q].st # "idle"
    /\ Spend("troubles")
    /\ feed' = [feed EXCEPT ![q] = [@ EXCEPT !.st = "idle", !.got = None, !.error = TRUE]]
    /\ UNCHANGED <<remote, page, calls>>

\* The window takes focus: what it shows is read again.
Refocus ==
    /\ page.here /\ feed["draft"].st = "idle"
    /\ Spend("looks")
    /\ Refresh({"draft"})
    /\ UNCHANGED <<remote, page, calls>>

Loading == (\E q \in Query : ReadFeed(q) \/ TakeFeed(q) \/ FailFeed(q)) \/ Refocus

-----------------------------------------------------------------------------
(* The person at the page.                                                 *)

readOnly == page.viewing # 0
unsaved == page.edited # None

document ==
    CASE readOnly -> versions[page.viewing]
      [] ~readOnly /\ unsaved -> page.edited
      [] ~readOnly /\ ~unsaved /\ feed["draft"].data # None -> feed["draft"].data.document
      [] OTHER -> None

RepickDialog == page.repick # None /\ page.repick.next # None
Clear == page.here /\ page.open = "none" /\ ~RepickDialog

Turns(p) == page' = p /\ UNCHANGED <<remote, feed>>
Opens(dialog) == Turns([page EXCEPT !.open = dialog]) /\ UNCHANGED <<calls, left>>

Pending(c) == calls[c].st # "idle"
Mutate(c, arg) ==
    /\ ~Pending(c) /\ c \in left.may /\ Spend("asks")
    /\ calls' = [calls EXCEPT ![c] = [st |-> "sent", arg |-> arg, rev |-> 0]]
    /\ UNCHANGED <<remote, feed>>

\* randomUUID: an id nothing here carries.
FreshIds ==
    StepIds \ UNION ({idsOf(v) : v \in ToSet(versions)} \cup {idsOf(document)}
                     \cup {idsOf(d.document) : d \in {draft, feed["draft"].data} \ {None}})

Tools(tool) ==
    CASE tool = "steps" ->
            {withStepDeleted(document, id) : id \in idsOf(document)}
            \cup UNION {{withStepMoved(document, i, j) : j \in {i - 1, i + 1} \cap DOMAIN document.steps} :
                        i \in DOMAIN document.steps}
            \cup {withStepAdded(document, blankStep(type, id)) :
                    type \in ADDABLE_STEP_TYPES, id \in FreshIds}
      [] tool = "form" -> UNION {StepCard(document, step) : step \in ToSet(document.steps)}
      [] tool = "variables" -> VariablesDialog(document)

Edit ==
    /\ page.here /\ ~readOnly /\ document # None
    /\ \E tool \in left.tools :
         /\ IF tool = "variables" THEN page.open = "variables" /\ ~RepickDialog ELSE Clear
         /\ \E next \in Tools(tool) : Turns([page EXCEPT !.edited = next,
                                                                     !.late = {c \in Call : Pending(c)}])
    /\ Spend("edits")
    /\ UNCHANGED calls

Save == Clear /\ unsaved /\ ~readOnly /\ Mutate("save", document) /\ UNCHANGED page

Discard ==
    /\ Clear /\ unsaved /\ ~readOnly /\ ~Pending("save")
    /\ Turns([page EXCEPT !.edited = None])
    /\ UNCHANGED <<calls, left>>

\* The version menu and Back to the Draft: a look at a Version keeps the edited copy.
View ==
    /\ Clear /\ draft # None
    /\ \E n \in 0..(IF feed["versions"].data = None THEN 0 ELSE feed["versions"].data) :
         n # page.viewing /\ Turns([page EXCEPT !.viewing = n])
    /\ UNCHANGED <<calls, left>>

OpenVariables == Clear /\ document # None /\ "variables" \in left.tools /\ Opens("variables")

\* Publish is refused over a Version; the comparison is asked for when it opens.
OpenPublish ==
    /\ Clear /\ ~readOnly /\ "publish" \in left.may
    /\ page' = [page EXCEPT !.open = "publish"]
    /\ feed' = [feed EXCEPT !["diff"] = Join(@)]
    /\ UNCHANGED <<remote, calls, left>>

OpenRestore ==
    /\ Clear /\ readOnly /\ "restore" \in left.may
    /\ Turns([page EXCEPT !.open = "restore", !.restoring = page.viewing])
    /\ UNCHANGED <<calls, left>>

\* A test run is refused over unsaved edits: it would run the stored Draft.
OpenTest == Clear /\ ~readOnly /\ document # None /\ ~unsaved /\ "test" \in left.may /\ Opens("test")

OpenDelete == Clear /\ "remove" \in left.may /\ Opens("delete")

Dismiss == page.here /\ page.open # "none" /\ Opens("none")

PublishDialog ==
    /\ page.here /\ page.open = "publish"
    /\ feed["diff"].data # None /\ feed["diff"].data.worth
    /\ Mutate("publish", None) /\ UNCHANGED page

RestoreDialog ==
    page.here /\ page.open = "restore" /\ Mutate("restore", page.restoring) /\ UNCHANGED page

TestRunDialog == page.here /\ page.open = "test" /\ Mutate("test", None) /\ UNCHANGED page

DeleteDialog == page.here /\ page.open = "delete" /\ Mutate("remove", None) /\ UNCHANGED page

\* Replacing Steps with a recording is confirmed first.
startRecording ==
    Clear /\ ~readOnly /\ document # None /\ ~unsaved /\ Mutate("record", None) /\ UNCHANGED page

startRepick ==
    /\ Clear /\ ~readOnly /\ document # None /\ ~unsaved
    /\ \E step \in ToSet(document.steps) :
         /\ step.target # None /\ step.type # "pause-for-takeover"
         /\ Mutate("pick", step.id)
    /\ UNCHANGED page

confirmRepick ==
    /\ page.here /\ RepickDialog
    /\ Mutate("patch", [session |-> page.repick.session, next |-> page.repick.next])
    /\ UNCHANGED page

CancelRepick ==
    /\ page.here /\ RepickDialog
    /\ Turns([page EXCEPT !.repick = None])
    /\ UNCHANGED <<calls, left>>

\* Leaving by a link or by closing the tab asks over unsaved edits, and a person who
\* is asked may stay; a router.push of the page's own, or Back, does not ask.
Leave ==
    /\ Clear
    /\ page' = [page EXCEPT !.here = FALSE, !.edited = None]
    /\ UNCHANGED <<remote, feed, calls, left>>

Person ==
    \/ Edit \/ Save \/ Discard \/ View \/ OpenVariables \/ OpenPublish \/ OpenRestore
    \/ OpenTest \/ OpenDelete \/ Dismiss \/ PublishDialog \/ RestoreDialog \/ TestRunDialog
    \/ DeleteDialog \/ startRecording \/ startRepick \/ confirmRepick \/ CancelRepick \/ Leave

-----------------------------------------------------------------------------
(* What the page does with an answer and with the extension's messages.    *)

Own(rev) == IF rev > page.own /\ feed["draft"].data # None THEN rev ELSE page.own

\* Mutant of Awaits: a save does not ask for the Draft again.
AwaitsLess(c) ==
    CASE c \in {"restore", "patch"} -> {"draft"}
      [] c = "publish" -> {"versions", "diff"}
      [] OTHER -> {}

\* The queries a mutation's onSuccess asks again and waits for.
Awaits(c) ==
    CASE c \in {"save", "restore", "patch"} -> {"draft"}
      [] c = "publish" -> {"versions", "diff"}
      [] OTHER -> {}

\* What onSuccess makes of the page at once, and once what it waits for is in.
onSuccess(c) ==
    LET rev == calls[c].rev IN
    CASE c = "save" -> [page EXCEPT !.edited = None, !.own = Own(rev)]
      [] c = "restore" -> [page EXCEPT !.edited = None, !.own = Own(rev), !.open = "none"]
      [] c = "patch" -> [page EXCEPT !.edited = None, !.own = Own(rev), !.repick = None]
      [] c \in {"publish", "remove"} -> [page EXCEPT !.open = "none"]
      [] c = "pick" ->
            [page EXCEPT !.repick = [session |-> rev, step |-> calls[c].arg, next |-> None]]
      [] c = "record" -> page
      [] c = "test" -> [page EXCEPT !.here = FALSE, !.edited = None]

onSettled(c) ==
    CASE c = "restore" -> [page EXCEPT !.viewing = 0]
      [] c = "remove" -> [page EXCEPT !.here = FALSE, !.edited = None]
      [] OTHER -> page

Answer(c) ==
    /\ page.here /\ calls[c].st \in {"ok", "refused"}
    /\ IF calls[c].st = "refused"
       THEN calls' = [calls EXCEPT ![c] = Idle] /\ UNCHANGED <<page, feed, ext>>
       ELSE /\ calls' = [calls EXCEPT ![c].st = "settling"]
            /\ page' = onSuccess(c)
            /\ Refresh(Awaits(c))
            /\ ext' = IF c \in {"record", "pick"} THEN calls[c].rev ELSE ext
    /\ UNCHANGED <<stored, told, left>>

\* The mutation is pending until what its onSuccess waits for is in.
Settle(c) ==
    /\ page.here /\ calls[c].st = "settling"
    /\ \A q \in Awaits(c) : feed[q].st = "idle"
    /\ calls' = [calls EXCEPT ![c] = Idle]
    /\ page' = onSettled(c)
    /\ UNCHANGED <<remote, feed, left>>


\* receive: candidates of the session being re-picked, or a recording that was saved.
Hear ==
    /\ page.here
    /\ \E m \in told :
         /\ told' = told \ {m}
         /\ IF m.next = None THEN /\ page' = page
                                  /\ Refresh({"draft"})
            ELSE /\ page' = IF page.repick # None /\ page.repick.session = m.session
                            THEN [page EXCEPT !.repick.next = m.next] ELSE page
                 /\ UNCHANGED feed
    /\ UNCHANGED <<stored, ext, calls, left>>

Answers == (\E c \in Call : Answer(c) \/ Settle(c)) \/ Hear

Next ==
    \/ Serve \/ Lose \/ Elsewhere \/ ElsewhereCommits \/ Pick \/ Record
    \/ Loading \/ Person \/ Answers

Spec == Init /\ [][Next]_vars

Fairness ==
    /\ WF_vars(Serve) /\ WF_vars(ElsewhereCommits) /\ WF_vars(Answers)
    /\ \A q \in Query : WF_vars(ReadFeed(q) \/ TakeFeed(q))

FairSpec == Spec /\ Fairness

-----------------------------------------------------------------------------
(* Whatever is saved, restored, recorded, re-picked and published, by      *)
(* whomever and in whatever order, the Draft and every Version hold a      *)
(* document the contract accepts (document.validated): a Worker never meets *)
(* a reference nothing declares.                                           *)
StoredFits ==
    /\ draft # None => refusal(draft.document) = None
    /\ \A v \in ToSet(versions) : refusal(v) = None

(* However the tools are combined, the edited copy is refused only for a   *)
(* reference nothing declares or for a time that rounds to no millisecond  *)
(* (step-form.tsx:605): never for a repeated name or id, an extraction     *)
(* with no field, or a vault pointer on a Variable that is not secret.     *)
RoundsToNothing(step) == step.ms = 0 \/ step.timeoutMs = 0

EditsFit ==
    unsaved => \/ refusal(page.edited) \in {None, "undeclared_variable"}
               \/ \E step \in ToSet(page.edited.steps) : RoundsToNothing(step)

(* No tool takes a declaration away from under a Step: what the page shows *)
(* gains an undeclared reference only where a person types one into a      *)
(* value field.  Deleting is refused while a Step refers to the Variable   *)
(* (deletionRefusal), renaming follows every reference, and cutting a      *)
(* value in two declares what it leaves.                                   *)
ReferencesKept ==
    [][ Edit => undeclaredRows(page'.edited) \ undeclaredRows(document)
                \subseteq UNION {ToSet(value) : value \in Typed} /\
                (page.open = "variables" =>
                    undeclaredRows(page'.edited) \subseteq undeclaredRows(document)) ]_vars

(* The page's Draft is never older than a write it was told of, once its   *)
(* query is idle and did not fail: an answer read before the save and      *)
(* delivered after it must not pass for the saved Draft.  A Restore that   *)
(* is answered while the page reads a Version and has no Draft yet is no   *)
(* such write: it joins the first fetch, whose answer may be older.        *)
OwnWritesSeen ==
    /\ feed["draft"].st = "idle" /\ ~feed["draft"].error /\ page.here
    => feed["draft"].data # None /\ feed["draft"].data.rev >= page.own

(* Publishing is refused only when the Workflow is gone: two members who   *)
(* publish at once take turns on the Draft's row, and neither runs into    *)
(* the other's number (routes.py:156, FOR UPDATE before max + 1).          *)
PublishLands == \A m \in Member : minting[m] # None => Inserts(m)


(* A save the page was told of is shown: its document, or a newer one, is  *)
(* what the query ends with, unless a fetch fails or the person leaves.    *)
SavesShow ==
    \A n \in 1..4 : page.own = n ~> \/ feed["draft"].data # None /\ feed["draft"].data.rev >= n
                                    \/ feed["draft"].error \/ ~page.here

(* Documents fit the contract: the stored ones altogether, and the edited  *)
(* copy but for what the page cannot prevent, after any sequence of tools, *)
(* saves, restores, recordings and re-picks by anybody.                    *)
DocumentsFit == TypeOK /\ StoredFits /\ EditsFit

(* The page's own writes land and show: publishing does not run into       *)
(* another member's, and a save the page was told of is in its Draft once  *)
(* its query is idle, and gets there (invalidateQueries of the mutations,  *)
(* publish_workflow_version).                                              *)
OwnWritesLand == [](OwnWritesSeen /\ PublishLands) /\ SavesShow
=============================================================================

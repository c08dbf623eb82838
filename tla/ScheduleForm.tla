---------------------------- MODULE ScheduleForm ----------------------------
(***************************************************************************)
(* The screens of Schedules in the web app, for one Schedule: the form     *)
(* that creates or edits it (workflows/[id]/schedules) and the list with   *)
(* its toggle, its expansion and run-now (app/(shell)/schedules), against  *)
(* the handlers of the API.                                                *)
(*                                                                         *)
(* Both screens read through a cache of queries.  A screen that opens      *)
(* shows what the cache has and asks again; an invalidation abandons the   *)
(* request under way and sends another.  The form takes its fields from    *)
(* the cache once, as each thing it needs arrives.                         *)
(***************************************************************************)
EXTENDS FormBase, Recurrence

CONSTANTS
    Schedules,      \* Schedules there may be at first, or None
    Crons,          \* expressions a person may type
    Times,          \* times a person may pick, <<hour, minute>>
    Zones, BrowserZone, DefaultZone,
    LastRuns        \* Runs of the Workflow, newest first: [trigger, values]

VARIABLES
    sched,      \* the Schedule in the database, or None
    page,       \* which screen is open: "none", "list" or "form"
    list,       \* the query of the list
    detail,     \* the query of the Schedule's detail
    row,        \* the list's row: expanded, its mutations, what the tab owes it
    sf          \* the form

scheduleVars == <<sched, page, list, detail, row, sf>>

(* ver counts the writes; hole is the latest occurrence that did not run.  *)
Schedule(cron, zone, enabled, values) ==
    [cron |-> cron, zone |-> zone, enabled |-> enabled, values |-> values,
     ver |-> 0, running |-> FALSE, hole |-> None]

ask == [at |-> "none", enabled |-> FALSE]
Row == [open |-> FALSE, toggle |-> ask, fire |-> "none", owed |-> 0]

Form(id) == [id |-> id, doc |-> 0, zoned |-> FALSE, mode |-> None, asked |-> None,
             zone |-> None, values |-> None, enabled |-> TRUE, tried |-> FALSE,
             error |-> FALSE, saving |-> "none", body |-> None]

ScheduleFormTypeOK ==
    /\ page \in {"none", "list", "form"}
    /\ sched # None => /\ sched.hole \in {"overlap", "missed", "missing_values", None}
                       /\ is_valid(sched.cron) /\ sched.zone \in Zones
    /\ row.toggle.at \in {"none", "sent", "done"}
    /\ row.fire \in {"none", "sent", "done", "refused"}
    /\ sf # None => /\ sf.id \in {"new", "edit"} /\ sf.doc \in 0 .. published
                    /\ sf.saving \in {"none", "sent", "stored", "refused"}
                    /\ (sf.doc # 0 /\ sf.mode # None) => sf.values # None

ASSUME SchedulesAssumption ==
    \A s \in Schedules \ {None} : s = Schedule(s.cron, s.zone, s.enabled, s.values)

ScheduleOps == {"edit", "sentence", "values", "list", "elsewhere", "fire"}
ScheduleFormInit ==
    /\ sched \in IF left.ops \cap ScheduleOps = {} THEN {None} ELSE Schedules
    /\ page = "none" /\ list = Query /\ detail = Query
    /\ row = Row /\ sf = None

missing_from(s) == public_variable_names \ DOMAIN s.values
derived_state(s) ==
    IF ~s.enabled THEN "paused" ELSE IF missing_from(s) # {} THEN "needs_values" ELSE "active"
as_summary(s) ==
    IF s = None THEN None
    ELSE [cron |-> s.cron, enabled |-> s.enabled, state |-> derived_state(s),
          missing |-> missing_from(s), hole |-> s.hole, ver |-> s.ver]

-----------------------------------------------------------------------------
(* What happens elsewhere: another tab's patch, the minute loop, a Run.    *)

Elsewhere ==
    /\ Act("elsewhere") /\ sched # None
    /\ sched' = [sched EXCEPT !.enabled = ~@, !.ver = @ + 1]
    /\ UNCHANGED <<page, list, detail, row, sf, published>>

handle_due ==
    /\ Act("fire") /\ sched # None /\ sched.enabled
    /\ sched' = IF missing_from(sched) # {} THEN [sched EXCEPT !.hole = "missing_values"]
                ELSE IF sched.running THEN [sched EXCEPT !.hole = "overlap"]
                ELSE [sched EXCEPT !.running = TRUE]
    /\ UNCHANGED <<page, list, detail, row, sf, published>>

RunEnds ==
    /\ sched # None /\ sched.running /\ sched' = [sched EXCEPT !.running = FALSE]
    /\ UNCHANGED <<page, list, detail, row, sf, published, left>>

-----------------------------------------------------------------------------
(* The list.                                                               *)

Lists(op) == page = "list" /\ Act(op) /\ UNCHANGED <<page, detail, sf, published>>

OpenList ==
    /\ page # "list" /\ Act("list")
    /\ page' = "list" /\ list' = Mount(list) /\ row' = Row
    /\ sf' = IF sf # None /\ sf.saving # "none" THEN sf ELSE None
    /\ UNCHANGED <<sched, detail, published>>

fetchSchedulePage ==
    /\ list.fetch # None /\ ~list.fetch.read
    /\ list' = Read(list, as_summary(sched))
    /\ UNCHANGED <<sched, page, detail, row, sf, published, left>>

ListArrives ==
    /\ list.fetch # None
    /\ \/ list.fetch.read /\ list' = Arrive(list) /\ UNCHANGED left
       \/ Trouble /\ list' = Fail(list)
    /\ UNCHANGED <<sched, page, detail, row, sf, published>>

getSchedule ==
    /\ detail.fetch # None /\ ~detail.fetch.read
    /\ detail' = Read(detail, sched)
    /\ UNCHANGED <<sched, page, list, row, sf, published, left>>

Expand ==
    /\ page = "list" /\ Act("list") /\ list.data # None /\ ~row.open
    /\ row' = [row EXCEPT !.open = TRUE] /\ detail' = Mount(detail)
    /\ UNCHANGED <<sched, page, list, sf, published>>

\* The checkbox shows the cached row: clicking it asks for the opposite.
ClickToggle ==
    /\ Lists("list") /\ list.data # None /\ row.toggle.at = "none"
    /\ row' = [row EXCEPT !.toggle = [at |-> "sent", enabled |-> ~list.data.enabled]]
    /\ UNCHANGED <<sched, list>>

patchEnabled ==
    /\ row.toggle.at = "sent"
    /\ sched' = [sched EXCEPT !.enabled = row.toggle.enabled, !.ver = @ + 1]
    /\ row' = [row EXCEPT !.toggle.at = "done"]
    /\ UNCHANGED <<page, list, detail, sf, published, left>>

\* The answer invalidates the lists; a lost one leaves them alone.
ToggleAnswers ==
    /\ row.toggle.at = "done"
    /\ \/ /\ list' = IF page = "list" THEN Invalidate(list) ELSE list
          /\ row' = [row EXCEPT !.toggle = ask, !.owed = IF page = "list" THEN sched.ver ELSE 0]
          /\ UNCHANGED left
       \/ Trouble /\ row' = [row EXCEPT !.toggle = ask] /\ UNCHANGED list
    /\ UNCHANGED <<sched, page, detail, sf, published>>

\* The banner over an expanded row: a red one to set values, or the story of
\* the occurrence that did not run; only that of an overlap offers run-now.
needsValuesBanner == list.data.state = "needs_values"
overlapBanner == list.data.hole = "overlap"

ClickRunNow ==
    /\ Lists("list") /\ row.open /\ list.data # None /\ detail.data # None
    /\ ~detail.error /\ overlapBanner /\ row.fire \notin {"sent", "done"}
    /\ row' = [row EXCEPT !.fire = "sent"]
    /\ UNCHANGED <<sched, list>>

run_schedule_now ==
    LET refused == missing_from(sched) # {} \/ sched.running IN
    /\ row.fire = "sent"
    /\ sched' = IF refused THEN sched ELSE [sched EXCEPT !.running = TRUE, !.ver = @ + 1]
    /\ row' = [row EXCEPT !.fire = IF refused THEN "refused" ELSE "done"]
    /\ UNCHANGED <<page, list, detail, sf, published, left>>

RunNowAnswers ==
    /\ row.fire = "done"
    /\ \/ /\ list' = IF page = "list" THEN Invalidate(list) ELSE list
          /\ detail' = IF page = "list" THEN Invalidate(detail) ELSE detail
          /\ row' = [row EXCEPT !.fire = "none", !.owed = IF page = "list" THEN sched.ver ELSE 0]
          /\ UNCHANGED left
       \/ Trouble /\ row' = [row EXCEPT !.fire = "refused"] /\ UNCHANGED <<list, detail>>
    /\ UNCHANGED <<sched, page, sf, published>>

-----------------------------------------------------------------------------
(* The form: opening it.                                                   *)

Columns == Versions[sf.doc]
defaultTimezone == IF BrowserZone \in Zones THEN BrowserZone ELSE DefaultZone

(* The effects that fill the fields, each once, from what is there: the    *)
(* recurrence and the zone from the Schedule, the values and the enabled   *)
(* box from the Schedule and the document.                                 *)
Settled(f, data) ==
    LET edit == f.id = "edit"
        has == data # None
        fresh == f.mode = None /\ (edit => has)
        fill == f.values = None /\ f.doc # 0 /\ (edit => has)
        columns == Versions[f.doc]
    IN [f EXCEPT
          !.mode = IF ~fresh THEN @ ELSE IF edit THEN openExisting(data.cron) ELSE Sentence(daily(9, 0)),
          !.asked = IF ~fresh THEN @ ELSE IF edit THEN Meaning(data.cron) ELSE Meaning(toCron(daily(9, 0))),
          !.zone = IF @ # None THEN @ ELSE IF edit THEN (IF has THEN data.zone ELSE None)
                   ELSE IF f.zoned THEN defaultTimezone ELSE None,
          !.values = IF ~fill THEN @
                     ELSE IF edit THEN applyCopiedBatch(columns, <<data.values>>)[1]
                     ELSE emptyRow(columns),
          !.enabled = IF fill /\ edit THEN data.enabled ELSE @]

OpenForm ==
    /\ page # "form" /\ sf = None /\ Act("edit")
    /\ page' = "form" /\ row' = [row EXCEPT !.open = FALSE, !.owed = 0]
    /\ \/ /\ sched = None /\ sf' = Settled(Form("new"), None) /\ UNCHANGED detail
       \/ /\ sched # None /\ detail' = Mount(detail)
          /\ sf' = Settled(Form("edit"), detail.data)
    /\ UNCHANGED <<sched, list, published>>

InForm == page = "form" /\ sf # None

\* The document arrives, and again when a refetch finds a newer Version.
DocumentArrives ==
    /\ InForm /\ sf.doc < published
    /\ sf' = Settled([sf EXCEPT !.doc = published], detail.data)
    /\ UNCHANGED <<sched, page, list, detail, row, published, left>>

InstanceArrives ==
    /\ InForm /\ ~sf.zoned
    /\ sf' = Settled([sf EXCEPT !.zoned = TRUE], detail.data)
    /\ UNCHANGED <<sched, page, list, detail, row, published, left>>

DetailArrives ==
    /\ detail.fetch # None
    /\ \/ detail.fetch.read /\ detail' = Arrive(detail) /\ UNCHANGED left
       \/ Trouble /\ detail' = Fail(detail)
    /\ sf' = IF InForm /\ sf.id = "edit" THEN Settled(sf, detail'.data) ELSE sf
    /\ UNCHANGED <<sched, page, list, row, published>>

-----------------------------------------------------------------------------
(* The form: the recurrence.  asked is what the person last asked for.     *)

Ready == /\ InForm /\ sf.doc # 0 /\ sf.mode # None /\ sf.zone # None /\ sf.values # None
         /\ sf.id = "edit" => ~detail.error
Edits_(op) == Ready /\ Act(op) /\ UNCHANGED <<sched, page, list, detail, row, published>>
Asks(mode, meaning) == sf' = [sf EXCEPT !.mode = mode, !.asked = meaning]

ChoosePreset == Edits_("sentence") /\ \E r \in PRESETS : Asks(Sentence(r), Meaning(toCron(r)))

TypeCron == Edits_("sentence") /\ sf.mode.raw /\ \E c \in Crons : Asks(writeCronInstead(c), Meaning(c))

WriteCron == Edits_("sentence") /\ ~sf.mode.raw /\ Asks(writeCronInstead(cronOf(sf.mode)), sf.asked)

\* "back to the sentence", offered when there is one.
BackToSentence == Edits_("sentence") /\ sf.mode.raw /\ ~openExisting(sf.mode.cron).raw
    /\ Asks(openExisting(sf.mode.cron), sf.asked)

Says(kinds) == Edits_("sentence") /\ ~sf.mode.raw /\ sf.mode.recurrence.kind \in kinds
Now == sf.mode.recurrence

PickFrequency == Says(Kinds) /\ \E k \in Kinds \ {Now.kind} :
    LET r == withFrequency(Now, k) IN Asks(Sentence(r), Meaning(toCron(r)))

\* The interval of minutes, the weekday or the day of the month.
PickNumber ==
    \/ Says({"everyNMinutes"}) /\ \E n \in {5, 30} :
         Asks(Sentence(everyNMinutes(n)), [sf.asked EXCEPT !.minute = FieldSet(Step(n), 0, 59)])
    \/ Says({"weekly"}) /\ \E d \in {0, 6} :
         Asks(Sentence([Now EXCEPT !.weekdays = <<d>>]), [sf.asked EXCEPT !.weekday = {d}])
    \/ Says({"monthly"}) /\ \E d \in {1, 31} :
         Asks(Sentence([Now EXCEPT !.n = d]), [sf.asked EXCEPT !.day = {d}])

\* An hourly sentence has a minute only.
PickTime == Says(Kinds \ {"everyNMinutes"}) /\ \E t \in Times :
    Asks(Sentence(withClock(Now, t[1], t[2])),
         [sf.asked EXCEPT !.minute = {t[2]}, !.hour = IF Now.kind = "hourly" THEN @ ELSE {t[1]}])

PickZone == Edits_("sentence") /\ \E z \in Zones \ {sf.zone} : sf' = [sf EXCEPT !.zone = z]

-----------------------------------------------------------------------------
(* The form: the values, and saving.                                       *)

TypeValue == Edits_("values") /\ \E n \in PlainNames(Columns), v \in Typed :
    sf' = [sf EXCEPT !.values = setCell(@, Columns, n, v)]

TickEnabled == Edits_("values") /\ sf' = [sf EXCEPT !.enabled = ~@]

lastNonTestVariables ==
    LET runs == SelectSeq(LastRuns, LAMBDA r : r.trigger # "test")
    IN IF runs = <<>> THEN None ELSE Head(runs).values

FillFromLastRun == Edits_("values") /\ lastNonTestVariables # None
    /\ sf' = [sf EXCEPT !.values = applyCopiedBatch(Columns, <<lastNonTestVariables>>)[1]]

\* Mutant: a value is there when its name is.
namesWithout == PlainNames(Columns) \ DOMAIN sf.values
emptyVariableNames == {n \in PlainNames(Columns) : trim(Cell(sf.values, n)) = Blank}

scheduleBody ==
    [cron |-> cronOf(sf.mode), zone |-> sf.zone, enabled |-> sf.enabled,
     values |-> submittedVariables(sf.values, Columns)]

submit ==
    /\ Ready /\ sf.saving = "none" /\ Act("edit")
    /\ sf' = IF emptyVariableNames # {} THEN [sf EXCEPT !.tried = TRUE]
             ELSE [sf EXCEPT !.tried = TRUE, !.saving = "sent", !.body = scheduleBody]
    /\ UNCHANGED <<sched, page, list, detail, row, published>>

\* create_schedule and update_schedule.
SaveCommits ==
    LET b == sf.body
        refused == ~is_valid(b.cron) \/ ~(public_variable_names \subseteq DOMAIN b.values)
        old == IF sched = None THEN Schedule(b.cron, b.zone, b.enabled, b.values) ELSE sched
    IN
    /\ sf # None /\ sf.saving = "sent"
    /\ sf' = [sf EXCEPT !.saving = IF refused THEN "refused" ELSE "stored"]
    /\ sched' = IF refused THEN sched
                ELSE [old EXCEPT !.cron = b.cron, !.zone = b.zone, !.enabled = b.enabled,
                                 !.values = stored_variables(b.values), !.ver = @ + 1]
    /\ UNCHANGED <<page, list, detail, row, published, left>>

\* A save that went well leads to the list; it invalidates nothing.
SaveAnswers ==
    /\ sf # None /\ sf.saving \in {"stored", "refused"}
    /\ \/ /\ sf.saving = "stored" /\ page' = "list" /\ list' = Mount(list) /\ row' = Row
          /\ sf' = None /\ UNCHANGED left
       \/ /\ sf.saving = "stored" => Trouble
          /\ sf.saving = "refused" => UNCHANGED left
          /\ sf' = [sf EXCEPT !.saving = "none", !.error = TRUE]
          /\ UNCHANGED <<page, list, row>>
    /\ UNCHANGED <<sched, detail, published>>

ScheduleFormNext ==
    \/ Elsewhere \/ handle_due \/ RunEnds
    \/ OpenList \/ fetchSchedulePage \/ ListArrives \/ getSchedule \/ Expand
    \/ ClickToggle \/ patchEnabled \/ ToggleAnswers
    \/ ClickRunNow \/ run_schedule_now \/ RunNowAnswers
    \/ OpenForm \/ DocumentArrives \/ InstanceArrives \/ DetailArrives
    \/ ChoosePreset \/ TypeCron \/ WriteCron \/ BackToSentence
    \/ PickFrequency \/ PickNumber \/ PickTime \/ PickZone
    \/ TypeValue \/ TickEnabled \/ FillFromLastRun \/ submit \/ SaveCommits \/ SaveAnswers

-----------------------------------------------------------------------------
(* Properties.                                                             *)

(* The form's expression means what the person asked for, from the         *)
(* Schedule as it was opened over every switch between the sentence and    *)
(* raw cron, and it can always be written out (toCron throws a RangeError  *)
(* that would take the page down).                                         *)
SentenceSays ==
    sf # None /\ sf.mode # None =>
        /\ ~sf.mode.raw => InRange(sf.mode.recurrence)
        /\ Meaning(cronOf(sf.mode)) = sf.asked

(* A save never stores a Schedule with an empty value: the form refuses    *)
(* blanks and the API refuses names that lack, and between them they cover *)
(* the Version of that moment, whichever one the form was filled in for.   *)
SavesAll ==
    sf # None /\ sf.saving = "sent" /\ sched' # sched /\ sf' # sf =>
        \A n \in public_variable_names : trim(Cell(sched'.values, n)) # Blank
SavedComplete == [][SavesAll]_<<scheduleVars, published, left>>

(* A toggle or a run-now of the list, once answered, is seen by the list:  *)
(* a request that began before it does not have the last word.             *)
ListCatchesUp ==
    []<>(page # "list" \/ list.error \/ row.owed = 0 \/ (list.data # None /\ list.data.ver >= row.owed))
=============================================================================

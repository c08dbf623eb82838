---------------------------- MODULE ScheduleFire ----------------------------
(***************************************************************************)
(* One Schedule: the minute loop that fires it (schedules/fire.py), the    *)
(* requests that change it or run it now (schedules/routes.py) and the     *)
(* Runs it started.  Time is counted in ticks of some unit; a cron         *)
(* expression in its timezone is the set of instants it names.             *)
(*                                                                         *)
(* The loop holds the due Schedule FOR UPDATE from its read to its commit. *)
(* A request reads without a lock and writes the columns it changed.       *)
(***************************************************************************)
EXTENDS Naturals, FiniteSets, FiniteSetsExt

CONSTANTS
    MaxTime,      \* bound: the last instant
    Crons,        \* the instants of each cron expression
    GRACE_WINDOW, OCCURRENCE_PRUNE_DEPTH,
    Users,        \* request handlers at work at once
    Operations,   \* what they are asked for
    MaxAsks,      \* bound: requests
    None

Times == 0 .. MaxTime

ASSUME ScheduleAssumption ==
    /\ MaxTime \in Nat /\ GRACE_WINDOW \in Nat /\ MaxAsks \in Nat
    /\ OCCURRENCE_PRUNE_DEPTH \in Nat \ {0}
    /\ Crons \subseteq SUBSET Times /\ Crons # {}
    /\ Operations \subseteq {"on", "off", "cron", "values", "run_now", "delete"}
    /\ None \notin Times

VARIABLES
    now,
    s,          \* the Schedule
    holes,      \* its schedule_occurrences: [instants -> reason]
    started,    \* how many Runs it has started
    open,       \* those that have not ended
    loop,       \* the tick at work
    handler,    \* [Users -> the request at work]
    asks,
    fires,      \* history: [Times -> how often the instant was fired]
    since       \* history: the first instant the present settings account for

vars == <<now, s, holes, started, open, loop, handler, asks, fires, since>>

Never == MaxTime + 1       \* next_due_at past the end of the model
Reasons == {"overlap", "missed", "missing_values"}

\* values: variables hold every public Variable of the published Version.
Schedule == [exists : BOOLEAN, enabled : BOOLEAN, values : BOOLEAN,
             cron : Crons, due : Times \cup {Never, None}]

Holes == UNION {[T -> Reasons] : T \in SUBSET Times}

\* What a tick will commit.
Tick == [fires : SUBSET Times, holes : Holes, due : Times \cup {Never}]

\* What run_schedule_now will do.
RunNow == [run_now |-> TRUE]

\* The columns another request will write.
Columns ==
    [enabled : {FALSE}, due : {None}] \cup [enabled : {TRUE}, due : Times \cup {Never}]
    \cup [cron : Crons, due : Times \cup {Never}] \cup [cron : Crons]
    \cup [values : BOOLEAN] \cup [exists : {FALSE}, enabled : {FALSE}] \cup {<< >>}

TypeOK ==
    /\ now \in Times
    /\ s \in Schedule
    /\ holes \in Holes
    /\ started \in Nat
    /\ open \subseteq 1 .. started
    /\ loop \in Tick \cup {None}
    /\ handler \in [Users -> Columns \cup {RunNow, None}]
    /\ asks \in 0 .. MaxAsks
    /\ fires \in [Times -> Nat]
    /\ since \in Times \cup {Never, None}

-----------------------------------------------------------------------------
(* cron.py                                                                 *)

next_occurrence(cron, after) ==
    IF \E t \in cron : t > after THEN Min({t \in cron : t > after}) ELSE Never

occurrences_through(cron, from, until) == {t \in cron : from <= t /\ t <= until}

Newest(T, n) == {t \in T : Cardinality({u \in T : u > t}) < n}

-----------------------------------------------------------------------------
(* fire.py                                                                 *)

Due == s.exists /\ s.enabled /\ s.due # None /\ s.due <= now

\* Mutant: occurrences the instance slept through are fired late.
CatchUp(times) == {}

\* split_by_grace: too late to fire.
Late(times) == {t \in times : now - t > GRACE_WINDOW}

\* Mutant: the occurrence that fires is also recorded as a hole.
FireAndRecord(times) ==
    LET onTime == times \ Late(times) IN
    [fires |-> IF s.values /\ open = {} /\ onTime # {} THEN {Min(onTime)} ELSE {},
     holes |-> [t \in times |-> IF ~s.values THEN "missing_values"
                                ELSE IF t \in Late(times) THEN "missed" ELSE "overlap"]]

\* Mutant: occurrences that are too late leave no hole.
ForgetLate(times) ==
    LET onTime == times \ Late(times)
        fired == IF s.values /\ open = {} /\ onTime # {} THEN {Min(onTime)} ELSE {}
    IN [fires |-> fired,
        holes |-> [t \in onTime \ fired |-> IF s.values THEN "overlap" ELSE "missing_values"]]

\* The first occurrence on time fires unless a Run is open; every other one
\* leaves a hole that says why.
Outcome(times) ==
    LET onTime == times \ Late(times)
        fired == IF s.values /\ open = {} /\ onTime # {} THEN {Min(onTime)} ELSE {}
    IN [fires |-> fired,
        holes |-> [t \in times \ fired |-> IF ~s.values THEN "missing_values"
                                           ELSE IF t \in Late(times) THEN "missed"
                                           ELSE "overlap"]]

\* Mutant: a Schedule without its values is left as it is.
DueStays ==
    LET times == Newest(occurrences_through(s.cron, s.due, now), OCCURRENCE_PRUNE_DEPTH)
    IN IF ~s.values
       THEN [fires |-> {}, holes |-> << >>, due |-> s.due]
       ELSE [fires |-> Outcome(times).fires, holes |-> Outcome(times).holes,
             due |-> next_occurrence(s.cron, Max(times))]

\* handle_due up to its commit.
handle_due ==
    LET times == Newest(occurrences_through(s.cron, s.due, now), OCCURRENCE_PRUNE_DEPTH)
    IN IF times = {}
       THEN [fires |-> {}, holes |-> << >>, due |-> next_occurrence(s.cron, now)]
       ELSE [fires |-> Outcome(times).fires, holes |-> Outcome(times).holes,
             due |-> next_occurrence(s.cron, Max(times))]

fire_due_schedules ==
    /\ loop = None
    /\ Due
    /\ loop' = handle_due
    /\ UNCHANGED <<now, s, holes, started, open, handler, asks, fires, since>>

prune_occurrences(h) ==
    LET kept == Newest(DOMAIN h, OCCURRENCE_PRUNE_DEPTH) IN [t \in kept |-> h[t]]

\* An occurrence has one row: UNIQUE (schedule_id, occurrence_at).
Duplicate == DOMAIN loop.holes \cap DOMAIN holes # {}

\* The holes there are, and those of this tick.
Recorded ==
    [t \in DOMAIN loop.holes \cup DOMAIN holes |->
        IF t \in DOMAIN loop.holes THEN loop.holes[t] ELSE holes[t]]

\* commit; should the constraint fail, the whole tick is rolled back.
TickCommit ==
    /\ loop # None
    /\ loop' = None
    /\ IF Duplicate THEN UNCHANGED <<s, holes, started, open, fires>>
       ELSE /\ holes' = prune_occurrences(Recorded)
            /\ started' = started + Cardinality(loop.fires)
            /\ open' = open \cup {started + n : n \in 1 .. Cardinality(loop.fires)}
            /\ fires' = [t \in Times |-> IF t \in loop.fires THEN fires[t] + 1 ELSE fires[t]]
            /\ s' = [s EXCEPT !.due = loop.due]
    /\ UNCHANGED <<now, handler, asks, since>>

-----------------------------------------------------------------------------
(* routes.py.  A handler keeps the columns it will write.                  *)

\* update_schedule with one field asked for.  Turning off clears next_due_at;
\* turning on or a new cron computes it anew.
Patch(op, cron) ==
    CASE op = "off"    -> IF s.enabled THEN [enabled |-> FALSE, due |-> None] ELSE << >>
      [] op = "on"     -> IF s.enabled THEN << >>
                          ELSE [enabled |-> TRUE, due |-> next_occurrence(s.cron, now)]
      [] op = "cron"   -> IF s.enabled
                          THEN [cron |-> cron, due |-> next_occurrence(cron, now)]
                          ELSE [cron |-> cron]
      [] op = "values" -> [values |-> TRUE]
      [] op = "delete" -> [exists |-> FALSE, enabled |-> FALSE]

Ask(u, op) ==
    /\ op \in Operations
    /\ s.exists
    /\ handler[u] = None
    /\ asks < MaxAsks
    /\ asks' = asks + 1

update_schedule(u, op, cron) ==
    /\ op # "run_now"
    /\ Ask(u, op)
    /\ handler' = [handler EXCEPT ![u] = Patch(op, cron)]
    /\ UNCHANGED <<now, s, holes, started, open, loop, fires, since>>

\* The Schedule with the columns of p written.
Updated(p) ==
    LET column(c) == IF c \in DOMAIN p THEN p[c] ELSE s[c]
    IN [exists |-> column("exists"), enabled |-> column("enabled"),
        values |-> column("values"), cron |-> column("cron"), due |-> column("due")]

\* Its UPDATE waits while the loop holds the row; of a row that is gone it fails.
UpdateCommit(u) ==
    /\ handler[u] \notin {None, RunNow}
    /\ loop = None
    /\ s' = IF s.exists THEN Updated(handler[u]) ELSE s
    /\ since' = IF s.exists /\ "due" \in DOMAIN handler[u] THEN handler[u].due ELSE since
    /\ handler' = [handler EXCEPT ![u] = None]
    /\ UNCHANGED <<now, holes, started, open, loop, asks, fires>>

\* run_schedule_now: 409 without values or while a Run is open.
run_schedule_now(u) ==
    /\ Ask(u, "run_now")
    /\ s.values
    /\ open = {}
    /\ handler' = [handler EXCEPT ![u] = RunNow]
    /\ UNCHANGED <<now, s, holes, started, open, loop, fires, since>>

\* The Run refers to the Schedule, so it waits for the loop too.
RunNowCommit(u) ==
    /\ handler[u] = RunNow
    /\ loop = None
    /\ started' = IF s.exists THEN started + 1 ELSE started
    /\ open' = IF s.exists THEN open \cup {started + 1} ELSE open
    /\ handler' = [handler EXCEPT ![u] = None]
    /\ UNCHANGED <<now, s, holes, loop, asks, fires, since>>

-----------------------------------------------------------------------------
(* The environment: time, Runs that end, a Version that wants new values.  *)

Passes ==
    /\ now < MaxTime
    /\ now' = now + 1
    /\ UNCHANGED <<s, holes, started, open, loop, handler, asks, fires, since>>

RunEnds(r) ==
    /\ r \in open
    /\ open' = open \ {r}
    /\ UNCHANGED <<now, s, holes, started, loop, handler, asks, fires, since>>

\* What a request wrote down for the Variables it read lacks the new one.
Outdated(p) == IF p # None /\ "values" \in DOMAIN p THEN [values |-> FALSE] ELSE p

PublishNeedsValues ==
    /\ "values" \in Operations
    /\ s' = [s EXCEPT !.values = FALSE]
    /\ handler' = [u \in Users |-> Outdated(handler[u])]
    /\ UNCHANGED <<now, holes, started, open, loop, asks, fires, since>>

\* create_schedule.
Init ==
    /\ now = 0
    /\ \E cron \in Crons, enabled \in BOOLEAN :
          s = [exists |-> TRUE, enabled |-> enabled, values |-> TRUE, cron |-> cron,
               due |-> IF enabled THEN next_occurrence(cron, 0) ELSE None]
    /\ since = s.due
    /\ holes = << >>
    /\ started = 0 /\ open = {} /\ asks = 0
    /\ loop = None
    /\ handler = [u \in Users |-> None]
    /\ fires = [t \in Times |-> 0]

Next ==
    \/ fire_due_schedules \/ TickCommit
    \/ \E u \in Users :
          \/ \E op \in Operations, cron \in Crons : update_schedule(u, op, cron)
          \/ UpdateCommit(u) \/ run_schedule_now(u) \/ RunNowCommit(u)
    \/ Passes
    \/ \E r \in 1 .. started : RunEnds(r)
    \/ PublishNeedsValues

Spec == Init /\ [][Next]_vars

\* The loop wakes every minute and its transactions end.
Fairness ==
    /\ WF_vars(fire_due_schedules)
    /\ WF_vars(TickCommit)

FairSpec == Spec /\ Fairness

-----------------------------------------------------------------------------
(* Properties.                                                             *)

(* "An Occurrence row is written only when no Run was created", and no     *)
(* occurrence creates two: whatever toggles and late ticks do, an instant  *)
(* is fired once, or has a hole, or neither.                               *)
OneOutcome ==
    \A t \in Times : fires[t] <= 1 /\ (fires[t] = 1 => t \notin DOMAIN holes)

(* Nothing is lost silently: between the instant the present settings      *)
(* count from and next_due_at, every occurrence fired or left a hole, as   *)
(* far back as prune_occurrences keeps them.                               *)
Accounted ==
    s.exists /\ s.enabled =>
       \A t \in s.cron : since <= t /\ t < s.due =>
          \/ fires[t] = 1
          \/ t \in DOMAIN holes
          \/ Cardinality({u \in DOMAIN holes \cup {v \in Times : fires[v] > 0} : u > t})
                >= OCCURRENCE_PRUNE_DEPTH

(* A due Schedule is dealt with: next_due_at moves past now, so one bad    *)
(* Schedule does not hold up the loop.                                     *)
DueHandled == Due ~> ~Due

(* "Missed occurrences -> skipped entirely, never caught up": what fires   *)
(* was due within the grace window, and at most one Run comes of a tick.   *)
NeverCaughtUp ==
    [][loop = None /\ loop' # None =>
          /\ Cardinality(loop'.fires) <= 1
          /\ \A t \in loop'.fires : now - t <= GRACE_WINDOW]_vars
=============================================================================

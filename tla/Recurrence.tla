---------------------------- MODULE Recurrence ----------------------------
(***************************************************************************)
(* lib/recurrence.ts and the sentence of the Schedule form (schedules/     *)
(* creation.ts): the closed grammar between sentences and cron.            *)
(*                                                                         *)
(* A cron expression is a record of five fields; a field is [k, a]: "star" *)
(* without numbers, "step" for */n, "list" for n,m,.. and "range" for n-m. *)
(* A field nobody can read is "junk".  A number is written in one way.     *)
(***************************************************************************)
EXTENDS Integers, Sequences, FiniteSets, SequencesExt

CONSTANT NoRecurrence

Star == [k |-> "star", a |-> <<>>]
Step(n) == [k |-> "step", a |-> <<n>>]
List(s) == [k |-> "list", a |-> s]
Num(n) == List(<<n>>)
Span(n, m) == [k |-> "range", a |-> <<n, m>>]
Junk == [k |-> "junk", a |-> <<>>]

Cron(minute, hour, day, weekday) ==
    [minute |-> minute, hour |-> hour, day |-> day, month |-> Star, weekday |-> weekday]

(* What the server's croniter reads: the numbers a field stands for.  This *)
(* is the meaning the properties compare, and require_cron's verdict.      *)
FieldSet(f, lo, hi) ==
    CASE f.k = "star" -> lo .. hi
      [] f.k = "step" -> {x \in lo .. hi : (x - lo) % f.a[1] = 0}
      [] f.k = "list" -> Range(f.a)
      [] f.k = "range" -> f.a[1] .. f.a[2]
      [] OTHER -> {}
FieldValid(f, lo, hi) ==
    /\ f.k \in {"star", "step", "list", "range"}
    /\ f.k = "step" => f.a[1] >= 1
    /\ FieldSet(f, lo, hi) # {} /\ FieldSet(f, lo, hi) \subseteq lo .. hi
is_valid(c) ==
    /\ FieldValid(c.minute, 0, 59) /\ FieldValid(c.hour, 0, 23)
    /\ FieldValid(c.day, 1, 31) /\ FieldValid(c.month, 1, 12)
    /\ FieldValid(c.weekday, 0, 7)
\* With both a day and a weekday given, cron fires on either: both are kept.
Meaning(c) ==
    [minute |-> FieldSet(c.minute, 0, 59), hour |-> FieldSet(c.hour, 0, 23),
     day |-> IF c.day = Star THEN {} ELSE FieldSet(c.day, 1, 31),
     month |-> FieldSet(c.month, 1, 12),
     weekday |-> IF c.weekday = Star THEN {}
                 ELSE {x % 7 : x \in FieldSet(c.weekday, 0, 7)}]

-----------------------------------------------------------------------------
(* A Recurrence: every kind has all the fields, those it lacks being 0.    *)

Kinds == {"everyNMinutes", "hourly", "daily", "weekdays", "weekly", "monthly"}
Rec(kind, n, weekdays, hour, minute) ==
    [kind |-> kind, n |-> n, weekdays |-> weekdays, hour |-> hour, minute |-> minute]
everyNMinutes(n) == Rec("everyNMinutes", n, <<>>, 0, 0)
hourly(minute) == Rec("hourly", 0, <<>>, 0, minute)
daily(hour, minute) == Rec("daily", 0, <<>>, hour, minute)
onWeekdays(hour, minute) == Rec("weekdays", 0, <<>>, hour, minute)
weekly(days, hour, minute) == Rec("weekly", 0, days, hour, minute)
monthly(day, hour, minute) == Rec("monthly", day, <<>>, hour, minute)

\* What toCron does not refuse with a RangeError.
InRange(r) ==
    /\ r.minute \in 0 .. 59 /\ r.hour \in 0 .. 23
    /\ r.kind = "everyNMinutes" => r.n \in 1 .. 59
    /\ r.kind = "monthly" => r.n \in 1 .. 31
    /\ r.kind = "weekly" => /\ r.weekdays # <<>> /\ Range(r.weekdays) \subseteq 0 .. 6
                            /\ Cardinality(Range(r.weekdays)) = Len(r.weekdays)

toCron(r) ==
    CASE r.kind = "everyNMinutes" -> Cron(Step(r.n), Star, Star, Star)
      [] r.kind = "hourly" -> Cron(Num(r.minute), Star, Star, Star)
      [] r.kind = "daily" -> Cron(Num(r.minute), Num(r.hour), Star, Star)
      [] r.kind = "weekdays" -> Cron(Num(r.minute), Num(r.hour), Star, Span(1, 5))
      [] r.kind = "weekly" -> Cron(Num(r.minute), Num(r.hour), Star, List(r.weekdays))
      [] r.kind = "monthly" -> Cron(Num(r.minute), Num(r.hour), Num(r.n), Star)

parseNumber(f, lo, hi) == f.k = "list" /\ Len(f.a) = 1 /\ f.a[1] \in lo .. hi
Days(f) == /\ f.k = "list" /\ Range(f.a) \subseteq 0 .. 6
           /\ Cardinality(Range(f.a)) = Len(f.a)

\* Mutant: the month is not looked at.
AnyMonth(c) ==
    LET m == c.minute.a[1] h == c.hour.a[1]
        time == parseNumber(c.minute, 0, 59) /\ parseNumber(c.hour, 0, 23)
    IN
    CASE time /\ c.day = Star /\ c.weekday = Star -> daily(h, m)
      [] OTHER -> NoRecurrence

\* The sentence of an expression, or NoRecurrence when the grammar has none.
fromCron(c) ==
    LET time == parseNumber(c.minute, 0, 59) /\ parseNumber(c.hour, 0, 23)
        everyHour == c.hour = Star /\ c.day = Star /\ c.weekday = Star
        m == c.minute.a[1] h == c.hour.a[1]
    IN
    IF c.month # Star THEN NoRecurrence
    ELSE CASE c.minute.k = "step" /\ everyHour ->
                IF c.minute.a[1] \in 1 .. 59 THEN everyNMinutes(c.minute.a[1]) ELSE NoRecurrence
           [] parseNumber(c.minute, 0, 59) /\ everyHour -> hourly(m)
           [] time /\ c.day = Star /\ c.weekday = Star -> daily(h, m)
           [] time /\ c.day = Star /\ c.weekday = Span(1, 5) -> onWeekdays(h, m)
           [] time /\ c.day = Star /\ Days(c.weekday) -> weekly(c.weekday.a, h, m)
           [] time /\ c.weekday = Star /\ parseNumber(c.day, 1, 31) -> monthly(c.day.a[1], h, m)
           [] OTHER -> NoRecurrence

-----------------------------------------------------------------------------
(* The form's mode: a sentence, or the raw expression.                     *)

Sentence(r) == [raw |-> FALSE, recurrence |-> r]
writeCronInstead(c) == [raw |-> TRUE, cron |-> c]
cronOf(mode) == IF mode.raw THEN mode.cron ELSE toCron(mode.recurrence)
openExisting(c) ==
    IF fromCron(c) = NoRecurrence THEN writeCronInstead(c) ELSE Sentence(fromCron(c))

PRESETS == {hourly(0), everyNMinutes(15), daily(9, 0), onWeekdays(9, 0),
            weekly(<<1>>, 7, 30), monthly(1, 0, 0)}

\* The hour and minute a change of frequency starts from.
clockOf(r) == IF r.kind = "everyNMinutes" THEN <<9, 0>>
              ELSE IF r.kind = "hourly" THEN <<0, r.minute>> ELSE <<r.hour, r.minute>>

withFrequency(r, kind) ==
    LET h == clockOf(r)[1] m == clockOf(r)[2] same == r.kind = kind IN
    CASE kind = "everyNMinutes" -> everyNMinutes(IF same THEN r.n ELSE 15)
      [] kind = "hourly" -> hourly(m)
      [] kind = "daily" -> daily(h, m)
      [] kind = "weekdays" -> onWeekdays(h, m)
      [] kind = "weekly" -> weekly(IF same THEN r.weekdays ELSE <<1>>, h, m)
      [] kind = "monthly" -> monthly(IF same THEN r.n ELSE 1, h, m)

withClock(r, hour, minute) ==
    CASE r.kind = "everyNMinutes" -> r
      [] r.kind = "hourly" -> hourly(minute)
      [] OTHER -> [r EXCEPT !.hour = hour, !.minute = minute]
=============================================================================

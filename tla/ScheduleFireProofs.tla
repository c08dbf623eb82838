------------------------- MODULE ScheduleFireProofs -------------------------
(***************************************************************************)
(* Proofs about ScheduleFire for any cron expressions, grace window, depth *)
(* of pruning and length of time: what a tick fires was due just now, with *)
(* requests that come one at a time and leave the cron expression alone    *)
(* an occurrence has one outcome, and none is lost before prune_occurrences *)
(* may drop it.                                                            *)
(*                                                                         *)
(* The invariant: every occurrence dealt with lies before next_due_at, and *)
(* before the next_due_at a request is about to write; a tick at work      *)
(* deals with the occurrences from next_due_at up to its new value.  That  *)
(* pruning loses nothing is a fact about Newest: if the newest n of a set  *)
(* miss an element, there are n of them above it.                          *)
(***************************************************************************)
EXTENDS ScheduleFire, FiniteSetTheorems, WellFoundedInduction, TLAPS

Fired == {v \in Times : fires[v] > 0}

\* Occurrences that fired or left a hole that is still there.
Dealt == DOMAIN holes \cup Fired

\* t is in T, or T has as many later ones as prune_occurrences keeps.
Kept(T, t) == t \in T \/ Cardinality({u \in T : u > t}) >= OCCURRENCE_PRUNE_DEPTH

-----------------------------------------------------------------------------
(* Least, greatest and newest elements.                                    *)

LessThan == {p \in Nat \X Nat : p[1] < p[2]}

(* Min of a set of naturals.                                               *)
LEMMA LeastOf ==
    ASSUME NEW S, S \subseteq Nat, S # {}
    PROVE  Min(S) \in S /\ \A y \in S : Min(S) <= y
  <1>1. IsWellFoundedOn(LessThan, Nat)
    BY NatLessThanWellFounded DEF OpToRel, LessThan
  <1>2. PICK x \in S : \A y \in S : <<y, x>> \notin LessThan
    BY <1>1, WFMin
  <1>3. ASSUME NEW y \in S PROVE x <= y
    <2>1. <<y, x>> \in Nat \X Nat /\ <<y, x>> \notin LessThan
      BY <1>2
    <2>2. ~(y < x)
      BY <2>1 DEF LessThan
    <2> QED BY <2>2
  <1> QED BY <1>3 DEF Min

(* Max of a bounded set of naturals.                                       *)
LEMMA GreatestOf ==
    ASSUME NEW n \in Nat, NEW S, S \subseteq 0 .. n, S # {}
    PROVE  Max(S) \in S /\ \A y \in S : Max(S) >= y
  <1> DEFINE E == {n - y : y \in S}
  <1>0. \A y \in S : y \in Nat /\ n - y \in Nat
    OBVIOUS
  <1>1. E \subseteq Nat /\ E # {}
    BY <1>0
  <1>2. Min(E) \in E /\ \A y \in E : Min(E) <= y
    BY <1>1, LeastOf
  <1>3. PICK x \in S : Min(E) = n - x
    BY <1>2
  <1>4. \A y \in S : n - x <= n - y
    BY <1>2, <1>3
  <1>5. \A y \in S : x >= y
    BY <1>0, <1>4
  <1> QED BY <1>5 DEF Max

(* The bounds are naturals, and one hole is kept at least.                 *)
LEMMA Bounds ==
    /\ MaxTime \in Nat /\ GRACE_WINDOW \in Nat /\ MaxAsks \in Nat
    /\ OCCURRENCE_PRUNE_DEPTH \in Nat /\ OCCURRENCE_PRUNE_DEPTH > 0
    /\ \A t \in Times : t \in Nat /\ t <= MaxTime
  BY ScheduleAssumption DEF Times

USE Bounds

(* A set of instants has a size, and a smaller one a smaller size.         *)
LEMMA Sizes ==
    ASSUME NEW T \in SUBSET Times
    PROVE  IsFiniteSet(T) /\ Cardinality(T) \in Nat
           /\ \A S \in SUBSET T : Cardinality(S) \in Nat /\ Cardinality(S) <= Cardinality(T)
  <1>1. IsFiniteSet(0 .. MaxTime)
    BY FS_Interval
  <1>2. IsFiniteSet(T)
    BY <1>1, FS_Subset
  <1>3. \A S \in SUBSET T : Cardinality(S) <= Cardinality(T) /\ IsFiniteSet(S)
    BY <1>2, FS_Subset
  <1> QED BY <1>2, <1>3, FS_CardinalityType

(* The newest of a set stand for all of it.                                *)
LEMMA NewestStand ==
    ASSUME NEW H \in SUBSET Times, NEW t \in Times, Kept(H, t)
    PROVE  Kept(Newest(H, OCCURRENCE_PRUNE_DEPTH), t)
  <1> DEFINE N == Newest(H, OCCURRENCE_PRUNE_DEPTH)
             A == {u \in H : u > t}
             K == {u \in N : u > t}
  <1>0. N \subseteq H /\ \A u \in H : u \in N <=> Cardinality({v \in H : v > u}) < OCCURRENCE_PRUNE_DEPTH
    BY DEF Newest
  <1> SUFFICES ASSUME t \notin N, ~(Cardinality(K) >= OCCURRENCE_PRUNE_DEPTH) PROVE FALSE
    BY DEF Kept
  <1> HIDE DEF N
  <1>1. A \in SUBSET Times /\ K \in SUBSET A
    BY <1>0
  <1>2. Cardinality(A) \in Nat /\ Cardinality(K) \in Nat
    BY <1>1, Sizes
  <1>3. Cardinality(A) >= OCCURRENCE_PRUNE_DEPTH
    <2>1. CASE t \in H
      <3>1. ~(Cardinality(A) < OCCURRENCE_PRUNE_DEPTH)
        BY <2>1, <1>0
      <3> QED BY <3>1, <1>2
    <2>2. CASE t \notin H
      BY <2>2 DEF Kept
    <2> QED BY <2>1, <2>2
  <1> DEFINE R == A \ K
  <1>4. R # {}
    BY <1>1, <1>2, <1>3
  <1> DEFINE m == Max(R)
  <1>5. m \in R /\ \A y \in R : m >= y
    BY <1>1, <1>4, GreatestOf
  <1> HIDE DEF m
  <1> DEFINE later == {v \in H : v > m}
  <1>6. m \in H /\ m > t /\ m \notin N
    BY <1>5
  <1>7. later \in SUBSET K
    <2> SUFFICES ASSUME NEW v \in H, v > m PROVE v \in K
      OBVIOUS
    <2>1. v > t /\ v \in A
      BY <1>6
    <2>2. v \notin R
      BY <1>5, <1>6
    <2> QED BY <2>1, <2>2
  <1>8. Cardinality(later) \in Nat /\ Cardinality(later) <= Cardinality(K)
    BY <1>0, <1>1, <1>7, Sizes
  <1>9. Cardinality(later) < OCCURRENCE_PRUNE_DEPTH
    BY <1>2, <1>8
  <1> QED BY <1>0, <1>6, <1>9

(* More is kept of a larger set.                                           *)
LEMMA KeptOfMore ==
    ASSUME NEW T \in SUBSET Times, NEW S \in SUBSET T, NEW t \in Times, Kept(S, t)
    PROVE  Kept(T, t)
  <1> DEFINE a == {u \in S : u > t}
             b == {u \in T : u > t}
  <1>1. b \in SUBSET Times /\ a \in SUBSET b
    OBVIOUS
  <1>2. Cardinality(a) \in Nat /\ Cardinality(b) \in Nat /\ Cardinality(a) <= Cardinality(b)
    BY <1>1, Sizes
  <1> QED BY <1>2 DEF Kept

(* Pruning the holes H loses nothing of what they and A account for.       *)
LEMMA KeptAfterPruning ==
    ASSUME NEW A \in SUBSET Times, NEW H \in SUBSET Times, NEW t \in Times, Kept(A \cup H, t)
    PROVE  Kept(A \cup Newest(H, OCCURRENCE_PRUNE_DEPTH), t)
  <1> DEFINE N == Newest(H, OCCURRENCE_PRUNE_DEPTH)
  <1>0. N \in SUBSET H /\ \A u \in H : u \in N <=> Cardinality({v \in H : v > u}) < OCCURRENCE_PRUNE_DEPTH
    BY DEF Newest
  <1>1. CASE \E p \in H : p >= t /\ p \notin N
    <2> PICK p \in H : p >= t /\ p \notin N
      BY <1>1
    <2>1. {v \in H : v > p} \in SUBSET Times
      OBVIOUS
    <2>2. Cardinality({v \in H : v > p}) \in Nat
      BY <2>1, Sizes
    <2>3. Kept(H, p)
      BY DEF Kept
    <2>4. Kept(N, p)
      BY <2>3, NewestStand
    <2> HIDE DEF N
    <2>5. Cardinality({v \in N : v > p}) >= OCCURRENCE_PRUNE_DEPTH
      BY <2>4 DEF Kept
    <2> DEFINE a == {v \in N : v > p}
               b == {v \in A \cup N : v > t}
    <2>6. b \in SUBSET Times /\ a \in SUBSET b
      <3>1. \A v \in A \cup N : v \in Times
        BY <1>0
      <3>2. \A v \in N : v > p => v > t
        BY <1>0
      <3> QED BY <3>1, <3>2
    <2>7. Cardinality(a) \in Nat /\ Cardinality(b) \in Nat /\ Cardinality(a) <= Cardinality(b)
      BY <2>6, Sizes
    <2>8. Cardinality(b) >= OCCURRENCE_PRUNE_DEPTH
      BY <2>5, <2>7
    <2>9. Kept(A \cup N, t)
      BY <2>8 DEF Kept
    <2> QED BY <2>9 DEF N
  <1>2. CASE \A p \in H : p >= t => p \in N
    <2> HIDE DEF N
    <2>0. \A u \in A \cup H : u \in Nat
      OBVIOUS
    <2>1. {u \in A \cup H : u > t} = {u \in A \cup N : u > t} /\ (t \in A \cup H => t \in A \cup N)
      <3>0. \A u \in H : u > t => u >= t
        BY <2>0
      <3>1. \A u \in A \cup H : u > t => u \in A \cup N
        BY <1>2, <3>0
      <3>2. t \in A \cup H => t \in A \cup N
        BY <1>2, <2>0
      <3>3. A \cup N \subseteq A \cup H
        BY <1>0
      <3> QED BY <3>1, <3>2, <3>3
    <2>2. Kept(A \cup N, t)
      BY <2>1 DEF Kept
    <2> QED BY <2>2 DEF N
  <1> QED BY <1>1, <1>2

-----------------------------------------------------------------------------
(* What the functions of cron.py and fire.py return.                       *)

(* The next occurrence lies after the instant asked about, and none of the *)
(* expression lies between.                                                *)
LEMMA NextIs ==
    ASSUME NEW cron \in Crons, NEW after \in Times
    PROVE  /\ next_occurrence(cron, after) \in Times \cup {Never}
           /\ next_occurrence(cron, after) \in Nat
           /\ next_occurrence(cron, after) > after
           /\ \A t \in cron : t > after => t >= next_occurrence(cron, after)
  <1> DEFINE L == {t \in cron : t > after}
  <1>0. cron \in SUBSET Times
    BY ScheduleAssumption
  <1>1. CASE L # {}
    <2>1. L \subseteq Nat
      <3>1. L \subseteq Times /\ Times \subseteq Nat
        BY <1>0
      <3> QED BY <3>1
    <2>2. Min(L) \in L /\ \A y \in L : Min(L) <= y
      BY <1>1, <2>1, LeastOf
    <2>3. next_occurrence(cron, after) = Min(L)
      BY <1>1 DEF next_occurrence
    <2> DEFINE m == Min(L)
    <2> HIDE DEF m
    <2>4. m \in cron /\ m > after /\ m \in Times
      BY <1>0, <2>2 DEF m
    <2>5. \A t \in cron : t > after => t >= m
      BY <1>0, <2>2, <2>4 DEF m
    <2> QED BY <2>3, <2>4, <2>5 DEF m
  <1>2. CASE L = {}
    <2>1. next_occurrence(cron, after) = Never
      BY <1>2 DEF next_occurrence
    <2>2. Never \in Nat /\ Never > after
      BY DEF Never
    <2> QED BY <1>2, <2>1, <2>2
  <1> QED BY <1>1, <1>2

(* Holes of a set of instants are Holes.                                   *)
LEMMA HolesOf ==
    ASSUME NEW T \in SUBSET Times, NEW h \in [T -> Reasons]
    PROVE  h \in Holes
  BY DEF Holes

(* What is known of holes.                                                 *)
LEMMA HolesHave ==
    ASSUME NEW h \in Holes
    PROVE  h \in [DOMAIN h -> Reasons] /\ DOMAIN h \in SUBSET Times
  BY DEF Holes

(* The empty sequence leaves no hole.                                      *)
LEMMA NoHoles == << >> \in Holes /\ DOMAIN << >> = {}
  <1>1. << >> \in [{} -> Reasons]
    OBVIOUS
  <1> QED BY <1>1, HolesOf

(* Occurrences that are due: one of those on time fires, at most, and the  *)
(* others leave a hole.                                                    *)
LEMMA OutcomeIs ==
    ASSUME TypeOK, NEW times \in SUBSET Times
    PROVE  /\ Outcome(times).fires \in SUBSET times
           /\ Outcome(times).holes \in Holes
           /\ DOMAIN Outcome(times).holes = times \ Outcome(times).fires
           /\ Cardinality(Outcome(times).fires) <= 1
           /\ \A t \in Outcome(times).fires : now - t <= GRACE_WINDOW
  <1> DEFINE onTime == times \ Late(times)
             fired == IF s.values /\ open = {} /\ onTime # {} THEN {Min(onTime)} ELSE {}
             left == [t \in times \ fired |-> IF ~s.values THEN "missing_values"
                                              ELSE IF t \in Late(times) THEN "missed"
                                              ELSE "overlap"]
  <1>1. Outcome(times) = [fires |-> fired, holes |-> left]
    BY DEF Outcome
  <1>2. Outcome(times).fires = fired /\ Outcome(times).holes = left
    BY <1>1
  <1>3. now \in Times
    BY DEF TypeOK
  <1>4. onTime \subseteq times /\ \A t \in onTime : now - t <= GRACE_WINDOW
    BY <1>3 DEF Late
  <1>5. onTime # {} => Min(onTime) \in onTime
    <2>1. onTime \subseteq Nat
      BY <1>4
    <2> QED BY <2>1, LeastOf
  <1>6. fired \in SUBSET onTime
    BY <1>5
  <1>7. Cardinality(fired) <= 1
    <2>1. Cardinality({}) = 0 /\ Cardinality({Min(onTime)}) = 1
      BY FS_EmptySet, FS_Singleton
    <2>2. fired = {} \/ fired = {Min(onTime)}
      OBVIOUS
    <2> HIDE DEF fired, onTime
    <2> QED BY <2>1, <2>2
  <1> HIDE DEF fired, onTime
  <1>8. left \in [times \ fired -> Reasons] /\ DOMAIN left = times \ fired
    BY DEF Reasons
  <1>9. left \in Holes
    BY <1>8, HolesOf
  <1> QED BY <1>2, <1>4, <1>6, <1>7, <1>8, <1>9

(* What a due Schedule is given: what it fires was due within the grace    *)
(* window; the occurrences it deals with lie between next_due_at and now,  *)
(* and before the new next_due_at; up to there, the ones it does not deal  *)
(* with have enough later ones that are dealt with.                        *)
LEMMA HandleDueIs ==
    ASSUME TypeOK, Due
    PROVE  /\ handle_due \in Tick
           /\ Cardinality(handle_due.fires) <= 1
           /\ \A t \in handle_due.fires : now - t <= GRACE_WINDOW
           /\ handle_due.fires \cap DOMAIN handle_due.holes = {}
           /\ \A t \in handle_due.fires \cup DOMAIN handle_due.holes :
                 s.due <= t /\ t <= now /\ t < handle_due.due
           /\ s.due < handle_due.due
           /\ \A t \in s.cron : s.due <= t /\ t < handle_due.due =>
                 Kept(handle_due.fires \cup DOMAIN handle_due.holes, t)
  <1> DEFINE occ == occurrences_through(s.cron, s.due, now)
             times == Newest(occ, OCCURRENCE_PRUNE_DEPTH)
  <1>0. now \in Times /\ s.cron \in Crons /\ s.due \in Times /\ s.cron \in SUBSET Times
    <2>1. now \in Times /\ s.cron \in Crons /\ s.due \in Times \cup {Never, None} /\ s.due # None /\ s.due <= now
      BY DEF TypeOK, Schedule, Due
    <2>2. s.due # Never
      BY <2>1 DEF Never
    <2> QED BY <2>1, <2>2, ScheduleAssumption
  <1>1. /\ occ \in SUBSET Times
        /\ \A t \in s.cron : t \in occ <=> (s.due <= t /\ t <= now)
        /\ \A t \in occ : t \in s.cron
    BY <1>0 DEF occurrences_through
  <1>2. times \in SUBSET occ /\ s.due <= now
    BY DEF Newest, Due
  <1> HIDE DEF occ
  <1>3. \A t \in occ : Kept(times, t)
    <2> TAKE t \in occ
    <2>1. Kept(occ, t)
      BY DEF Kept
    <2> QED BY <1>1, <2>1, NewestStand
  <1>4. CASE times = {}
    <2> DEFINE d == [fires |-> {}, holes |-> << >>, due |-> next_occurrence(s.cron, now)]
    <2>1. handle_due = d
      BY <1>4 DEF handle_due, occ
    <2>2. d.fires = {} /\ d.holes = << >> /\ d.due = next_occurrence(s.cron, now)
      OBVIOUS
    <2>3. d \in Tick
      BY <1>0, NextIs, NoHoles DEF Tick
    <2>4. occ = {}
      <3>1. Cardinality({u \in {} : u > 0}) = 0
        BY FS_EmptySet
      <3>2. \A t \in occ : Cardinality({u \in times : u > t}) = 0
        BY <1>4, FS_EmptySet
      <3> QED BY <1>3, <1>4, <3>2 DEF Kept
    <2>5. /\ d.due \in Nat /\ d.due > now
          /\ \A t \in s.cron : t > now => t >= d.due
      BY <1>0, <2>2, NextIs
    <2>6. \A t \in s.cron : s.due <= t /\ t < d.due => FALSE
      BY <1>0, <1>1, <2>4, <2>5
    <2>7. Cardinality(d.fires) <= 1 /\ d.fires \cup DOMAIN d.holes = {}
      BY <2>2, FS_EmptySet, NoHoles
    <2>8. s.due < d.due
      BY <1>0, <1>2, <2>5
    <2> HIDE DEF d
    <2> QED BY <2>1, <2>3, <2>6, <2>7, <2>8
  <1>5. CASE times # {}
    <2> DEFINE o == Outcome(times)
               last == Max(times)
               d == [fires |-> o.fires, holes |-> o.holes, due |-> next_occurrence(s.cron, last)]
    <2>1. handle_due = d
      BY <1>5 DEF handle_due, occ
    <2>2. /\ o.fires \in SUBSET times /\ o.holes \in Holes /\ DOMAIN o.holes = times \ o.fires
          /\ Cardinality(o.fires) <= 1 /\ \A t \in o.fires : now - t <= GRACE_WINDOW
      BY <1>1, <1>2, OutcomeIs
    <2>3. last \in times /\ \A y \in times : last >= y
      BY <1>1, <1>2, <1>5, GreatestOf
    <2> HIDE DEF o, last, times
    <2>4. d.fires = o.fires /\ d.holes = o.holes /\ d.due = next_occurrence(s.cron, last)
      OBVIOUS
    <2>5. last \in Times /\ s.due <= last /\ last <= now
      <3>1. last \in occ /\ last \in s.cron
        BY <1>1, <1>2, <2>3
      <3> QED BY <1>1, <3>1
    <2>6. /\ d.due \in Times \cup {Never} /\ d.due \in Nat /\ d.due > last
          /\ \A t \in s.cron : t > last => t >= d.due
      BY <1>0, <2>4, <2>5, NextIs
    <2>7. d \in Tick
      BY <1>1, <1>2, <2>2, <2>4, <2>6 DEF Tick
    <2> HIDE DEF d
    <2>8. d.fires \cup DOMAIN d.holes = times /\ d.fires \cap DOMAIN d.holes = {}
      BY <2>2, <2>4
    <2>9. \A t \in times : s.due <= t /\ t <= now /\ t < d.due
      <3> TAKE t \in times
      <3>1. t \in occ /\ t \in s.cron /\ t \in Times /\ last >= t
        BY <1>1, <1>2, <2>3
      <3>2. s.due <= t /\ t <= now
        BY <1>1, <3>1
      <3>3. t < d.due
        BY <2>5, <2>6, <3>1
      <3> QED BY <3>2, <3>3
    <2>10. ASSUME NEW t \in s.cron, s.due <= t /\ t < d.due PROVE Kept(times, t)
      <3>1. t <= last
        BY <1>0, <2>5, <2>6, <2>10
      <3>2. t \in Times /\ t <= now
        BY <1>0, <2>5, <3>1
      <3>3. t \in occ
        BY <1>1, <2>10, <3>2
      <3> QED BY <1>3, <3>3
    <2>11. s.due < d.due
      BY <1>0, <2>5, <2>6
    <2> QED BY <2>1, <2>2, <2>4, <2>7, <2>8, <2>9, <2>10, <2>11
  <1> QED BY <1>4, <1>5

-----------------------------------------------------------------------------
(* Types, whatever is asked and by however many.                           *)

(* A request keeps columns of their types (update_schedule).               *)
LEMMA PatchIs ==
    ASSUME TypeOK, NEW op \in Operations, op # "run_now", NEW cron \in Crons
    PROVE  Patch(op, cron) \in Columns
  <1>0. now \in Times /\ s.cron \in Crons
    BY DEF TypeOK, Schedule
  <1>1. next_occurrence(s.cron, now) \in Times \cup {Never}
        /\ next_occurrence(cron, now) \in Times \cup {Never}
    BY <1>0, NextIs
  <1>2. op \in {"on", "off", "cron", "values", "delete"}
    BY ScheduleAssumption
  <1>3. CASE op = "off"
    BY <1>3 DEF Patch, Columns
  <1>4. CASE op = "on"
    <2>1. CASE s.enabled
      BY <1>4, <2>1 DEF Patch, Columns
    <2>2. CASE ~s.enabled
      <3>1. Patch(op, cron) = [enabled |-> TRUE, due |-> next_occurrence(s.cron, now)]
        BY <1>4, <2>2 DEF Patch
      <3>2. Patch(op, cron) \in [enabled : {TRUE}, due : Times \cup {Never}]
        BY <1>1, <3>1
      <3> QED BY <3>2 DEF Columns
    <2> QED BY <2>1, <2>2
  <1>5. CASE op = "cron"
    <2>1. CASE s.enabled
      <3>1. Patch(op, cron) = [cron |-> cron, due |-> next_occurrence(cron, now)]
        BY <1>5, <2>1 DEF Patch
      <3>2. Patch(op, cron) \in [cron : Crons, due : Times \cup {Never}]
        BY <1>1, <3>1
      <3> QED BY <3>2 DEF Columns
    <2>2. CASE ~s.enabled
      BY <1>5, <2>2 DEF Patch, Columns
    <2> QED BY <2>1, <2>2
  <1>6. CASE op = "values"
    BY <1>6 DEF Patch, Columns
  <1>7. CASE op = "delete"
    BY <1>7 DEF Patch, Columns
  <1> QED BY <1>2, <1>3, <1>4, <1>5, <1>6, <1>7

(* The columns of a request, each in its type.                             *)
LEMMA ColumnsHave ==
    ASSUME NEW p \in Columns
    PROVE  /\ "exists" \in DOMAIN p => p["exists"] = FALSE
           /\ "enabled" \in DOMAIN p => p["enabled"] \in BOOLEAN
           /\ "values" \in DOMAIN p => p["values"] \in BOOLEAN
           /\ "cron" \in DOMAIN p => p["cron"] \in Crons
           /\ "due" \in DOMAIN p => p["due"] \in Times \cup {Never, None}
  <1>1. CASE p \in [enabled : {FALSE}, due : {None}]
    <2>1. DOMAIN p = {"enabled", "due"}
      BY <1>1
    <2> QED BY <1>1, <2>1
  <1>2. CASE p \in [enabled : {TRUE}, due : Times \cup {Never}]
    <2>1. DOMAIN p = {"enabled", "due"}
      BY <1>2
    <2> QED BY <1>2, <2>1
  <1>3. CASE p \in [cron : Crons, due : Times \cup {Never}]
    <2>1. DOMAIN p = {"cron", "due"}
      BY <1>3
    <2> QED BY <1>3, <2>1
  <1>4. CASE p \in [cron : Crons]
    <2>1. DOMAIN p = {"cron"}
      BY <1>4
    <2> QED BY <1>4, <2>1
  <1>5. CASE p \in [values : BOOLEAN]
    <2>1. DOMAIN p = {"values"}
      BY <1>5
    <2> QED BY <1>5, <2>1
  <1>6. CASE p \in [exists : {FALSE}, enabled : {FALSE}]
    <2>1. DOMAIN p = {"exists", "enabled"}
      BY <1>6
    <2> QED BY <1>6, <2>1
  <1>7. CASE p = << >>
    BY <1>7, NoHoles
  <1> QED BY <1>1, <1>2, <1>3, <1>4, <1>5, <1>6, <1>7 DEF Columns

(* An UPDATE leaves a Schedule.                                            *)
LEMMA UpdatedIs ==
    ASSUME s \in Schedule, NEW p \in Columns
    PROVE  Updated(p) \in Schedule
  <1> DEFINE column(c) == IF c \in DOMAIN p THEN p[c] ELSE s[c]
  <1>1. /\ column("exists") \in BOOLEAN /\ column("enabled") \in BOOLEAN
        /\ column("values") \in BOOLEAN /\ column("cron") \in Crons
        /\ column("due") \in Times \cup {Never, None}
    BY ColumnsHave DEF Schedule
  <1> HIDE DEF column
  <1>2. [exists |-> column("exists"), enabled |-> column("enabled"),
         values |-> column("values"), cron |-> column("cron"), due |-> column("due")] \in Schedule
    BY <1>1 DEF Schedule
  <1> QED BY <1>2 DEF Updated, column

(* Holes and pruned holes are Holes.                                       *)
LEMMA PrunedIs ==
    ASSUME NEW h \in Holes
    PROVE  /\ prune_occurrences(h) \in Holes
           /\ DOMAIN prune_occurrences(h) = Newest(DOMAIN h, OCCURRENCE_PRUNE_DEPTH)
  <1> DEFINE N == Newest(DOMAIN h, OCCURRENCE_PRUNE_DEPTH)
  <1>1. h \in [DOMAIN h -> Reasons] /\ DOMAIN h \in SUBSET Times
    BY HolesHave
  <1>2. N \in SUBSET DOMAIN h
    BY DEF Newest
  <1>3. prune_occurrences(h) = [t \in N |-> h[t]]
    BY DEF prune_occurrences
  <1> HIDE DEF N
  <1>4. N \in SUBSET Times /\ [t \in N |-> h[t]] \in [N -> Reasons] /\ DOMAIN [t \in N |-> h[t]] = N
    BY <1>1, <1>2
  <1>5. [t \in N |-> h[t]] \in Holes
    BY <1>4, HolesOf
  <1> QED BY <1>3, <1>4, <1>5 DEF N

(* The holes there are and those of a tick.                                *)
LEMMA RecordedIs ==
    ASSUME holes \in Holes, loop \in Tick
    PROVE  Recorded \in Holes /\ DOMAIN Recorded = DOMAIN loop.holes \cup DOMAIN holes
  <1>1. /\ loop.holes \in [DOMAIN loop.holes -> Reasons] /\ DOMAIN loop.holes \in SUBSET Times
        /\ holes \in [DOMAIN holes -> Reasons] /\ DOMAIN holes \in SUBSET Times
    BY HolesHave DEF Tick
  <1>2. DOMAIN Recorded = DOMAIN loop.holes \cup DOMAIN holes
    BY DEF Recorded
  <1>3. Recorded \in [DOMAIN loop.holes \cup DOMAIN holes -> Reasons]
    BY <1>1 DEF Recorded
  <1>4. DOMAIN loop.holes \cup DOMAIN holes \in SUBSET Times
    BY <1>1
  <1> QED BY <1>2, <1>3, <1>4, HolesOf

(* A commit of the loop keeps the types.                                   *)
LEMMA CommitTyped ==
    ASSUME TypeOK, TickCommit
    PROVE  TypeOK'
  <1>1. CASE Duplicate
    BY <1>1 DEF TypeOK, TickCommit
  <1>2. CASE ~Duplicate
    <2> DEFINE c == Cardinality(loop.fires)
    <2>1. /\ loop \in Tick /\ loop' = None /\ UNCHANGED <<now, handler, asks, since>>
          /\ holes' = prune_occurrences(Recorded) /\ started' = started + c
          /\ open' = open \cup {started + n : n \in 1 .. c}
          /\ fires' = [t \in Times |-> IF t \in loop.fires THEN fires[t] + 1 ELSE fires[t]]
          /\ s' = [s EXCEPT !.due = loop.due]
      BY <1>2 DEF TypeOK, TickCommit
    <2>2. c \in Nat
      BY <2>1, Sizes DEF Tick
    <2> HIDE DEF c
    <2>3. holes' \in Holes
      BY <2>1, RecordedIs, PrunedIs DEF TypeOK
    <2>4. started' \in Nat
      BY <2>1, <2>2 DEF TypeOK
    <2>5. open' \subseteq 1 .. started'
      BY <2>1, <2>2 DEF TypeOK
    <2>6. fires' \in [Times -> Nat]
      BY <2>1 DEF TypeOK
    <2>7. s' \in Schedule
      BY <2>1 DEF TypeOK, Schedule, Tick
    <2> QED BY <2>1, <2>3, <2>4, <2>5, <2>6, <2>7 DEF TypeOK
  <1> QED BY <1>1, <1>2

(* Every step keeps the types.                                             *)
LEMMA StepTyped ==
    ASSUME TypeOK, [Next]_vars
    PROVE  TypeOK'
  <1>1. CASE fire_due_schedules
    <2>1. handle_due \in Tick
      BY <1>1, HandleDueIs DEF fire_due_schedules
    <2> QED BY <1>1, <2>1 DEF fire_due_schedules, TypeOK
  <1>2. CASE TickCommit
    BY <1>2, CommitTyped
  <1>3. ASSUME NEW u \in Users, NEW op \in Operations, NEW cron \in Crons, update_schedule(u, op, cron)
        PROVE  TypeOK'
    <2>1. Patch(op, cron) \in Columns
      BY <1>3, PatchIs DEF update_schedule
    <2>2. asks' \in 0 .. MaxAsks
      BY <1>3 DEF update_schedule, Ask, TypeOK
    <2> QED BY <1>3, <2>1, <2>2 DEF update_schedule, TypeOK
  <1>4. ASSUME NEW u \in Users, UpdateCommit(u) PROVE TypeOK'
    <2>1. handler[u] \in Columns
      BY <1>4 DEF UpdateCommit, TypeOK
    <2>2. s' \in Schedule
      BY <1>4, <2>1, UpdatedIs DEF UpdateCommit, TypeOK
    <2>3. since' \in Times \cup {Never, None}
      BY <1>4, <2>1, ColumnsHave DEF UpdateCommit, TypeOK
    <2> QED BY <1>4, <2>2, <2>3 DEF UpdateCommit, TypeOK
  <1>5. ASSUME NEW u \in Users, run_schedule_now(u) PROVE TypeOK'
    <2>1. asks' \in 0 .. MaxAsks
      BY <1>5 DEF run_schedule_now, Ask, TypeOK
    <2> QED BY <1>5, <2>1 DEF run_schedule_now, TypeOK
  <1>6. ASSUME NEW u \in Users, RunNowCommit(u) PROVE TypeOK'
    <2>1. started' \in Nat /\ open' \subseteq 1 .. started'
      BY <1>6 DEF RunNowCommit, TypeOK
    <2> QED BY <1>6, <2>1 DEF RunNowCommit, TypeOK
  <1>7. CASE Passes
    <2>1. now' \in Times
      BY <1>7 DEF Passes, TypeOK, Times
    <2> QED BY <1>7, <2>1 DEF Passes, TypeOK
  <1>8. ASSUME NEW r \in 1 .. started, RunEnds(r) PROVE TypeOK'
    BY <1>8 DEF RunEnds, TypeOK
  <1>9. CASE PublishNeedsValues
    <2>1. s' \in Schedule
      BY <1>9 DEF PublishNeedsValues, TypeOK, Schedule
    <2>2. handler' \in [Users -> Columns \cup {RunNow, None}]
      BY <1>9 DEF PublishNeedsValues, Outdated, TypeOK, Columns
    <2> QED BY <1>9, <2>1, <2>2 DEF PublishNeedsValues, TypeOK
  <1>10. CASE UNCHANGED vars
    BY <1>10 DEF vars, TypeOK
  <1> QED BY <1>1, <1>2, <1>3, <1>4, <1>5, <1>6, <1>7, <1>8, <1>9, <1>10 DEF Next

(* create_schedule has the types.                                          *)
LEMMA InitTyped == Init => TypeOK
  <1> SUFFICES ASSUME Init PROVE TypeOK
    OBVIOUS
  <1>1. PICK cron \in Crons, enabled \in BOOLEAN :
          s = [exists |-> TRUE, enabled |-> enabled, values |-> TRUE, cron |-> cron,
               due |-> IF enabled THEN next_occurrence(cron, 0) ELSE None]
    BY DEF Init
  <1>2. 0 \in Times
    BY DEF Times
  <1>3. next_occurrence(cron, 0) \in Times \cup {Never}
    BY <1>2, NextIs
  <1>4. s \in Schedule /\ s.due \in Times \cup {Never, None}
    BY <1>1, <1>3 DEF Schedule
  <1>5. holes \in Holes
    BY NoHoles DEF Init
  <1> QED BY <1>2, <1>4, <1>5 DEF Init, TypeOK

(* The types hold throughout.                                              *)
THEOREM TypeCorrect == Spec => []TypeOK
  <1>1. TypeOK /\ [Next]_vars => TypeOK'
    BY StepTyped
  <1> QED BY <1>1, InitTyped, PTL DEF Spec

(* "Missed occurrences -> skipped entirely, never caught up": whatever is  *)
(* asked, by however many at once, a tick starts one Run at most, for an   *)
(* occurrence within the grace window (handle_due, split_by_grace).        *)
THEOREM CatchesUpNever == Spec => NeverCaughtUp
  <1>1. ASSUME TypeOK, [Next]_vars, loop = None, loop' # None
        PROVE  Cardinality(loop'.fires) <= 1 /\ \A t \in loop'.fires : now - t <= GRACE_WINDOW
    <2>1. CASE fire_due_schedules
      BY <1>1, <2>1, HandleDueIs DEF fire_due_schedules
    <2>2. CASE ~fire_due_schedules
      <3>1. loop' = loop \/ loop' = None
        BY <1>1, <2>2 DEF Next, vars, TickCommit, update_schedule, UpdateCommit, run_schedule_now,
                          RunNowCommit, Passes, RunEnds, PublishNeedsValues
      <3> QED BY <1>1, <3>1
    <2> QED BY <2>1, <2>2
  <1>2. TypeOK /\ [Next]_vars =>
          [loop = None /\ loop' # None =>
              /\ Cardinality(loop'.fires) <= 1
              /\ \A t \in loop'.fires : now - t <= GRACE_WINDOW]_vars
    BY <1>1
  <1> QED BY <1>2, TypeCorrect, PTL DEF Spec, NeverCaughtUp

-----------------------------------------------------------------------------
(* One request at a time, and a cron expression that stays.                *)

Alone == (\A u, v \in Users : u = v) /\ "cron" \notin Operations

\* What a tick at work will commit.
TickFits(l) ==
    /\ s.enabled /\ s.due \in Times /\ s.due < l.due
    /\ l.fires \cap DOMAIN l.holes = {}
    /\ \A t \in l.fires \cup DOMAIN l.holes : s.due <= t /\ t <= now /\ t < l.due
    /\ \A t \in s.cron : s.due <= t /\ t < l.due => Kept(l.fires \cup DOMAIN l.holes, t)

\* The columns a request at work will write: it enables only what is disabled.
Pending(p) ==
    p \notin {None, RunNow} =>
        /\ p \in Columns /\ "cron" \notin DOMAIN p
        /\ "enabled" \in DOMAIN p /\ p["enabled"] =>
              /\ ~s.enabled /\ "due" \in DOMAIN p /\ p["due"] \in Times \cup {Never}
              /\ \A t \in Dealt : t < p["due"]
        /\ "due" \in DOMAIN p => "enabled" \in DOMAIN p

Inv ==
    /\ TypeOK
    /\ \A t \in Times : fires[t] <= 1
    /\ Fired \cap DOMAIN holes = {}
    /\ \A t \in Dealt : t <= now
    /\ s.enabled => /\ s.exists /\ s.due \in Times \cup {Never} /\ since \in Times \cup {Never}
                    /\ \A t \in Dealt : t < s.due
                    /\ \A t \in s.cron : since <= t /\ t < s.due => Kept(Dealt, t)
    /\ loop # None => TickFits(loop)
    /\ \A u \in Users : Pending(handler[u])

(* The invariant says what the two properties say.                         *)
LEMMA InvSays == Inv => OneOutcome /\ Accounted
  <1> SUFFICES ASSUME Inv PROVE OneOutcome /\ Accounted
    OBVIOUS
  <1>1. s \in Schedule /\ s.cron \in SUBSET Times /\ fires \in [Times -> Nat]
    BY ScheduleAssumption DEF Inv, TypeOK, Schedule
  <1>2. OneOutcome
    BY <1>1 DEF Inv, OneOutcome, Fired
  <1>3. ASSUME s.exists /\ s.enabled, NEW t \in s.cron, since <= t /\ t < s.due
        PROVE  \/ fires[t] = 1 \/ t \in DOMAIN holes
               \/ Cardinality({u \in DOMAIN holes \cup {v \in Times : fires[v] > 0} : u > t})
                     >= OCCURRENCE_PRUNE_DEPTH
    <2>1. t \in Times /\ Kept(Dealt, t)
      BY <1>1, <1>3 DEF Inv
    <2>2. CASE t \in Fired
      <3>1. fires[t] \in Nat /\ fires[t] > 0 /\ fires[t] <= 1
        BY <1>1, <2>1, <2>2 DEF Inv, Fired
      <3> QED BY <3>1
    <2>3. CASE t \notin Fired
      BY <2>1, <2>3 DEF Kept, Dealt, Fired
    <2> QED BY <2>2, <2>3
  <1> QED BY <1>2, <1>3 DEF Accounted

(* A due Schedule is read.                                                 *)
LEMMA FireKeeps ==
    ASSUME Inv, fire_due_schedules, TypeOK'
    PROVE  Inv'
  <1>1. loop' = handle_due /\ Due /\ UNCHANGED <<now, s, holes, started, open, handler, asks, fires, since>>
    BY DEF fire_due_schedules
  <1>2. s.enabled /\ s.due \in Times
    <2>1. s.enabled /\ s.due \in Times \cup {Never} /\ s.due <= now /\ now \in Times
      BY <1>1 DEF Due, Inv, TypeOK
    <2>2. s.due # Never
      BY <2>1 DEF Never
    <2> QED BY <2>1, <2>2
  <1>3. TickFits(handle_due)
    BY <1>1, <1>2, HandleDueIs DEF Inv, TickFits
  <1> QED BY <1>1, <1>3 DEF Inv, TickFits, Pending, Dealt, Fired

(* What a tick commits: it deals with nothing that was dealt with before,  *)
(* and pruning the holes leaves what accounts for the rest.                *)
LEMMA CommitKeeps ==
    ASSUME Inv, TickCommit, TypeOK'
    PROVE  Inv'
  <1>0. loop # None /\ loop \in Tick /\ TickFits(loop) /\ loop' = None /\ UNCHANGED <<now, handler, asks, since>>
    BY DEF TickCommit, Inv, TypeOK
  <1>1. CASE Duplicate
    <2>1. UNCHANGED <<s, holes, started, open, fires>>
      BY <1>1 DEF TickCommit
    <2> QED BY <1>0, <2>1 DEF Inv, Pending, Dealt, Fired
  <1>2. CASE ~Duplicate
    <2> DEFINE H == DOMAIN loop.holes \cup DOMAIN holes
               new == loop.fires \cup DOMAIN loop.holes
    <2>1. /\ holes' = prune_occurrences(Recorded)
          /\ fires' = [t \in Times |-> IF t \in loop.fires THEN fires[t] + 1 ELSE fires[t]]
          /\ s' = [s EXCEPT !.due = loop.due]
      BY <1>2 DEF TickCommit
    <2>2. /\ s \in Schedule /\ s.cron \in SUBSET Times /\ fires \in [Times -> Nat] /\ now \in Times
          /\ holes \in Holes /\ loop.due \in Times \cup {Never} /\ loop.due \in Nat
          /\ loop.fires \in SUBSET Times /\ loop.holes \in Holes
      BY <1>0, ScheduleAssumption DEF Inv, TypeOK, Schedule, Tick, Never
    <2>3. /\ s'.due = loop.due /\ s'.enabled = s.enabled /\ s'.exists = s.exists /\ s'.cron = s.cron
      BY <2>1, <2>2 DEF Schedule
    <2>4. /\ DOMAIN holes \in SUBSET Times /\ DOMAIN loop.holes \in SUBSET Times
          /\ H \in SUBSET Times /\ DOMAIN holes' = Newest(H, OCCURRENCE_PRUNE_DEPTH)
      <3>1. Recorded \in Holes /\ DOMAIN Recorded = H
        BY <1>0, <2>2, RecordedIs
      <3>2. DOMAIN holes' = Newest(H, OCCURRENCE_PRUNE_DEPTH)
        BY <2>1, <3>1, PrunedIs
      <3> QED BY <2>2, <3>2, HolesHave
    <2>5. DOMAIN holes' \in SUBSET H
      BY <2>4 DEF Newest
    <2>6. /\ s.enabled /\ s.exists /\ s.due \in Times /\ s.due < loop.due
          /\ since \in Times \cup {Never}
          /\ \A t \in Dealt : t \in Times /\ t < s.due /\ t <= now
          /\ \A t \in new : t \in Times /\ s.due <= t /\ t <= now /\ t < loop.due
          /\ loop.fires \cap DOMAIN loop.holes = {}
      BY <1>0, <2>2, <2>4 DEF Inv, TickFits, Dealt, Fired
    <2>7. \A t \in new : t \notin Dealt
      BY <2>6
    <2>8. Fired' = Fired \cup loop.fires
      <3>1. \A t \in Times : fires'[t] > 0 <=> (t \in loop.fires \/ fires[t] > 0)
        BY <2>1, <2>2
      <3> QED BY <2>2, <3>1 DEF Fired
    <2>9. \A t \in Times : fires'[t] <= 1
      <3> TAKE t \in Times
      <3>1. CASE t \in loop.fires
        <4>1. fires[t] \in Nat /\ ~(fires[t] > 0)
          BY <2>2, <2>7, <3>1 DEF Dealt, Fired
        <4> QED BY <2>1, <3>1, <4>1
      <3>2. CASE t \notin loop.fires
        BY <2>1, <3>2 DEF Inv
      <3> QED BY <3>1, <3>2
    <2> HIDE DEF H, new
    <2>10. Fired' \cap DOMAIN holes' = {}
      BY <2>5, <2>6, <2>7, <2>8 DEF Dealt, H, new, Inv
    <2>11. \A t \in Dealt' : t \in Dealt \cup new
      BY <2>5, <2>8 DEF Dealt, H, new
    <2>12. \A t \in Dealt' : t <= now /\ t < loop.due
      BY <2>2, <2>6, <2>11
    <2>13. ASSUME NEW t \in s.cron, since <= t /\ t < loop.due PROVE Kept(Dealt', t)
      <3>0. t \in Times /\ Fired' \in SUBSET Times
        BY <2>2 DEF Fired
      <3>1. Dealt \in SUBSET (Fired' \cup H) /\ new \in SUBSET (Fired' \cup H) /\ Fired' \cup H \in SUBSET Times
        BY <2>4, <2>8, <3>0 DEF Dealt, H, new
      <3>2. Kept(Fired' \cup H, t)
        <4>1. CASE t < s.due
          <5>1. Kept(Dealt, t)
            BY <2>6, <2>13, <4>1 DEF Inv
          <5> QED BY <3>0, <3>1, <5>1, KeptOfMore
        <4>2. CASE ~(t < s.due)
          <5>1. s.due <= t
            BY <2>6, <3>0, <4>2
          <5>2. Kept(new, t)
            BY <1>0, <2>13, <5>1 DEF TickFits, new
          <5> QED BY <3>0, <3>1, <5>2, KeptOfMore
        <4> QED BY <4>1, <4>2
      <3>3. Kept(Fired' \cup Newest(H, OCCURRENCE_PRUNE_DEPTH), t)
        BY <2>4, <3>0, <3>2, KeptAfterPruning
      <3>4. Dealt' = Fired' \cup Newest(H, OCCURRENCE_PRUNE_DEPTH)
        BY <2>4 DEF Dealt
      <3> QED BY <3>3, <3>4
    <2>14. \A u \in Users : Pending(handler[u])'
      BY <1>0, <2>3, <2>6 DEF Inv, Pending
    <2>15. s'.enabled => /\ s'.exists /\ s'.due \in Times \cup {Never} /\ since' \in Times \cup {Never}
                         /\ \A t \in Dealt' : t < s'.due
                         /\ \A t \in s'.cron : since' <= t /\ t < s'.due => Kept(Dealt', t)
      BY <1>0, <2>2, <2>3, <2>6, <2>12, <2>13
    <2>16. \A t \in Dealt' : t <= now'
      BY <1>0, <2>12
    <2> QED BY <1>0, <2>9, <2>10, <2>14, <2>15, <2>16 DEF Inv
  <1> QED BY <1>1, <1>2

(* A request that enables a Schedule has read that it is disabled, and     *)
(* asks for occurrences after now.                                         *)
LEMMA UpdateKeeps ==
    ASSUME Alone, Inv, NEW u \in Users, NEW op \in Operations, NEW cron \in Crons,
           update_schedule(u, op, cron), TypeOK'
    PROVE  Inv'
  <1> DEFINE p == Patch(op, cron)
  <1>1. handler' = [handler EXCEPT ![u] = p] /\ op # "run_now"
        /\ UNCHANGED <<now, s, holes, started, open, loop, fires, since>>
    BY DEF update_schedule
  <1>2. op \in {"on", "off", "values", "delete"}
    BY <1>1, ScheduleAssumption DEF Alone
  <1>3. p \in Columns
    BY <1>1, PatchIs DEF Inv
  <1>4. now \in Times /\ s.cron \in Crons /\ \A t \in Dealt : t \in Nat /\ t <= now
    <2>1. DOMAIN holes \in SUBSET Times
      BY HolesHave DEF Inv, TypeOK
    <2> QED BY <2>1 DEF Inv, TypeOK, Schedule, Dealt, Fired
  <1>5. /\ next_occurrence(s.cron, now) \in Times \cup {Never}
        /\ \A t \in Dealt : t < next_occurrence(s.cron, now)
    <2>1. /\ next_occurrence(s.cron, now) \in Times \cup {Never}
          /\ next_occurrence(s.cron, now) \in Nat /\ next_occurrence(s.cron, now) > now
      BY <1>4, NextIs
    <2> QED BY <1>4, <2>1
  <1>6. Pending(p)
    <2>1. CASE op = "on" /\ ~s.enabled
      <3>1. p = [enabled |-> TRUE, due |-> next_occurrence(s.cron, now)]
        BY <2>1 DEF Patch
      <3>2. DOMAIN p = {"enabled", "due"} /\ p["due"] = next_occurrence(s.cron, now)
        BY <3>1
      <3> HIDE DEF p
      <3> QED BY <1>3, <1>5, <2>1, <3>2 DEF Pending
    <2>2. CASE op = "off" /\ s.enabled
      <3>1. p = [enabled |-> FALSE, due |-> None]
        BY <2>2 DEF Patch
      <3>2. DOMAIN p = {"enabled", "due"} /\ ~p["enabled"]
        BY <3>1
      <3> HIDE DEF p
      <3> QED BY <1>3, <3>2 DEF Pending
    <2>3. CASE (op = "on" /\ s.enabled) \/ (op = "off" /\ ~s.enabled)
      <3>1. p = << >>
        BY <2>3 DEF Patch
      <3>2. DOMAIN p = {}
        BY <3>1, NoHoles
      <3> HIDE DEF p
      <3> QED BY <1>3, <3>2 DEF Pending
    <2>4. CASE op = "values"
      <3>1. p = [values |-> TRUE]
        BY <2>4 DEF Patch
      <3>2. DOMAIN p = {"values"}
        BY <3>1
      <3> HIDE DEF p
      <3> QED BY <1>3, <3>2 DEF Pending
    <2>5. CASE op = "delete"
      <3>1. p = [exists |-> FALSE, enabled |-> FALSE]
        BY <2>5 DEF Patch
      <3>2. DOMAIN p = {"exists", "enabled"} /\ ~p["enabled"]
        BY <3>1
      <3> HIDE DEF p
      <3> QED BY <1>3, <3>2 DEF Pending
    <2> HIDE DEF p
    <2> QED BY <1>2, <2>1, <2>2, <2>3, <2>4, <2>5
  <1> HIDE DEF p
  <1>7. \A v \in Users : handler'[v] = p
    BY <1>1 DEF Alone, Inv, TypeOK
  <1>8. \A v \in Users : Pending(handler[v])'
    BY <1>1, <1>6, <1>7 DEF Pending, Dealt, Fired
  <1> QED BY <1>1, <1>8 DEF Inv, TickFits, Dealt, Fired

(* The UPDATE: a Schedule that is enabled counts from the next_due_at that *)
(* the request wrote.                                                      *)
LEMMA UpdateCommitKeeps ==
    ASSUME Alone, Inv, NEW u \in Users, UpdateCommit(u), TypeOK'
    PROVE  Inv'
  <1> DEFINE p == handler[u]
  <1>1. /\ loop = None /\ handler' = [handler EXCEPT ![u] = None]
        /\ p \notin {None, RunNow} /\ UNCHANGED <<now, holes, started, open, loop, asks, fires>>
    BY DEF UpdateCommit
  <1>2. Pending(p) /\ p \in Columns
    BY <1>1 DEF Inv, Pending
  <1>3. \A v \in Users : handler'[v] = None
    BY <1>1 DEF Alone, Inv, TypeOK
  <1>4. \A v \in Users : Pending(handler[v])'
    BY <1>3 DEF Pending
  <1>5. Dealt' = Dealt /\ Fired' = Fired
    BY <1>1 DEF Dealt, Fired
  <1>6. s'.enabled => /\ s'.exists /\ s'.due \in Times \cup {Never} /\ since' \in Times \cup {Never}
                      /\ \A t \in Dealt : t < s'.due
                      /\ \A t \in s'.cron : since' <= t /\ t < s'.due => Kept(Dealt, t)
    <2>1. CASE ~s.exists
      BY <2>1 DEF UpdateCommit, Inv
    <2>2. CASE s.exists
      <3>1. /\ s' = Updated(p)
            /\ since' = IF "due" \in DOMAIN p THEN p["due"] ELSE since
        BY <2>2 DEF UpdateCommit
      <3> HIDE DEF p
      <3>2. /\ s'.exists = IF "exists" \in DOMAIN p THEN p["exists"] ELSE s.exists
            /\ s'.enabled = IF "enabled" \in DOMAIN p THEN p["enabled"] ELSE s.enabled
            /\ s'.cron = IF "cron" \in DOMAIN p THEN p["cron"] ELSE s.cron
            /\ s'.due = IF "due" \in DOMAIN p THEN p["due"] ELSE s.due
        BY <3>1 DEF Updated
      <3>3. CASE "enabled" \notin DOMAIN p
        <4>1. "exists" \notin DOMAIN p
          <5>1. CASE p \in [exists : {FALSE}, enabled : {FALSE}]
            BY <3>3, <5>1
          <5>2. CASE p \notin [exists : {FALSE}, enabled : {FALSE}]
            <6>1. p = << >> \/ DOMAIN p \in {{"enabled", "due"}, {"cron", "due"}, {"cron"}, {"values"}}
              BY <1>2, <5>2 DEF Columns
            <6> QED BY <6>1, NoHoles
          <5> QED BY <5>1, <5>2
        <4>2. "due" \notin DOMAIN p /\ "cron" \notin DOMAIN p
          BY <1>1, <1>2, <3>3 DEF Pending, p
        <4> QED BY <3>1, <3>2, <3>3, <4>1, <4>2 DEF Inv
      <3>4. CASE "enabled" \in DOMAIN p
        <4> SUFFICES ASSUME s'.enabled
                     PROVE  /\ s'.exists /\ s'.due \in Times \cup {Never} /\ since' \in Times \cup {Never}
                            /\ \A t \in Dealt : t < s'.due
                            /\ \A t \in s'.cron : since' <= t /\ t < s'.due => Kept(Dealt, t)
          OBVIOUS
        <4>1. p["enabled"]
          BY <3>2, <3>4
        <4>2. /\ "due" \in DOMAIN p /\ p["due"] \in Times \cup {Never} /\ "cron" \notin DOMAIN p
              /\ \A t \in Dealt : t < p["due"]
          BY <1>1, <1>2, <3>4, <4>1 DEF Pending, p
        <4>3. "exists" \notin DOMAIN p
          <5>1. p \notin [exists : {FALSE}, enabled : {FALSE}]
            BY <4>1
          <5>2. p = << >> \/ DOMAIN p \in {{"enabled", "due"}, {"cron", "due"}, {"cron"}, {"values"}}
            BY <1>2, <5>1 DEF Columns
          <5> QED BY <5>2, NoHoles
        <4>4. s'.due = p["due"] /\ since' = p["due"] /\ s'.exists /\ s'.cron \in SUBSET Times
          BY <2>2, <3>1, <3>2, <4>2, <4>3, ScheduleAssumption DEF Inv, TypeOK, Schedule
        <4>5. p["due"] \in Nat
          BY <4>2 DEF Never
        <4>6. \A t \in s'.cron : ~(since' <= t /\ t < s'.due)
          BY <4>4, <4>5
        <4> QED BY <4>2, <4>4, <4>6
      <3> QED BY <3>3, <3>4
    <2> QED BY <2>1, <2>2
  <1>7. \A t \in Times : fires'[t] <= 1
    BY <1>1 DEF Inv
  <1>8. Fired' \cap DOMAIN holes' = {} /\ \A t \in Dealt' : t <= now'
    BY <1>1, <1>5 DEF Inv
  <1> QED BY <1>1, <1>4, <1>5, <1>6, <1>7, <1>8 DEF Inv

(* What else happens touches nothing of this.                              *)
LEMMA OthersKeep ==
    ASSUME Inv, TypeOK',
           \/ \E u \in Users : run_schedule_now(u) \/ RunNowCommit(u)
           \/ Passes \/ \E r \in 1 .. started : RunEnds(r)
           \/ PublishNeedsValues \/ UNCHANGED vars
    PROVE  Inv'
  <1>1. /\ UNCHANGED <<holes, fires, since, loop>>
        /\ s'.exists = s.exists /\ s'.enabled = s.enabled /\ s'.due = s.due /\ s'.cron = s.cron
        /\ now' \in Nat /\ now \in Nat /\ now' >= now
        /\ \A v \in Users : handler'[v] \in {handler[v], None, RunNow, [values |-> FALSE]}
    <2>0. s \in Schedule /\ now \in Times /\ now' \in Times /\ handler \in [Users -> Columns \cup {RunNow, None}]
      BY DEF Inv, TypeOK
    <2>1. CASE \E u \in Users : run_schedule_now(u) \/ RunNowCommit(u)
      BY <2>0, <2>1 DEF run_schedule_now, RunNowCommit
    <2>2. CASE Passes \/ \E r \in 1 .. started : RunEnds(r)
      BY <2>0, <2>2 DEF Passes, RunEnds
    <2>3. CASE PublishNeedsValues
      <3>1. s' = [s EXCEPT !.values = FALSE] /\ UNCHANGED <<now, holes, loop, fires, since>>
        BY <2>3 DEF PublishNeedsValues
      <3>2. \A v \in Users : handler'[v] \in {handler[v], [values |-> FALSE]}
        BY <2>3 DEF PublishNeedsValues, Outdated
      <3> QED BY <2>0, <3>1, <3>2 DEF Schedule
    <2>4. CASE UNCHANGED vars
      BY <2>0, <2>4 DEF vars
    <2> QED BY <2>1, <2>2, <2>3, <2>4
  <1>2. Dealt' = Dealt /\ Fired' = Fired /\ Dealt \subseteq Times
    <2>1. DOMAIN holes \in SUBSET Times
      BY HolesHave DEF Inv, TypeOK
    <2> QED BY <1>1, <2>1 DEF Dealt, Fired
  <1>3. ASSUME NEW v \in Users PROVE Pending(handler[v])'
    <2>1. CASE handler'[v] \in {handler[v], None, RunNow}
      BY <1>1, <1>2, <2>1 DEF Inv, Pending
    <2>2. CASE handler'[v] = [values |-> FALSE]
      <3>1. PICK p : p = handler'[v]
        OBVIOUS
      <3>2. DOMAIN p = {"values"} /\ p \in Columns
        BY <2>2, <3>1 DEF Columns
      <3>3. Dealt' = Dealt /\ s'.enabled = s.enabled
        BY <1>1, <1>2
      <3>4. p \in Columns /\ "cron" \notin DOMAIN p /\ "enabled" \notin DOMAIN p /\ "due" \notin DOMAIN p
        BY <3>2
      <3> QED BY <3>1, <3>3, <3>4 DEF Pending
    <2> QED BY <1>1, <2>1, <2>2
  <1>4. \A t \in Dealt' : t <= now'
    BY <1>1, <1>2 DEF Inv
  <1>5. loop' # None => TickFits(loop)'
    <2> SUFFICES ASSUME loop # None PROVE TickFits(loop)'
      BY <1>1
    <2>1. TickFits(loop) /\ loop \in Tick
      BY DEF Inv, TypeOK
    <2>2. \A t \in loop.fires \cup DOMAIN loop.holes : t \in Times
      BY <2>1, HolesHave DEF Tick
    <2>3. \A t \in loop.fires \cup DOMAIN loop.holes : t <= now'
      BY <1>1, <2>1, <2>2 DEF TickFits
    <2> QED BY <1>1, <2>1, <2>3 DEF TickFits
  <1> QED BY <1>1, <1>2, <1>3, <1>4, <1>5 DEF Inv

(* A Schedule just created has dealt with nothing.                         *)
LEMMA InitHolds == Init => Inv
  <1> SUFFICES ASSUME Init PROVE Inv
    OBVIOUS
  <1>1. TypeOK
    BY InitTyped
  <1>2. fires = [t \in Times |-> 0] /\ holes = << >> /\ loop = None
        /\ handler = [u \in Users |-> None] /\ since = s.due /\ now = 0
    BY DEF Init
  <1>3. Fired = {} /\ Dealt = {}
    BY <1>2, NoHoles DEF Fired, Dealt
  <1>4. s.enabled => /\ s.exists /\ s.due \in Times \cup {Never}
                     /\ \A t \in s.cron : ~(since <= t /\ t < s.due)
    <2>1. PICK cron \in Crons, enabled \in BOOLEAN :
            s = [exists |-> TRUE, enabled |-> enabled, values |-> TRUE, cron |-> cron,
                 due |-> IF enabled THEN next_occurrence(cron, 0) ELSE None]
      BY DEF Init
    <2>2. 0 \in Times /\ cron \in SUBSET Times
      BY ScheduleAssumption DEF Times
    <2>3. next_occurrence(cron, 0) \in Times \cup {Never} /\ next_occurrence(cron, 0) \in Nat
      BY <2>2, NextIs
    <2> QED BY <1>2, <2>1, <2>2, <2>3
  <1>5. \A u \in Users : Pending(handler[u])
    BY <1>2 DEF Pending
  <1> QED BY <1>1, <1>2, <1>3, <1>4, <1>5 DEF Inv

(* The invariant holds throughout, one request at a time.                  *)
LEMMA Invariance == ASSUME Alone PROVE Spec => []Inv
  <1>1. ASSUME Inv, [Next]_vars PROVE Inv'
    <2>0. TypeOK'
      BY <1>1, StepTyped DEF Inv
    <2>1. CASE fire_due_schedules
      BY <1>1, <2>0, <2>1, FireKeeps
    <2>2. CASE TickCommit
      BY <1>1, <2>0, <2>2, CommitKeeps
    <2>3. ASSUME NEW u \in Users, NEW op \in Operations, NEW cron \in Crons, update_schedule(u, op, cron)
          PROVE  Inv'
      BY <1>1, <2>0, <2>3, UpdateKeeps
    <2>4. ASSUME NEW u \in Users, UpdateCommit(u) PROVE Inv'
      BY <1>1, <2>0, <2>4, UpdateCommitKeeps
    <2>5. CASE \/ \E u \in Users : run_schedule_now(u) \/ RunNowCommit(u)
               \/ Passes \/ \E r \in 1 .. started : RunEnds(r)
               \/ PublishNeedsValues \/ UNCHANGED vars
      BY <1>1, <2>0, <2>5, OthersKeep
    <2> QED BY <1>1, <2>1, <2>2, <2>3, <2>4, <2>5 DEF Next
  <1>2. Inv /\ [Next]_vars => Inv'
    BY <1>1
  <1> QED BY <1>2, InitHolds, PTL DEF Spec

(* An occurrence fires once, or leaves a hole, or neither, when requests   *)
(* come one at a time and none changes the cron expression: next_due_at    *)
(* only ever skips what was dealt with (handle_due, update_schedule).      *)
THEOREM OutcomeOnce == ASSUME Alone PROVE Spec => []OneOutcome
  <1>1. Inv => OneOutcome
    BY InvSays
  <1> QED BY <1>1, Invariance, PTL

(* Under the same conditions no occurrence is lost: it fired, has a hole,  *)
(* or lies behind as many later ones as prune_occurrences keeps, for any   *)
(* depth, grace window and lateness of the loop.                           *)
THEOREM NoneLost == ASSUME Alone PROVE Spec => []Accounted
  <1>1. Inv => Accounted
    BY InvSays
  <1> QED BY <1>1, Invariance, PTL
=============================================================================

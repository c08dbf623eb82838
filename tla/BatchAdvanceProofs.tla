------------------------- MODULE BatchAdvanceProofs -------------------------
(***************************************************************************)
(* Proofs about BatchAdvance for any number of rows, attempts, request     *)
(* handlers, requests and restarts: as long as nobody skips a row, no two  *)
(* Runs of a Batch are open at once, and a row's verdict is one its newest *)
(* attempt has had.  (The run one_open_run shows that a skip breaks the    *)
(* first: skip_batch_row takes no lock.)                                   *)
(*                                                                         *)
(* The invariant says what each open transaction is entitled to: a Run to  *)
(* start is there only under the lock on the Batch, with no Run open in    *)
(* what the transaction sees; a verdict to write is one the newest attempt *)
(* has had; a Run to close has been queued.  Everything that happens to a  *)
(* Run outside the lock is Quiet: it opens nothing, and what is closed     *)
(* stays closed, which leaves all of that as it was.                       *)
(*                                                                         *)
(* The second half is about the page of a Batch, BatchView.                *)
(***************************************************************************)
EXTENDS BatchAdvance, BatchView, FiniteSetTheorems, SequenceTheorems, WellFoundedInduction, TLAPS

RunStates == [Runs -> NON_TERMINAL \cup Terminal \cup {"deleted", None}]

\* What a transaction with the statuses f to write sees of the Runs v.
Overlay(f, v) == [r \in Runs |-> IF r \in DOMAIN f THEN f[r] ELSE v[r]]

\* By the verdicts w and the Runs v, the newest attempt at row i that is not
\* deleted, or was not until now, is closed and has had the verdict status.
Follows(w, v, i, status) ==
    \E k \in 1 .. MaxAttempts :
        /\ <<<<i, k>>, status>> \in w
        /\ v[<<i, k>>] \in Terminal \cup {"deleted"}
        /\ \A j \in 1 .. MaxAttempts : j > k => v[<<i, j>>] \in {None, "deleted"}

\* The verdicts w with those a transaction is about to write.
Had(t, w) == w \cup {<<r, t.runs[r]>> : r \in DOMAIN t.runs}

\* Statuses to write, as Txn has them.
Plans(R, T) == UNION {[S -> T] : S \in SUBSET R}

\* What a transaction t may be about to do while the verdicts are w and the
\* Runs v.
Fine(t, w, v) ==
    /\ t.op # "skip"
    /\ t.stage = "called" => t.op \in {"advance", "rerun", "end"}
    /\ t.stage \in {"called", "ended"} => t.rows = << >> /\ t.start = None
    /\ t.stage \in {"called", "ended"} /\ t.op # "end" => t.runs = << >>
    /\ t.op = "end" => /\ t.stage \in {"called", "ended"} /\ ~t.lock
                       /\ t.i \in Rows /\ t.k \in 1 .. MaxAttempts
                       /\ t.stage = "called" => DOMAIN t.runs = {<<t.i, t.k>>}
    /\ t.op = "rerun" => t.rows = << >> /\ t.runs = << >> /\ t.i \in Rows /\ t.stage # "read"
    /\ t.stage = "read" => t.start = None /\ (t.op = "cancel" => t.stop)
    /\ t.op = "advance" /\ t.stage # "called" => t.lock
    /\ t.op = "advance" /\ t.k # None =>
          /\ <<t.i, t.k>> \in Runs
          /\ <<<<t.i, t.k>>, t.ran>> \in w
          /\ v[<<t.i, t.k>>] \in Terminal \cup {"deleted"}
    /\ t.start # None =>
          t.stage = "decided" /\ t.lock /\ t.start \notin DOMAIN t.rows
          /\ OpenRuns(Overlay(t.runs, v)) = {}
    /\ \A r \in DOMAIN t.runs :
          /\ v[r] # None
          /\ t.stage = "decided" \/ t.op = "advance" => v[r] # "deleted"
    /\ \A i \in DOMAIN t.rows :
          t.rows[i] \in {"succeeded", "failed"} =>
             t.lock /\ Follows(Had(t, w), Overlay(t.runs, v), i, t.rows[i])

AllFine == \A a \in Actors : txn[a] # None => Fine(txn[a], was, run)
OneLock ==
    \A a, b \in Actors :
        txn[a] # None /\ txn[b] # None /\ txn[a].lock /\ txn[b].lock => a = b

\* A Run that is closed has had the verdict it has.
Recorded == \A r \in Runs : run[r] \in Terminal => <<r, run[r]>> \in was

Inv == TypeOK /\ AllFine /\ OneLock /\ Recorded /\ OneOpenRun /\ RowFollowsLatest

\* Runs that went from v to w without one being opened, at most deleted once
\* they were closed.
Quiet(v, w) ==
    \A r \in Runs :
        /\ v[r] # None <=> w[r] # None
        /\ v[r] \in Terminal => w[r] \in Terminal \cup {"deleted"}
        /\ v[r] = "deleted" => w[r] = "deleted"

\* The same of the attempts at one row.
QuietAt(v, w, i) ==
    \A k \in 1 .. MaxAttempts :
        /\ v[<<i, k>>] = None => w[<<i, k>>] = None
        /\ v[<<i, k>>] \in Terminal => w[<<i, k>>] \in Terminal \cup {"deleted"}
        /\ v[<<i, k>>] = "deleted" => w[<<i, k>>] = "deleted"

\* What happens to Runs in every step: none vanishes, none closed is opened.
Lasting(v, w) ==
    \A r \in Runs :
        /\ v[r] # None => w[r] # None
        /\ v[r] \in Terminal \cup {"deleted"} => w[r] \in Terminal \cup {"deleted"}

-----------------------------------------------------------------------------
(* Least and greatest elements, and statuses to write.                     *)

LessThan == {p \in Nat \X Nat : p[1] < p[2]}

(* Min is what its name says, for any set of naturals.                     *)
LEMMA LeastOf ==
    ASSUME NEW S, S \subseteq Nat, S # {}
    PROVE  Min(S) \in S /\ \A y \in S : Min(S) <= y
  <1>1. IsWellFoundedOn(LessThan, Nat)
    BY NatLessThanWellFounded DEF OpToRel, LessThan
  <1>2. PICK x \in S : \A y \in S : <<y, x>> \notin LessThan
    BY <1>1, WFMin
  <1>3. ASSUME NEW y \in S PROVE x <= y
    <2>1. <<y, x>> \in Nat \X Nat /\ <<y, x>> \notin LessThan
      BY <1>2
    <2>2. ~(y < x)
      BY <2>1 DEF LessThan
    <2> QED BY <2>2
  <1> QED BY <1>3 DEF Min

(* Max is what its name says, for any set of attempts.                     *)
LEMMA GreatestOf ==
    ASSUME NEW n \in Nat, NEW S, S \subseteq 1 .. n, S # {}
    PROVE  Max(S) \in S /\ \A y \in S : Max(S) >= y
  <1> DEFINE D == {n - y : y \in S}
  <1>0. \A y \in S : y \in Nat /\ n - y \in Nat
    OBVIOUS
  <1>1. D \subseteq Nat /\ D # {}
    BY <1>0
  <1>2. Min(D) \in D /\ \A y \in D : Min(D) <= y
    BY <1>1, LeastOf
  <1>3. PICK x \in S : Min(D) = n - x
    BY <1>2
  <1>4. \A y \in S : n - x <= n - y
    BY <1>2, <1>3
  <1>5. \A y \in S : x >= y
    BY <1>0, <1>4
  <1> QED BY <1>5 DEF Max

USE BatchAssumption, NoneAssumption DEF NON_TERMINAL, Terminal

(* A function on part of R is a plan.                                      *)
LEMMA PlanOf ==
    ASSUME NEW R, NEW T, NEW S \in SUBSET R, NEW f \in [S -> T]
    PROVE  f \in Plans(R, T)
  BY DEF Plans

(* What is known of a plan.                                                *)
LEMMA PlanHas ==
    ASSUME NEW R, NEW T, NEW f \in Plans(R, T)
    PROVE  f \in [DOMAIN f -> T] /\ DOMAIN f \subseteq R
  BY DEF Plans

(* Nothing to write is a plan.                                             *)
LEMMA NoPlan ==
    ASSUME NEW R, NEW T
    PROVE  << >> \in Plans(R, T) /\ DOMAIN << >> = {}
  <1>1. << >> \in [{} -> T]
    OBVIOUS
  <1> QED BY <1>1, PlanOf

(* A transaction's fields, with its plans named.                           *)
LEMMA TxnHas ==
    ASSUME NEW t \in Txn
    PROVE  /\ t.op \in {"advance", "skip", "cancel", "rerun", "end"}
           /\ t.stage \in {"called", "read", "decided", "ended"}
           /\ t.lock \in BOOLEAN /\ t.stop \in BOOLEAN
           /\ t.rows \in [DOMAIN t.rows -> BatchRowStatus] /\ DOMAIN t.rows \subseteq Rows
           /\ t.runs \in [DOMAIN t.runs -> Terminal] /\ DOMAIN t.runs \subseteq Runs
           /\ t.start \in Rows \cup {None}
  <1>1. t.rows \in Plans(Rows, BatchRowStatus) /\ t.runs \in Plans(Runs, Terminal)
    BY DEF Txn, Plans
  <1>2. /\ t.rows \in [DOMAIN t.rows -> BatchRowStatus] /\ DOMAIN t.rows \subseteq Rows
        /\ t.runs \in [DOMAIN t.runs -> Terminal] /\ DOMAIN t.runs \subseteq Runs
    BY <1>1, PlanHas
  <1>3. /\ t.op \in {"advance", "skip", "cancel", "rerun", "end"}
        /\ t.stage \in {"called", "read", "decided", "ended"}
        /\ t.lock \in BOOLEAN /\ t.stop \in BOOLEAN /\ t.start \in Rows \cup {None}
    BY DEF Txn
  <1> QED BY <1>2, <1>3

(* What a row's latest Run and its next place are (latest_run, by          *)
(* queued_at).                                                             *)
LEMMA LatestIs ==
    ASSUME run \in RunStates, NEW i \in Rows, HasRun(i)
    PROVE  /\ latest_run(i) \in Runs
           /\ run[latest_run(i)] \notin {None, "deleted"}
           /\ latest_run(i) = <<i, latest_run(i)[2]>>
           /\ latest_run(i)[2] \in 1 .. MaxAttempts
           /\ \A j \in 1 .. MaxAttempts :
                 j > latest_run(i)[2] => run[<<i, j>>] \in {None, "deleted"}
  <1> DEFINE k == Max(AttemptsAt(i))
  <1>1. k \in AttemptsAt(i) /\ \A j \in AttemptsAt(i) : k >= j
    BY GreatestOf DEF HasRun, AttemptsAt
  <1>2. latest_run(i) = <<i, k>>
    BY DEF latest_run
  <1> HIDE DEF k
  <1>3. /\ k \in 1 .. MaxAttempts /\ run[<<i, k>>] \notin {None, "deleted"}
        /\ \A j \in 1 .. MaxAttempts : j > k => run[<<i, j>>] \in {None, "deleted"}
    BY <1>1 DEF AttemptsAt
  <1> QED BY <1>2, <1>3 DEF Runs

(* Where the next attempt is recorded is a place of the row nothing is in. *)
LEMMA FreshIs ==
    ASSUME NEW i \in Rows, Unused(i) # {}
    PROVE  Fresh(i) \in Runs /\ run[Fresh(i)] = None /\ Fresh(i)[1] = i
  <1> DEFINE k == Min(Unused(i))
  <1>0. Unused(i) \subseteq Nat
    BY DEF Unused
  <1>1. k \in Unused(i)
    BY <1>0, LeastOf
  <1>2. Fresh(i) = <<i, k>>
    BY DEF Fresh
  <1> HIDE DEF k
  <1> QED BY <1>1, <1>2 DEF Unused, Runs

-----------------------------------------------------------------------------
(* What Runs that go on quietly leave as it was.                           *)

(* Seen through the same statuses to write, what is quiet stays quiet.     *)
LEMMA QuietSeen ==
    ASSUME NEW v \in RunStates, NEW w \in RunStates, Quiet(v, w), NEW f
    PROVE  Quiet(Overlay(f, v), Overlay(f, w))
  BY DEF Quiet, Overlay

(* Nothing is opened.                                                      *)
LEMMA QuietOpensNothing ==
    ASSUME NEW v, NEW w, Quiet(v, w), \A r \in Runs : v[r] \in NON_TERMINAL \cup Terminal \cup {"deleted", None}
    PROVE  OpenRuns(w) \subseteq OpenRuns(v)
  BY DEF Quiet, OpenRuns

(* A verdict stays one of the newest attempt, if the Runs of its row went  *)
(* on quietly and no verdict is forgotten.                                 *)
LEMMA QuietFollows ==
    ASSUME NEW h, NEW g, h \subseteq g, NEW v, NEW w, NEW i \in Rows,
           NEW status \in {"succeeded", "failed"},
           Follows(h, v, i, status), QuietAt(v, w, i)
    PROVE  Follows(g, w, i, status)
  <1>1. PICK k \in 1 .. MaxAttempts :
           /\ <<<<i, k>>, status>> \in h
           /\ v[<<i, k>>] \in Terminal \cup {"deleted"}
           /\ \A j \in 1 .. MaxAttempts : j > k => v[<<i, j>>] \in {None, "deleted"}
    BY DEF Follows
  <1>2. w[<<i, k>>] \in Terminal \cup {"deleted"} /\ <<<<i, k>>, status>> \in g
    BY <1>1 DEF QuietAt
  <1>3. \A j \in 1 .. MaxAttempts : j > k => w[<<i, j>>] \in {None, "deleted"}
    BY <1>1 DEF QuietAt
  <1> QED BY <1>2, <1>3 DEF Follows

(* The same for quiet Runs.                                                *)
LEMMA QuietKeepsVerdict ==
    ASSUME NEW h, NEW g, h \subseteq g, NEW v, NEW w, Quiet(v, w), NEW i \in Rows,
           NEW status \in {"succeeded", "failed"}, Follows(h, v, i, status)
    PROVE  Follows(g, w, i, status)
  <1>1. \A k \in 1 .. MaxAttempts : <<i, k>> \in Runs
    BY DEF Runs
  <1>2. QuietAt(v, w, i)
    BY <1>1 DEF Quiet, QuietAt
  <1> QED BY <1>2, QuietFollows

(* A transaction stays entitled to what it is about to do, when the Runs   *)
(* it has updated are left alone, the others last, no verdict is forgotten *)
(* and, if it has the lock, the Runs went on quietly.                      *)
LEMMA FineKept ==
    ASSUME NEW t \in Txn, NEW h, NEW g, h \subseteq g,
           NEW v \in RunStates, NEW w \in RunStates, Fine(t, h, v),
           t.lock => Quiet(v, w), Lasting(v, w),
           t.stage = "decided" \/ t.op = "advance" => \A r \in DOMAIN t.runs : w[r] = v[r]
    PROVE  Fine(t, g, w)
  <1>0. /\ t.rows \in [DOMAIN t.rows -> BatchRowStatus] /\ DOMAIN t.rows \subseteq Rows
        /\ t.runs \in [DOMAIN t.runs -> Terminal] /\ DOMAIN t.runs \subseteq Runs
    BY TxnHas
  <1>1. t.start # None => OpenRuns(Overlay(t.runs, w)) = {}
    <2> SUFFICES ASSUME t.start # None PROVE OpenRuns(Overlay(t.runs, w)) = {}
      OBVIOUS
    <2>1. Quiet(v, w) /\ OpenRuns(Overlay(t.runs, v)) = {}
      BY DEF Fine
    <2>2. Quiet(Overlay(t.runs, v), Overlay(t.runs, w))
      BY <2>1, QuietSeen
    <2>3. \A r \in Runs : Overlay(t.runs, v)[r] \in NON_TERMINAL \cup Terminal \cup {"deleted", None}
      BY <1>0 DEF Overlay, RunStates
    <2> QED BY <2>1, <2>2, <2>3, QuietOpensNothing
  <1>2. \A r \in DOMAIN t.runs :
          /\ w[r] # None
          /\ t.stage = "decided" \/ t.op = "advance" => w[r] # "deleted"
    BY <1>0 DEF Fine, Lasting
  <1>3. ASSUME NEW i \in DOMAIN t.rows, t.rows[i] \in {"succeeded", "failed"}
        PROVE  t.lock /\ Follows(Had(t, g), Overlay(t.runs, w), i, t.rows[i])
    <2>1. t.lock /\ Follows(Had(t, h), Overlay(t.runs, v), i, t.rows[i])
      BY <1>3 DEF Fine
    <2>2. Quiet(Overlay(t.runs, v), Overlay(t.runs, w))
      BY <2>1, QuietSeen
    <2>3. Had(t, h) \subseteq Had(t, g)
      BY DEF Had
    <2> QED BY <1>0, <1>3, <2>1, <2>2, <2>3, QuietKeepsVerdict
  <1>4. /\ t.op # "skip"
        /\ t.stage = "called" => t.op \in {"advance", "rerun", "end"}
        /\ t.stage \in {"called", "ended"} => t.rows = << >> /\ t.start = None
        /\ t.stage \in {"called", "ended"} /\ t.op # "end" => t.runs = << >>
        /\ t.op = "end" => /\ t.stage \in {"called", "ended"} /\ ~t.lock
                           /\ t.i \in Rows /\ t.k \in 1 .. MaxAttempts
                           /\ t.stage = "called" => DOMAIN t.runs = {<<t.i, t.k>>}
        /\ t.op = "rerun" => t.rows = << >> /\ t.runs = << >> /\ t.i \in Rows /\ t.stage # "read"
        /\ t.stage = "read" => t.start = None /\ (t.op = "cancel" => t.stop)
        /\ t.op = "advance" /\ t.stage # "called" => t.lock
        /\ t.start # None => t.stage = "decided" /\ t.lock /\ t.start \notin DOMAIN t.rows
    BY DEF Fine
  <1>5. t.op = "advance" /\ t.k # None =>
          /\ <<t.i, t.k>> \in Runs
          /\ <<<<t.i, t.k>>, t.ran>> \in g
          /\ w[<<t.i, t.k>>] \in Terminal \cup {"deleted"}
    BY DEF Fine, Lasting
  <1> QED BY <1>1, <1>2, <1>3, <1>4, <1>5 DEF Fine

(* The two properties, of Runs that went on quietly.                       *)
LEMMA QuietKeepsProperties ==
    ASSUME TypeOK, OneOpenRun, RowFollowsLatest, was \subseteq was',
           run' \in RunStates, Quiet(run, run')
    PROVE  OneOpenRun' /\ (row' = row => RowFollowsLatest')
  <1>0. row \in [Rows -> BatchRowStatus] /\ run \in RunStates
    BY DEF TypeOK, RunStates
  <1>1. OpenRuns(run') \subseteq OpenRuns(run)
    BY <1>0, QuietOpensNothing DEF RunStates
  <1>2. OneOpenRun'
    BY <1>1 DEF OneOpenRun
  <1>3. ASSUME row' = row, NEW i \in Rows, row[i] \in {"succeeded", "failed"}
        PROVE  Follows(was', run', i, row[i])
    <2>1. Follows(was, run, i, row[i])
      BY <1>3 DEF RowFollowsLatest, Follows
    <2> QED BY <1>3, <2>1, QuietKeepsVerdict
  <1>4. row' = row => RowFollowsLatest'
    BY <1>3 DEF RowFollowsLatest, Follows
  <1> QED BY <1>2, <1>4

-----------------------------------------------------------------------------
(* The steps.                                                              *)

(* Seen is the overlay of the committed Runs.                              *)
LEMMA SeenIs == ASSUME NEW t PROVE Seen(t) = Overlay(t.runs, run)
  BY DEF Seen, Overlay

(* With nothing to write, a transaction sees the Runs themselves.          *)
LEMMA NothingOver == ASSUME NEW v \in RunStates PROVE Overlay(<< >>, v) = v
  <1>1. DOMAIN << >> = {}
    BY NoPlan
  <1> QED BY <1>1 DEF Overlay, RunStates

(* A transaction just called for a row has its type.                       *)
LEMMA CalledIs ==
    ASSUME TypeOK, NEW op \in {"advance", "rerun", "end", "cancel"}, NEW i \in Rows \cup {None},
           NEW k \in 1 .. MaxAttempts \cup {None}, k # None => i \in Rows
    PROVE  Called(op, i, k) \in Txn
  <1> DEFINE t == Called(op, i, k)
  <1>1. << >> \in Plans(Rows, BatchRowStatus) /\ << >> \in Plans(Runs, Terminal)
    BY NoPlan
  <1>2. (IF i = None THEN None ELSE row[i]) \in BatchRowStatus \cup {None} /\ cancelled \in BOOLEAN
    BY DEF TypeOK
  <1>3. (IF k = None THEN None ELSE run[<<i, k>>]) \in NON_TERMINAL \cup Terminal \cup {"deleted", None}
    BY DEF TypeOK, Runs
  <1> QED BY <1>1, <1>2, <1>3 DEF Called, Txn, Plans

(* ... and is entitled to what it does: on_terminal_run has found its Run  *)
(* closed, a re-run is about no Run yet.                                   *)
LEMMA CalledFine ==
    ASSUME TypeOK, Recorded, NEW op \in {"advance", "rerun"}, NEW i \in Rows,
           NEW k \in 1 .. MaxAttempts \cup {None}, k # None => run[<<i, k>>] \in Terminal
    PROVE  /\ Called(op, i, k) \in Txn
           /\ Fine(Called(op, i, k), was, run) /\ ~Called(op, i, k).lock
  <1> DEFINE t == Called(op, i, k)
  <1>1. DOMAIN << >> = {}
    BY NoPlan
  <1>2. k # None => <<i, k>> \in Runs
    BY DEF Runs
  <1>6. t \in Txn
    BY CalledIs
  <1>3. /\ t.op = op /\ t.stage = "called" /\ ~t.lock /\ t.i = i /\ t.k = k
        /\ t.ran = (IF k = None THEN None ELSE run[<<i, k>>])
        /\ t.rows = << >> /\ t.runs = << >> /\ t.start = None
    BY DEF Called
  <1> HIDE DEF t
  <1>4. k # None => <<<<i, k>>, t.ran>> \in was
    BY <1>2, <1>3 DEF Recorded
  <1>5. Fine(t, was, run)
    BY <1>1, <1>2, <1>3, <1>4 DEF Fine
  <1> QED BY <1>3, <1>5, <1>6 DEF t

(* A step that leaves rows and Runs alone and replaces one transaction by  *)
(* one that is fine, with the lock only if it was free.                    *)
LEMMA PutKeeps ==
    ASSUME Inv, NEW a \in Actors, NEW t, Put(a, t),
           t = None \/ (t \in Txn /\ Fine(t, was, run)
                          /\ (t.lock => LockFree(a) \/ (txn[a] # None /\ txn[a].lock))),
           UNCHANGED <<row, was, run>>, cancelled' \in BOOLEAN, signals' \in SUBSET Runs,
           asks' \in Nat, crashes' \in Nat
    PROVE  Inv'
  <1>1. txn \in [Actors -> Txn \cup {None}] /\ txn' = [txn EXCEPT ![a] = t]
    BY DEF Inv, TypeOK, Put
  <1>2. TypeOK'
    BY <1>1 DEF Inv, TypeOK
  <1>3. AllFine'
    BY <1>1 DEF Inv, AllFine
  <1>4. OneLock'
    <2> SUFFICES ASSUME NEW b \in Actors, b # a, txn[b] # None, txn[b].lock,
                        t # None, t.lock
                 PROVE  FALSE
      BY <1>1 DEF Inv, OneLock
    <2>1. LockFree(a) \/ (txn[a] # None /\ txn[a].lock)
      OBVIOUS
    <2>2. ~LockFree(a)
      BY DEF LockFree, Others
    <2> QED BY <2>1, <2>2 DEF Inv, OneLock
  <1>5. OneOpenRun' /\ RowFollowsLatest' /\ Recorded'
    BY DEF Inv, OneOpenRun, OpenRuns, RowFollowsLatest, Recorded
  <1> QED BY <1>2, <1>3, <1>4, <1>5 DEF Inv

(* on_terminal_run is called for a Run of the Batch.                       *)
LEMMA OnTerminalKeeps ==
    ASSUME Inv, NEW r \in Runs, OnTerminal(r)
    PROVE  Inv'
  <1>1. r[1] \in Rows /\ r[2] \in 1 .. MaxAttempts \cup {None} /\ "listener" \in Actors
    BY DEF Runs, Actors
  <1>2. /\ signals' \in SUBSET Runs /\ UNCHANGED <<row, was, run>>
        /\ cancelled' \in BOOLEAN /\ asks' \in Nat /\ crashes' \in Nat
    BY DEF OnTerminal, Inv, TypeOK
  <1>3. CASE run[r] \in Terminal
    <2> DEFINE t == Called("advance", r[1], r[2])
    <2>0. r = <<r[1], r[2]>>
      BY DEF Runs
    <2>1. t \in Txn /\ Fine(t, was, run) /\ ~t.lock
      BY <1>1, <1>3, <2>0, CalledFine DEF Inv
    <2>2. Put("listener", t)
      BY <1>3 DEF OnTerminal
    <2> HIDE DEF t
    <2> QED BY <1>1, <1>2, <2>1, <2>2, PutKeeps
  <1>4. CASE run[r] \notin Terminal
    <2>1. Put("listener", None)
      BY <1>4 DEF OnTerminal, Put, Inv, TypeOK
    <2> QED BY <1>1, <1>2, <2>1, PutKeeps
  <1> QED BY <1>3, <1>4

(* reflect_running_rows gives a row a verdict its newest attempt that is   *)
(* not deleted has had.                                                    *)
LEMMA ReflectFollows ==
    ASSUME TypeOK, Recorded, NEW t \in Txn,
           \A r \in DOMAIN t.runs : run[r] \notin {None, "deleted"},
           t.k # None => /\ <<t.i, t.k>> \in Runs
                         /\ <<<<t.i, t.k>>, t.ran>> \in was
                         /\ run[<<t.i, t.k>>] \in Terminal \cup {"deleted"}
    PROVE  /\ reflect_running_rows(t) \in Plans(Rows, BatchRowStatus)
           /\ \A i \in DOMAIN reflect_running_rows(t) :
                 Follows(Had(t, was), Overlay(t.runs, run), i, reflect_running_rows(t)[i])
  <1> DEFINE view == Overlay(t.runs, run)
             ended == {i \in Rows : /\ row[i] = "running" /\ HasRun(i)
                                    /\ Loaded(t, latest_run(i)) \in Terminal
                                    /\ Current(t, i) # "skipped"
                                    /\ Current(t, i) # Loaded(t, latest_run(i))}
             to == [i \in ended |-> Loaded(t, latest_run(i))]
  <1>0. run \in RunStates /\ t.runs \in [DOMAIN t.runs -> Terminal]
    BY TxnHas DEF TypeOK, RunStates
  <1>1. reflect_running_rows(t) = to
    BY DEF reflect_running_rows
  <1>2. Seen(t) = view
    BY SeenIs
  <1>3. ended \in SUBSET Rows /\ \A i \in ended : HasRun(i) /\ Loaded(t, latest_run(i)) \in Terminal
    OBVIOUS
  <1>4. to = [i \in ended |-> Loaded(t, latest_run(i))]
    OBVIOUS
  <1> HIDE DEF to, ended
  <1>5. to \in [ended -> BatchRowStatus]
    BY <1>3, <1>4 DEF BatchRowStatus
  <1>6. to \in Plans(Rows, BatchRowStatus)
    BY <1>3, <1>5, PlanOf
  <1>7. ASSUME NEW i \in ended
        PROVE  Follows(Had(t, was), view, i, Loaded(t, latest_run(i)))
    <2> DEFINE r == latest_run(i)
               k == latest_run(i)[2]
    <2>0. i \in Rows
      BY <1>3
    <2>1. /\ r \in Runs /\ run[r] \notin {None, "deleted"}
          /\ r = <<i, k>> /\ k \in 1 .. MaxAttempts
          /\ \A j \in 1 .. MaxAttempts : j > k => run[<<i, j>>] \in {None, "deleted"}
      BY <1>0, <1>3, <2>0, LatestIs
    <2>2. \A q \in Runs : view[q] = IF q \in DOMAIN t.runs THEN t.runs[q] ELSE run[q]
      BY DEF Overlay
    <2>3. Loaded(t, r) \in Terminal
      BY <1>3
    <2>4. Loaded(t, r) = IF t.k # None /\ r = <<t.i, t.k>> THEN t.ran ELSE view[r]
      BY <1>2 DEF Loaded
    <2> HIDE DEF view, r, k
    <2>5. /\ <<r, Loaded(t, r)>> \in Had(t, was)
          /\ view[r] \in Terminal \cup {"deleted"}
      <3>1. CASE t.k # None /\ r = <<t.i, t.k>>
        BY <3>1, <1>0, <2>1, <2>2, <2>4 DEF Had
      <3>2. CASE ~(t.k # None /\ r = <<t.i, t.k>>)
        <4>1. Loaded(t, r) = view[r]
          BY <3>2, <2>4
        <4>2. CASE r \in DOMAIN t.runs
          BY <4>1, <4>2, <2>1, <2>2, <2>3 DEF Had
        <4>3. CASE r \notin DOMAIN t.runs
          <5>1. view[r] = run[r]
            BY <4>3, <2>1, <2>2
          <5> QED BY <4>1, <5>1, <2>1, <2>3 DEF Had, Recorded
        <4> QED BY <4>2, <4>3
      <3> QED BY <3>1, <3>2
    <2>6. \A j \in 1 .. MaxAttempts : j > k => view[<<i, j>>] \in {None, "deleted"}
      <3>1. \A j \in 1 .. MaxAttempts : <<i, j>> \in Runs
        BY <2>0 DEF Runs
      <3> QED BY <3>1, <2>1, <2>2
    <2>7. Follows(Had(t, was), view, i, Loaded(t, r))
      BY <2>1, <2>5, <2>6 DEF Follows
    <2> QED BY <2>7 DEF r
  <1>8. \A i \in DOMAIN to : Follows(Had(t, was), view, i, to[i])
    BY <1>4, <1>7
  <1> QED BY <1>1, <1>6, <1>8

(* A transaction that has read under the lock and starts nothing yet: it   *)
(* has reaped Runs that are there, or none.                                *)
LEMMA ReadFine ==
    ASSUME TypeOK, Recorded,
           NEW t \in Txn, t.op = "advance", t.lock, t.stage = "read", t.start = None,
           \A r \in DOMAIN t.runs : run[r] \notin {None, "deleted"},
           t.k # None => /\ <<t.i, t.k>> \in Runs
                         /\ <<<<t.i, t.k>>, t.ran>> \in was
                         /\ run[<<t.i, t.k>>] \in Terminal \cup {"deleted"},
           NEW s \in Txn, s.runs = t.runs, s.i = t.i, s.k = t.k, s.ran = t.ran,
           t.rows = reflect_running_rows(s)
    PROVE  Fine(t, was, run)
  <1>1. \A i \in DOMAIN t.rows : Follows(Had(s, was), Overlay(s.runs, run), i, t.rows[i])
    BY ReflectFollows
  <1>2. Had(s, was) = Had(t, was)
    BY DEF Had
  <1> QED BY <1>1, <1>2 DEF Fine

(* reflect_and_advance takes the lock and reflects the rows.               *)
LEMMA ReflectKeeps ==
    ASSUME Inv, NEW a \in Actors, Reflect(a)
    PROVE  Inv'
  <1> DEFINE s == [txn[a] EXCEPT !.stop = cancelled]
             t == [s EXCEPT !.stage = "read", !.lock = TRUE, !.rows = reflect_running_rows(s)]
  <1>1. txn[a] \in Txn /\ cancelled \in BOOLEAN /\ txn[a].op = "advance" /\ txn[a].stage = "called"
    BY DEF Inv, TypeOK, Reflect
  <1>2. Fine(txn[a], was, run)
    BY DEF Inv, AllFine, Reflect
  <1>3. txn[a].runs = << >> /\ txn[a].start = None /\ DOMAIN << >> = {}
    BY <1>1, <1>2, NoPlan DEF Fine
  <1>4. /\ s \in Txn /\ s.runs = << >> /\ s.op = "advance" /\ s.start = None
        /\ s.k # None => /\ <<s.i, s.k>> \in Runs
                         /\ <<<<s.i, s.k>>, s.ran>> \in was
                         /\ run[<<s.i, s.k>>] \in Terminal \cup {"deleted"}
    BY <1>1, <1>2, <1>3 DEF Txn, Fine
  <1>5. Put(a, t) /\ LockFree(a)
    BY DEF Reflect
  <1> HIDE DEF s
  <1>6. reflect_running_rows(s) \in Plans(Rows, BatchRowStatus)
    BY <1>3, <1>4, ReflectFollows DEF Inv
  <1>7. t \in Txn
    BY <1>4, <1>6 DEF Txn, Plans
  <1>8. /\ t.op = "advance" /\ t.lock /\ t.stage = "read" /\ t.start = None
        /\ t.runs = << >> /\ t.rows = reflect_running_rows(s)
        /\ t.i = s.i /\ t.k = s.k /\ t.ran = s.ran
    BY <1>4 DEF Txn
  <1> HIDE DEF t
  <1>9. Fine(t, was, run)
    BY <1>3, <1>4, <1>7, <1>8, ReadFine DEF Inv
  <1>10. /\ UNCHANGED <<row, was, run>> /\ cancelled' \in BOOLEAN /\ signals' \in SUBSET Runs
         /\ asks' \in Nat /\ crashes' \in Nat
    BY DEF Reflect, Inv, TypeOK
  <1> QED BY <1>5, <1>7, <1>9, <1>10, PutKeeps

(* A tick: the reaped Runs are running or waiting.                         *)
LEMMA TickKeeps ==
    ASSUME Inv, NEW reaped \in SUBSET Runs, Tick(reaped)
    PROVE  Inv'
  <1> DEFINE failed == [r \in reaped |-> "failed"]
             s == [Called("advance", None, None) EXCEPT !.stage = "read", !.lock = TRUE,
                                                        !.runs = failed]
             t == [s EXCEPT !.rows = reflect_running_rows(s)]
  <1>1. failed \in [reaped -> Terminal] /\ DOMAIN failed = reaped
    OBVIOUS
  <1>2. failed \in Plans(Runs, Terminal)
    BY <1>1, PlanOf
  <1>3. << >> \in Plans(Rows, BatchRowStatus) /\ cancelled \in BOOLEAN
    BY NoPlan DEF Inv, TypeOK
  <1>4. Put("loop", t) /\ LockFree("loop") /\ "loop" \in Actors
    BY DEF Tick, Actors
  <1>5. \A r \in reaped : run[r] \in {"running", "waiting_for_human"}
    BY DEF Tick
  <1> HIDE DEF failed
  <1>6. /\ s \in Txn /\ s.op = "advance" /\ s.stage = "read" /\ s.lock
        /\ s.runs = failed /\ s.start = None /\ s.k = None
    <2> DEFINE c == Called("advance", None, None)
    <2>0. None \in Rows \cup {None} /\ None \in 1 .. MaxAttempts \cup {None} /\ TypeOK
      BY DEF Inv
    <2>3. c \in Txn
      BY <2>0, CalledIs
    <2>1. c.op = "advance" /\ c.start = None /\ c.k = None
      BY DEF Called
    <2> HIDE DEF c
    <2>2. s = [c EXCEPT !.stage = "read", !.lock = TRUE, !.runs = failed]
      BY DEF c
    <2> QED BY <1>2, <2>1, <2>2, <2>3 DEF Txn, Plans
  <1> HIDE DEF s
  <1>7. s \in Txn /\ s.runs = failed /\ s.k = None
    BY <1>6
  <1>8. reflect_running_rows(s) \in Plans(Rows, BatchRowStatus)
    BY <1>1, <1>5, <1>7, ReflectFollows DEF Inv
  <1>9. t \in Txn
    BY <1>7, <1>8 DEF Txn, Plans
  <1>10. /\ t.op = "advance" /\ t.lock /\ t.stage = "read" /\ t.start = None
         /\ t.runs = failed /\ t.rows = reflect_running_rows(s)
         /\ t.i = s.i /\ t.k = s.k /\ t.ran = s.ran
    BY <1>6 DEF Txn
  <1> HIDE DEF t
  <1>11. Fine(t, was, run)
    BY <1>1, <1>5, <1>7, <1>9, <1>10, ReadFine DEF Inv
  <1>12. /\ UNCHANGED <<row, was, run>> /\ cancelled' \in BOOLEAN /\ signals' \in SUBSET Runs
         /\ asks' \in Nat /\ crashes' \in Nat
    BY DEF Tick, Inv, TypeOK
  <1> QED BY <1>4, <1>9, <1>11, <1>12, PutKeeps

(* start_next_queued: only under the lock, with no Run open in what the    *)
(* transaction sees; a cancel starts nothing.                              *)
LEMMA DecideKeeps ==
    ASSUME Inv, NEW a \in Actors, Decide(a)
    PROVE  Inv'
  <1> DEFINE s == txn[a]
             start == start_next_queued(s)
             t == [s EXCEPT !.stage = "decided", !.start = start]
  <1>1. s \in Txn /\ s # None /\ s.stage = "read"
    BY DEF Inv, TypeOK, Decide
  <1>2. Fine(s, was, run)
    BY DEF Inv, AllFine, Decide
  <1>3. start \in Rows \cup {None}
        /\ (start # None => ~s.stop /\ OpenRuns(Seen(s)) = {} /\ start \notin DOMAIN s.rows)
    <2>1. CASE s.stop \/ OpenRuns(Seen(s)) # {} \/ Queued(s) = {}
      BY <2>1 DEF start_next_queued
    <2>2. CASE ~(s.stop \/ OpenRuns(Seen(s)) # {} \/ Queued(s) = {})
      <3>1. start = Min(Queued(s))
        BY <2>2 DEF start_next_queued
      <3>2. Queued(s) \subseteq Nat /\ Queued(s) \subseteq Rows \ DOMAIN s.rows
        BY DEF Queued, Rows
      <3>3. Min(Queued(s)) \in Queued(s)
        BY <2>2, <3>2, LeastOf
      <3> QED BY <2>2, <3>1, <3>2, <3>3
    <2> QED BY <2>1, <2>2
  <1>4. Seen(s) = Overlay(s.runs, run)
    BY SeenIs
  <1>11. CASE \E r \in DOMAIN s.runs : run[r] = "deleted"
    <2>1. Put(a, None)
      BY <1>11 DEF Decide
    <2>2. /\ UNCHANGED <<row, was, run>> /\ cancelled' \in BOOLEAN /\ signals' \in SUBSET Runs
          /\ asks' \in Nat /\ crashes' \in Nat
      BY DEF Decide, Inv, TypeOK
    <2> QED BY <2>1, <2>2, PutKeeps
  <1> SUFFICES ASSUME \A r \in DOMAIN s.runs : run[r] # "deleted" PROVE Inv'
    BY <1>11
  <1>12. Put(a, t)
    BY DEF Decide
  <1> HIDE DEF s, start
  <1>5. t \in Txn /\ t.i = s.i /\ t.k = s.k /\ t.ran = s.ran /\ t.op = s.op /\ t.stage = "decided" /\ t.lock = s.lock
        /\ t.rows = s.rows /\ t.runs = s.runs /\ t.start = start
    BY <1>1, <1>3 DEF Txn
  <1> HIDE DEF t
  <1>6. s.op \in {"advance", "skip", "cancel", "rerun", "end"}
    BY <1>1 DEF Txn
  <1>7. start # None => s.lock
    BY <1>1, <1>2, <1>3, <1>6 DEF Fine
  <1>13. Had(t, was) = Had(s, was) /\ s.start = None /\ s.op # "end" /\ DOMAIN << >> = {}
    BY <1>1, <1>2, <1>5, NoPlan DEF Fine, Had
  <1>8. Fine(t, was, run)
    <2>1. \A i \in DOMAIN t.rows :
            t.rows[i] \in {"succeeded", "failed"} =>
               t.lock /\ Follows(Had(t, was), Overlay(t.runs, run), i, t.rows[i])
      BY <1>2, <1>5, <1>13 DEF Fine
    <2> QED BY <1>1, <1>2, <1>3, <1>4, <1>5, <1>7, <1>13, <2>1 DEF Fine
  <1>9. t.lock => txn[a] # None /\ txn[a].lock
    BY <1>1, <1>5 DEF s
  <1>10. /\ UNCHANGED <<row, was, run>> /\ cancelled' \in BOOLEAN /\ signals' \in SUBSET Runs
         /\ asks' \in Nat /\ crashes' \in Nat
    BY DEF Decide, Inv, TypeOK
  <1> QED BY <1>5, <1>8, <1>9, <1>10, <1>12, PutKeeps

(* A request is counted, and made where nothing is at work.                *)
LEMMA AskIs ==
    ASSUME TypeOK, NEW u \in Users, NEW op, Ask(u, op)
    PROVE  op \in Operations /\ txn[u] = None /\ asks' \in Nat /\ u \in Actors
  BY DEF TypeOK, Ask, Actors

(* cancel_batch closes Runs that were queued and writes no verdict.        *)
LEMMA CancelKeeps ==
    ASSUME Inv, NEW u \in Users, cancel_batch(u)
    PROVE  Inv'
  <1> DEFINE active == {i \in Rows : row[i] = "running"}
             gone == {i \in active : ~HasRun(i) \/ run[latest_run(i)] # "running"}
             queued == {i \in Rows : row[i] = "queued"}
             closed == UNION {Cancels(i) : i \in active}
             toRows == [i \in queued \cup gone |-> "cancelled"]
             toRuns == [r \in closed |-> "cancelled"]
             c == Called("cancel", None, None)
             t == [c EXCEPT !.stage = "read", !.lock = ~cancelled, !.stop = TRUE,
                            !.rows = toRows, !.runs = toRuns]
  <1>1. Put(u, t) /\ (~cancelled => LockFree(u))
    BY DEF cancel_batch
  <1>2. ASSUME NEW r \in closed PROVE r \in Runs /\ run[r] # None
    <2>1. PICK i \in active : r \in Cancels(i)
      OBVIOUS
    <2>2. HasRun(i) /\ r = latest_run(i)
      BY <2>1 DEF Cancels
    <2> QED BY <2>1, <2>2, LatestIs DEF Inv, TypeOK, RunStates
  <1>3. toRows \in [queued \cup gone -> BatchRowStatus] /\ queued \cup gone \in SUBSET Rows
    BY DEF BatchRowStatus
  <1>4. toRuns \in [closed -> Terminal] /\ closed \in SUBSET Runs
    BY <1>2
  <1>5. toRows \in Plans(Rows, BatchRowStatus) /\ toRuns \in Plans(Runs, Terminal)
    BY <1>3, <1>4, PlanOf
  <1>6. /\ DOMAIN toRuns = closed /\ \A r \in closed : toRuns[r] = "cancelled"
        /\ \A i \in DOMAIN toRows : toRows[i] = "cancelled"
    OBVIOUS
  <1> HIDE DEF toRows, toRuns, closed
  <1>8. cancelled \in BOOLEAN
    BY DEF Inv, TypeOK
  <1>7. None \in Rows \cup {None} /\ None \in 1 .. MaxAttempts \cup {None} /\ TypeOK
    BY DEF Inv
  <1>14. c \in Txn
    BY <1>7, CalledIs
  <1>9. c \in Txn /\ c.op = "cancel" /\ c.start = None /\ c.k = None
    BY <1>14 DEF Called
  <1> HIDE DEF c
  <1>10. /\ t \in Txn /\ t.op = "cancel" /\ t.stage = "read" /\ t.lock = ~cancelled /\ t.stop
         /\ t.rows = toRows /\ t.runs = toRuns /\ t.start = None
    BY <1>5, <1>8, <1>9 DEF Txn, Plans
  <1> HIDE DEF t
  <1>11. Fine(t, was, run)
    BY <1>2, <1>6, <1>10 DEF Fine
  <1>12. asks' \in Nat /\ u \in Actors
    BY AskIs DEF cancel_batch, Inv
  <1>13. /\ UNCHANGED <<row, was, run>> /\ cancelled' \in BOOLEAN /\ signals' \in SUBSET Runs
         /\ crashes' \in Nat
    BY DEF cancel_batch, Inv, TypeOK
  <1> QED BY <1>1, <1>10, <1>11, <1>12, <1>13, PutKeeps

(* rerun_batch_row, before the lock: nothing is decided.                   *)
LEMMA RerunKeeps ==
    ASSUME Inv, NEW u \in Users, NEW i \in Rows, rerun_batch_row(u, i)
    PROVE  Inv'
  <1> DEFINE t == Called("rerun", i, None)
  <1>1. t \in Txn /\ Fine(t, was, run) /\ ~t.lock
    BY CalledFine DEF Inv
  <1>2. Put(u, t)
    BY DEF rerun_batch_row
  <1> HIDE DEF t
  <1>3. asks' \in Nat /\ u \in Actors
    BY AskIs DEF rerun_batch_row, Inv
  <1>4. /\ UNCHANGED <<row, was, run>> /\ cancelled' \in BOOLEAN /\ signals' \in SUBSET Runs
        /\ crashes' \in Nat
    BY DEF rerun_batch_row, Inv, TypeOK
  <1> QED BY <1>1, <1>2, <1>3, <1>4, PutKeeps

(* ... and under it: a Run is to start only if none is open.               *)
LEMMA RerunLockedKeeps ==
    ASSUME Inv, NEW u \in Users, RerunLocked(u)
    PROVE  Inv'
  <1> DEFINE s == txn[u]
             t == [s EXCEPT !.stage = "decided", !.lock = TRUE, !.start = s.i]
  <1>0. u \in Actors /\ run \in RunStates
    BY DEF Actors, Inv, TypeOK, RunStates
  <1>1. s \in Txn /\ s # None /\ s.op = "rerun" /\ s.stage = "called" /\ LockFree(u)
    BY <1>0 DEF Inv, TypeOK, RerunLocked
  <1>2. Fine(s, was, run)
    BY <1>0, <1>1 DEF Inv, AllFine
  <1>3. /\ UNCHANGED <<row, was, run>> /\ cancelled' \in BOOLEAN /\ signals' \in SUBSET Runs
        /\ asks' \in Nat /\ crashes' \in Nat
    BY DEF RerunLocked, Inv, TypeOK
  <1>4. CASE OpenRuns(run) # {}
    <2>1. Put(u, None)
      BY <1>4 DEF RerunLocked
    <2> QED BY <1>0, <1>3, <2>1, PutKeeps
  <1>5. CASE OpenRuns(run) = {}
    <2>1. Put(u, t)
      BY <1>5 DEF RerunLocked
    <2>2. s.rows = << >> /\ s.runs = << >> /\ s.i \in Rows /\ DOMAIN << >> = {}
      BY <1>1, <1>2, NoPlan DEF Fine
    <2> HIDE DEF s
    <2>3. /\ t \in Txn /\ t.op = "rerun" /\ t.stage = "decided" /\ t.lock /\ t.i \in Rows
          /\ t.rows = << >> /\ t.runs = << >> /\ t.start \in Rows
      BY <1>1, <2>2 DEF Txn
    <2> HIDE DEF t
    <2>4. Overlay(t.runs, run) = run
      BY <1>0, <2>3, NothingOver
    <2>5. Fine(t, was, run)
      BY <1>5, <2>2, <2>3, <2>4 DEF Fine
    <2> QED BY <1>0, <1>1, <1>3, <2>1, <2>3, <2>5, PutKeeps
  <1> QED BY <1>4, <1>5

(* A step in which Runs go on quietly, those a transaction has updated are *)
(* left alone, no verdict is forgotten, and at most one transaction is     *)
(* replaced by one that is fine and has no lock.                           *)
LEMMA QuietKeeps ==
    ASSUME Inv, run' \in RunStates, Quiet(run, run'), row' = row, TypeOK',
           was \subseteq was', Recorded',
           \A a \in Actors :
              txn[a] # None /\ (txn[a].stage = "decided" \/ txn[a].op = "advance") =>
                 \A r \in DOMAIN txn[a].runs : run'[r] = run[r],
           \A a \in Actors :
              txn'[a] = txn[a] \/ txn'[a] = None \/ (Fine(txn'[a], was', run') /\ ~txn'[a].lock)
    PROVE  Inv'
  <1>1. AllFine'
    <2> SUFFICES ASSUME NEW a \in Actors, txn'[a] = txn[a], txn[a] # None
                 PROVE  Fine(txn[a], was', run')
      BY DEF AllFine
    <2>1. txn[a] \in Txn /\ Fine(txn[a], was, run) /\ run \in RunStates
      BY DEF Inv, TypeOK, AllFine, RunStates
    <2>2. Lasting(run, run')
      BY DEF Quiet, Lasting
    <2> QED BY <2>1, <2>2, FineKept
  <1>2. OneLock'
    BY DEF Inv, OneLock
  <1>3. OneOpenRun' /\ RowFollowsLatest'
    BY QuietKeepsProperties DEF Inv
  <1> QED BY <1>1, <1>2, <1>3 DEF Inv

(* One Run that is there moves to a status that does not open it, and the  *)
(* verdict, if it is one, is remembered.                                   *)
LEMMA OneMoves ==
    ASSUME TypeOK, Recorded,
           NEW r \in Runs, NEW status \in NON_TERMINAL \cup Terminal \cup {"deleted"},
           \/ run[r] \in NON_TERMINAL
           \/ run[r] \in Terminal /\ status \in Terminal \cup {"deleted"},
           run' = [run EXCEPT ![r] = status],
           was \subseteq was', status \in Terminal => <<r, status>> \in was'
    PROVE  run' \in RunStates /\ Quiet(run, run') /\ Recorded'
  <1>1. run' \in RunStates /\ Quiet(run, run')
    BY DEF TypeOK, RunStates, Quiet
  <1>2. \A q \in Runs : run'[q] = IF q = r THEN status ELSE run[q]
    BY DEF TypeOK
  <1>3. Recorded'
    BY <1>2 DEF Recorded
  <1> QED BY <1>1, <1>3

(* RunsFree, for the Runs other transactions have updated.                 *)
LEMMA UpdatedAlone ==
    ASSUME TypeOK, NEW r \in Runs, NEW status, run' = [run EXCEPT ![r] = status],
           NEW u, u \in Actors /\ txn[u] # None =>
                     txn[u].stage # "decided" /\ txn[u].op # "advance",
           RunsFree(u, {r})
    PROVE  \A a \in Actors :
              txn[a] # None /\ (txn[a].stage = "decided" \/ txn[a].op = "advance") =>
                 \A q \in DOMAIN txn[a].runs : run'[q] = run[q]
  <1> SUFFICES ASSUME NEW a \in Actors, txn[a] # None,
                      txn[a].stage = "decided" \/ txn[a].op = "advance",
                      NEW q \in DOMAIN txn[a].runs
               PROVE  run'[q] = run[q]
    OBVIOUS
  <1>1. txn[a] \in Txn
    BY DEF TypeOK
  <1>2. q \in Runs
    BY <1>1, TxnHas
  <1>3. q # r
    BY DEF RunsFree, Others
  <1> QED BY <1>2, <1>3 DEF TypeOK

(* cancel_run and abandon_takeover read a Run that is there.               *)
LEMMA EndRunKeeps ==
    ASSUME Inv, NEW u \in Users, NEW r \in Runs, NEW status \in Terminal, EndRun(u, r, status)
    PROVE  Inv'
  <1> DEFINE c == Called("end", r[1], r[2])
             to == [q \in {r} |-> status]
             t == [c EXCEPT !.runs = to]
  <1>1. r[1] \in Rows /\ r[2] \in 1 .. MaxAttempts /\ r = <<r[1], r[2]>>
    BY DEF Runs
  <1>10. TypeOK /\ r[1] \in Rows \cup {None} /\ r[2] \in 1 .. MaxAttempts \cup {None}
    BY <1>1 DEF Inv
  <1>11. c \in Txn
    BY <1>1, <1>10, CalledIs
  <1>2. c \in Txn /\ c.op = "end" /\ c.stage = "called" /\ ~c.lock /\ c.i = r[1] /\ c.k = r[2]
        /\ c.rows = << >> /\ c.start = None
    BY <1>11 DEF Called
  <1>3. to \in Plans(Runs, Terminal) /\ DOMAIN to = {r}
    <2>1. to \in [{r} -> Terminal] /\ {r} \in SUBSET Runs
      OBVIOUS
    <2> QED BY <2>1, PlanOf
  <1>4. Put(u, t) /\ run[r] \in NON_TERMINAL
    BY DEF EndRun
  <1> HIDE DEF c, to
  <1>5. t \in Txn /\ t.op = "end" /\ t.stage = "called" /\ ~t.lock /\ t.i = r[1] /\ t.k = r[2]
        /\ t.rows = << >> /\ t.start = None /\ t.runs = to
    BY <1>2, <1>3 DEF Txn, Plans
  <1> HIDE DEF t
  <1>6. DOMAIN << >> = {}
    BY NoPlan
  <1>7. Fine(t, was, run)
    BY <1>1, <1>3, <1>4, <1>5, <1>6 DEF Fine
  <1>8. asks' \in Nat /\ u \in Actors
    BY AskIs DEF EndRun, Inv
  <1>9. /\ UNCHANGED <<row, was, run>> /\ cancelled' \in BOOLEAN /\ signals' \in SUBSET Runs
        /\ crashes' \in Nat
    BY DEF EndRun, Inv, TypeOK
  <1> QED BY <1>4, <1>5, <1>7, <1>8, <1>9, PutKeeps

(* ... and write it, whatever its status is by then.                       *)
LEMMA EndCommitKeeps ==
    ASSUME Inv, NEW u \in Users, EndCommit(u)
    PROVE  Inv'
  <1> DEFINE s == txn[u]
             r == <<s.i, s.k>>
             t == [s EXCEPT !.stage = "ended", !.runs = << >>]
  <1>0. u \in Actors
    BY DEF Actors
  <1>1. s \in Txn /\ s # None /\ s.op = "end" /\ s.stage = "called" /\ Fine(s, was, run)
    BY <1>0 DEF Inv, TypeOK, AllFine, EndCommit
  <1>2. RunsFree(u, {r}) /\ UNCHANGED <<cancelled, row, signals, asks, crashes>>
    BY DEF EndCommit
  <1>3. CASE run[r] = "deleted"
    <2>1. Put(u, None) /\ UNCHANGED <<was, run>>
      BY <1>3 DEF EndCommit
    <2>2. /\ cancelled' \in BOOLEAN /\ signals' \in SUBSET Runs /\ asks' \in Nat /\ crashes' \in Nat
      BY <1>2 DEF Inv, TypeOK
    <2> QED BY <1>0, <1>2, <2>1, <2>2, PutKeeps
  <1>4. CASE run[r] # "deleted"
    <2> DEFINE status == s.runs[r]
    <2>1. /\ run' = [run EXCEPT ![r] = status] /\ was' = was \cup {<<r, status>>}
          /\ txn' = [txn EXCEPT ![u] = t]
      BY <1>4 DEF EndCommit, Put
    <2> HIDE DEF s
    <2>2. /\ s.i \in Rows /\ s.k \in 1 .. MaxAttempts /\ DOMAIN s.runs = {r}
          /\ run[r] # None /\ s.rows = << >> /\ s.start = None /\ ~s.lock
      BY <1>1 DEF Fine
    <2>3. r \in Runs /\ status \in Terminal
      BY <1>1, <2>2, TxnHas DEF Runs
    <2>4. << >> \in Plans(Runs, Terminal) /\ DOMAIN << >> = {}
      BY NoPlan
    <2>5. /\ t \in Txn /\ t.op = "end" /\ t.stage = "ended" /\ ~t.lock /\ t.i = s.i /\ t.k = s.k
          /\ t.rows = << >> /\ t.start = None /\ t.runs = << >>
      BY <1>1, <2>2, <2>4 DEF Txn, Plans
    <2> HIDE DEF t, r, status
    <2>6. Fine(t, was', run')
      BY <2>2, <2>4, <2>5 DEF Fine
    <2>7. run' \in RunStates /\ Quiet(run, run') /\ Recorded'
      <3>1. run[r] \in NON_TERMINAL \cup Terminal
        BY <1>4, <2>2, <2>3 DEF Inv, TypeOK
      <3> QED BY <2>1, <2>3, <3>1, OneMoves DEF Inv
    <2>8. TypeOK'
      BY <1>0, <1>2, <2>1, <2>3, <2>5, <2>7 DEF Inv, TypeOK, RunStates
    <2>9. \A a \in Actors : txn'[a] = txn[a] \/ txn'[a] = None
                              \/ (Fine(txn'[a], was', run') /\ ~txn'[a].lock)
      BY <1>0, <2>1, <2>5, <2>6 DEF Inv, TypeOK
    <2>10. \A a \in Actors :
              txn[a] # None /\ (txn[a].stage = "decided" \/ txn[a].op = "advance") =>
                 \A q \in DOMAIN txn[a].runs : run'[q] = run[q]
      BY <1>1, <1>2, <2>1, <2>3, UpdatedAlone DEF Inv, s
    <2> QED BY <1>2, <2>1, <2>7, <2>8, <2>9, <2>10, QuietKeeps
  <1> QED BY <1>3, <1>4

(* advance_batch_after calls on_terminal_run for a Run that is closed.     *)
LEMMA AfterEndKeeps ==
    ASSUME Inv, NEW u \in Users, advance_batch_after(u)
    PROVE  Inv'
  <1> DEFINE s == txn[u]
             t == Called("advance", s.i, s.k)
  <1>0. u \in Actors
    BY DEF Actors
  <1>1. s \in Txn /\ s.op = "end" /\ s.stage = "ended" /\ Fine(s, was, run)
    BY <1>0 DEF Inv, TypeOK, AllFine, advance_batch_after
  <1>2. Put(u, IF run[<<s.i, s.k>>] \in Terminal THEN t ELSE None)
    BY DEF advance_batch_after
  <1>3. /\ UNCHANGED <<row, was, run>> /\ cancelled' \in BOOLEAN /\ signals' \in SUBSET Runs
        /\ asks' \in Nat /\ crashes' \in Nat
    BY DEF advance_batch_after, Inv, TypeOK
  <1> HIDE DEF s
  <1>4. s.i \in Rows /\ s.k \in 1 .. MaxAttempts
    BY <1>1 DEF Fine
  <1>5. CASE run[<<s.i, s.k>>] \in Terminal
    <2>1. t \in Txn /\ Fine(t, was, run) /\ ~t.lock
      BY <1>4, <1>5, CalledFine DEF Inv
    <2> HIDE DEF t
    <2> QED BY <1>0, <1>2, <1>3, <1>5, <2>1, PutKeeps
  <1>6. CASE run[<<s.i, s.k>>] \notin Terminal
    <2>1. Put(u, None)
      BY <1>2, <1>6
    <2> QED BY <1>0, <1>3, <2>1, PutKeeps
  <1> QED BY <1>5, <1>6

(* delete_run takes a Run that has ended.                                  *)
LEMMA DeleteKeeps ==
    ASSUME Inv, NEW u \in Users, NEW r \in Runs, delete_run(u, r)
    PROVE  Inv'
  <1>1. txn[u] = None /\ asks' \in Nat /\ u \in Actors
    BY AskIs DEF delete_run, Inv
  <1>2. run[r] \in Terminal /\ run' = [run EXCEPT ![r] = "deleted"] /\ RunsFree(u, {r})
        /\ UNCHANGED <<cancelled, row, was, txn, signals, crashes>>
    BY DEF delete_run
  <1>3. run' \in RunStates /\ Quiet(run, run') /\ Recorded'
    BY <1>2, OneMoves DEF Inv
  <1>4. TypeOK'
    BY <1>1, <1>2, <1>3 DEF Inv, TypeOK, RunStates
  <1>5. \A a \in Actors :
           txn[a] # None /\ (txn[a].stage = "decided" \/ txn[a].op = "advance") =>
              \A q \in DOMAIN txn[a].runs : run'[q] = run[q]
    BY <1>1, <1>2, UpdatedAlone DEF Inv
  <1> QED BY <1>2, <1>3, <1>4, <1>5, QuietKeeps

(* What RunPromise lets a Run do opens no other.                           *)
LEMMA WorkerKeeps ==
    ASSUME Inv, NEW r \in Runs, NEW status \in NON_TERMINAL \cup Terminal, WorkerMoves(r, status)
    PROVE  Inv'
  <1>1. run[r] \in NON_TERMINAL /\ run' = [run EXCEPT ![r] = status] /\ RunsFree(None, {r})
        /\ UNCHANGED <<cancelled, row, txn, asks, crashes>>
    BY DEF WorkerMoves
  <1>2. signals' \in SUBSET Runs /\ was' = was \cup ({<<r, status>>} \cap (Runs \X Terminal))
    BY DEF WorkerMoves, Inv, TypeOK
  <1>3. run' \in RunStates /\ Quiet(run, run') /\ Recorded'
    BY <1>1, <1>2, OneMoves DEF Inv
  <1>4. TypeOK'
    BY <1>1, <1>2, <1>3 DEF Inv, TypeOK, RunStates
  <1>5. None \notin Actors
    BY DEF Actors
  <1>6. \A a \in Actors :
           txn[a] # None /\ (txn[a].stage = "decided" \/ txn[a].op = "advance") =>
              \A q \in DOMAIN txn[a].runs : run'[q] = run[q]
    BY <1>1, <1>5, UpdatedAlone DEF Inv
  <1> QED BY <1>1, <1>2, <1>3, <1>4, <1>6, QuietKeeps

(* A restart leaves rows and Runs as they are.                             *)
LEMMA CrashKeeps ==
    ASSUME Inv, ApiCrash
    PROVE  Inv'
  <1>1. txn' = [a \in Actors |-> None] /\ UNCHANGED <<cancelled, row, was, run, asks>>
        /\ signals' = {} /\ crashes' \in Nat
    BY DEF ApiCrash, Inv, TypeOK
  <1>2. TypeOK'
    BY <1>1 DEF Inv, TypeOK
  <1>3. AllFine' /\ OneLock'
    BY <1>1 DEF AllFine, OneLock
  <1>4. OneOpenRun' /\ RowFollowsLatest' /\ Recorded'
    BY <1>1 DEF Inv, OneOpenRun, OpenRuns, RowFollowsLatest, Recorded
  <1> QED BY <1>2, <1>3, <1>4 DEF Inv

(* A transaction writes quietly: its Runs are there, and so not deleted.   *)
LEMMA WritesQuietly ==
    ASSUME TypeOK, NEW t \in Txn, t.stage = "decided", Fine(t, was, run)
    PROVE  /\ Overlay(t.runs, run) \in RunStates
           /\ Quiet(run, Overlay(t.runs, run))
           /\ \A r \in Runs : Overlay(t.runs, run)[r] = IF r \in DOMAIN t.runs THEN t.runs[r] ELSE run[r]
  <1>0. run \in RunStates /\ t.runs \in [DOMAIN t.runs -> Terminal]
    BY TxnHas DEF TypeOK, RunStates
  <1>1. \A r \in Runs :
          /\ r \in DOMAIN t.runs => t.runs[r] \in Terminal /\ run[r] \notin {None, "deleted"}
          /\ run[r] \in NON_TERMINAL \cup Terminal \cup {"deleted", None}
    BY <1>0 DEF Fine, RunStates
  <1>2. \A r \in Runs : Overlay(t.runs, run)[r] = IF r \in DOMAIN t.runs THEN t.runs[r] ELSE run[r]
    BY DEF Overlay
  <1>3. Overlay(t.runs, run) = [r \in Runs |-> Overlay(t.runs, run)[r]]
    BY DEF Overlay
  <1>4. Overlay(t.runs, run) \in RunStates
    BY <1>1, <1>2, <1>3 DEF RunStates
  <1>5. Quiet(run, Overlay(t.runs, run))
    BY <1>1, <1>2 DEF Quiet
  <1> QED BY <1>2, <1>4, <1>5

(* A commit: the rows it gives a verdict had it from their newest attempt, *)
(* and a Run starts only under the lock, where no other is open; then no   *)
(* other transaction has a verdict to write or a Run to start.             *)
LEMMA CommitKeeps ==
    ASSUME Inv, NEW a \in Actors, Commit(a)
    PROVE  Inv'
  <1> DEFINE t == txn[a]
             begun == {t.start} \ {None}
             started == {Fresh(i) : i \in begun}
             m == Overlay(t.runs, run)
  <1>0. t \in Txn /\ t # None /\ t.stage = "decided" /\ Fine(t, was, run)
    BY DEF Inv, TypeOK, AllFine, Commit
  <1>1. /\ Room(t.start) /\ RunsFree(a, DOMAIN t.runs)
        /\ row' = [i \in Rows |-> IF i \in begun THEN "running"
                                  ELSE IF i \in DOMAIN t.rows THEN t.rows[i] ELSE row[i]]
        /\ run' = [r \in Runs |-> IF r \in started THEN "queued" ELSE m[r]]
        /\ cancelled' = (cancelled \/ t.op = "cancel")
        /\ was' = Had(t, was)
        /\ txn' = [txn EXCEPT ![a] = None] /\ UNCHANGED <<signals, asks, crashes>>
    BY SeenIs DEF Commit, Put, Had
  <1>2. /\ t.rows \in [DOMAIN t.rows -> BatchRowStatus] /\ DOMAIN t.rows \subseteq Rows
        /\ t.runs \in [DOMAIN t.runs -> Terminal] /\ DOMAIN t.runs \subseteq Runs
        /\ t.start \in Rows \cup {None}
    BY <1>0, TxnHas
  <1>3. /\ m \in RunStates /\ Quiet(run, m)
        /\ \A r \in Runs : m[r] = IF r \in DOMAIN t.runs THEN t.runs[r] ELSE run[r]
    BY <1>0, WritesQuietly DEF Inv
  <1>4. t.start # None => /\ t.start \in Rows /\ Fresh(t.start) \in Runs
                          /\ run[Fresh(t.start)] = None /\ Fresh(t.start)[1] = t.start
    BY <1>1, <1>2, FreshIs DEF Room
  <1>5. \A b \in Actors : txn'[b] = IF b = a THEN None ELSE txn[b]
    BY <1>1 DEF Inv, TypeOK
  <1>6. /\ row \in [Rows -> BatchRowStatus] /\ run \in RunStates /\ cancelled \in BOOLEAN
        /\ txn \in [Actors -> Txn \cup {None}] /\ signals \in SUBSET Runs
        /\ asks \in Nat /\ crashes \in Nat /\ was \in SUBSET (Runs \X Terminal)
    BY DEF Inv, TypeOK, RunStates
  <1> HIDE DEF m
  <1>7. run' \in RunStates
    BY <1>1, <1>3 DEF RunStates
  <1>8. TypeOK'
    <2>1. row' \in [Rows -> BatchRowStatus]
      BY <1>1, <1>2, <1>6 DEF BatchRowStatus
    <2>2. txn' \in [Actors -> Txn \cup {None}]
      BY <1>1, <1>6
    <2>3. was' \in SUBSET (Runs \X Terminal)
      BY <1>1, <1>2, <1>6 DEF Had
    <2> QED BY <2>1, <2>2, <2>3, <1>1, <1>6, <1>7 DEF TypeOK, RunStates
  <1>9. OneLock'
    BY <1>5 DEF Inv, OneLock
  <1>10. t.start = None => run' = m /\ Quiet(run, run')
    BY <1>1, <1>3 DEF RunStates
  <1>11. t.start # None => t.lock /\ OpenRuns(m) = {}
    BY <1>0 DEF Fine, m
  <1>12. AllFine'
    <2> SUFFICES ASSUME NEW b \in Actors, b # a, txn[b] # None
                 PROVE  Fine(txn[b], was', run')
      BY <1>5 DEF AllFine
    <2>1. txn[b] \in Txn /\ Fine(txn[b], was, run)
      BY <1>6 DEF Inv, AllFine
    <2>2. txn[b].lock => Quiet(run, run')
      BY <1>0, <1>10, <1>11 DEF Inv, OneLock
    <2>3. Lasting(run, run')
      BY <1>1, <1>3, <1>4 DEF Quiet, Lasting
    <2>4. ASSUME txn[b].stage = "decided" \/ txn[b].op = "advance", NEW r \in DOMAIN txn[b].runs PROVE run'[r] = run[r]
      <3>1. r \in Runs /\ run[r] # None
        BY <2>1, TxnHas DEF Fine
      <3>2. r \notin DOMAIN t.runs
        BY <1>1, <2>4 DEF RunsFree, Others
      <3>3. r \notin started
        BY <1>4, <3>1
      <3> QED BY <1>1, <1>3, <3>1, <3>2, <3>3
    <2>5. was \subseteq was'
      BY <1>1 DEF Had
    <2> QED BY <1>6, <1>7, <2>1, <2>2, <2>3, <2>4, <2>5, FineKept
  <1>16. Recorded'
    <2> SUFFICES ASSUME NEW r \in Runs, run'[r] \in Terminal PROVE <<r, run'[r]>> \in was'
      BY DEF Recorded
    <2>1. run'[r] = m[r]
      BY <1>1
    <2> QED BY <2>1, <1>1, <1>3 DEF Inv, Recorded, Had
  <1>13. OneOpenRun'
    <2>1. CASE t.start = None
      BY <2>1, <1>1, <1>7, <1>10, QuietKeepsProperties DEF Inv, Had
    <2>2. CASE t.start # None
      <3>1. \A r \in OpenRuns(run') : r = Fresh(t.start)
        BY <2>2, <1>1, <1>11 DEF OpenRuns
      <3> QED BY <3>1 DEF OneOpenRun
    <2> QED BY <2>1, <2>2
  <1>14. ASSUME NEW i \in Rows, row'[i] \in {"succeeded", "failed"}
         PROVE  Follows(was', run', i, row'[i])
    <2>1. i \notin begun
      BY <1>1, <1>14
    <2>2. \A k \in 1 .. MaxAttempts : <<i, k>> \in Runs /\ run'[<<i, k>>] = m[<<i, k>>]
      BY <1>1, <1>4, <2>1 DEF Runs
    <2>3. Follows(was', m, i, row'[i])
      <3>1. CASE i \in DOMAIN t.rows
        <4>1. row'[i] = t.rows[i]
          BY <1>1, <2>1, <3>1
        <4>2. Follows(Had(t, was), m, i, row'[i])
          BY <1>0, <1>14, <3>1, <4>1 DEF Fine, m
        <4> QED BY <1>1, <4>2
      <3>2. CASE i \notin DOMAIN t.rows
        <4>1. row'[i] = row[i]
          BY <1>1, <2>1, <3>2
        <4>2. Follows(was, run, i, row'[i])
          BY <1>14, <4>1 DEF Inv, RowFollowsLatest, Follows
        <4>3. was \subseteq was'
          BY <1>1 DEF Had
        <4> QED BY <1>3, <1>14, <4>2, <4>3, QuietKeepsVerdict
      <3> QED BY <3>1, <3>2
    <2> QED BY <2>2, <2>3 DEF Follows
  <1>15. RowFollowsLatest'
    BY <1>14 DEF RowFollowsLatest, Follows
  <1> QED BY <1>8, <1>9, <1>12, <1>13, <1>15, <1>16 DEF Inv

-----------------------------------------------------------------------------
(* The theorems.                                                           *)

(* create_batch opens one Run at most and gives no row a verdict.          *)
LEMMA InitHolds == Init => Inv
  <1> SUFFICES ASSUME Init PROVE Inv
    OBVIOUS
  <1>1. PICK incomplete \in SUBSET Rows :
          LET first == {i \in Rows \ incomplete : \A j \in Rows \ incomplete : i <= j} IN
          /\ row = [i \in Rows |-> IF i \in incomplete THEN "skipped"
                                   ELSE IF i \in first THEN "running" ELSE "queued"]
          /\ run = [r \in Runs |-> IF r[1] \in first /\ r[2] = 1 THEN "queued" ELSE None]
          /\ cancelled = FALSE /\ was = {} /\ txn = [a \in Actors |-> None] /\ signals = {}
          /\ asks = 0 /\ crashes = 0
    BY DEF Init
  <1> DEFINE first == {i \in Rows \ incomplete : \A j \in Rows \ incomplete : i <= j}
  <1>2. \A i, j \in first : i = j
    BY DEF Rows
  <1>3. run = [r \in Runs |-> IF r[1] \in first /\ r[2] = 1 THEN "queued" ELSE None]
        /\ txn = [a \in Actors |-> None]
    BY <1>1
  <1>4. /\ row \in [Rows -> BatchRowStatus]
        /\ \A i \in Rows : row[i] \notin {"succeeded", "failed"}
    BY <1>1 DEF BatchRowStatus
  <1> HIDE DEF first
  <1>5. TypeOK
    BY <1>1, <1>3, <1>4 DEF TypeOK
  <1>6. AllFine /\ OneLock
    BY <1>3 DEF AllFine, OneLock
  <1>7. OneOpenRun
    <2> SUFFICES ASSUME NEW r \in Runs, NEW s \in Runs, run[r] \in NON_TERMINAL, run[s] \in NON_TERMINAL
                 PROVE  r = s
      BY DEF OneOpenRun, OpenRuns
    <2>1. r[1] = s[1] /\ r[2] = s[2]
      BY <1>2, <1>3
    <2> QED BY <2>1 DEF Runs
  <1>8. RowFollowsLatest /\ Recorded
    BY <1>3, <1>4 DEF RowFollowsLatest, Recorded
  <1> QED BY <1>5, <1>6, <1>7, <1>8 DEF Inv

(* Every step keeps the invariant, if nobody asks for a skip.              *)
LEMMA StepKeeps ==
    ASSUME "skip" \notin Operations, Inv, [Next]_vars
    PROVE  Inv'
  <1>1. CASE \E r \in Runs : OnTerminal(r)
    BY <1>1, OnTerminalKeeps
  <1>2. CASE \E a \in Actors : Reflect(a) \/ Decide(a) \/ Commit(a)
    BY <1>2, ReflectKeeps, DecideKeeps, CommitKeeps
  <1>3. CASE \E S \in SUBSET Runs : Tick(S)
    BY <1>3, TickKeeps
  <1>4. CASE \E u \in Users :
               \/ \E i \in Rows : skip_batch_row(u, i) \/ rerun_batch_row(u, i)
               \/ cancel_batch(u)
               \/ RerunLocked(u) \/ EndCommit(u) \/ advance_batch_after(u)
               \/ \E r \in Runs : delete_run(u, r) \/ \E s \in Terminal : EndRun(u, r, s)
    <2> PICK u \in Users :
               \/ \E i \in Rows : skip_batch_row(u, i) \/ rerun_batch_row(u, i)
               \/ cancel_batch(u)
               \/ RerunLocked(u) \/ EndCommit(u) \/ advance_batch_after(u)
               \/ \E r \in Runs : delete_run(u, r) \/ \E s \in Terminal : EndRun(u, r, s)
      BY <1>4
    <2>1. ASSUME NEW i \in Rows PROVE ~skip_batch_row(u, i)
      BY DEF skip_batch_row, Ask
    <2>2. CASE \E i \in Rows : rerun_batch_row(u, i)
      BY <2>2, RerunKeeps
    <2>3. CASE cancel_batch(u)
      BY <2>3, CancelKeeps
    <2>4. CASE RerunLocked(u)
      BY <2>4, RerunLockedKeeps
    <2>5. CASE \E r \in Runs : delete_run(u, r)
      BY <2>5, DeleteKeeps
    <2>6. CASE \E r \in Runs : \E s \in Terminal : EndRun(u, r, s)
      BY <2>6, EndRunKeeps
    <2>7. CASE EndCommit(u) \/ advance_batch_after(u)
      BY <2>7, EndCommitKeeps, AfterEndKeeps
    <2> QED BY <2>1, <2>2, <2>3, <2>4, <2>5, <2>6, <2>7
  <1>5. CASE \E r \in Runs : \E s \in NON_TERMINAL \cup Terminal : WorkerMoves(r, s)
    BY <1>5, WorkerKeeps
  <1>6. CASE ApiCrash
    BY <1>6, CrashKeeps
  <1>7. CASE UNCHANGED vars
    BY <1>7 DEF vars, Inv, TypeOK, AllFine, OneLock, OneOpenRun, OpenRuns, RowFollowsLatest, Fine, Recorded
  <1> QED BY <1>1, <1>2, <1>3, <1>4, <1>5, <1>6, <1>7 DEF Next

(* The invariant holds throughout.                                         *)
LEMMA Invariance == ASSUME "skip" \notin Operations PROVE Spec => []Inv
  <1>1. Inv /\ [Next]_vars => Inv'
    BY StepKeeps
  <1> QED BY <1>1, InitHolds, PTL DEF Spec

(* Without skips no two Runs of a Batch are ever open: the lock on the     *)
(* Batch and the check for an open Run made under it are enough, whoever   *)
(* advances it, whatever is reaped, closed or deleted meanwhile, and       *)
(* wherever the API restarts (start_next_queued, rerun_batch_row).         *)
THEOREM OneRunAtATime == ASSUME "skip" \notin Operations PROVE Spec => []OneOpenRun
  <1>1. Inv => OneOpenRun
    BY DEF Inv
  <1> QED BY <1>1, Invariance, PTL

(* Without skips the verdict of a row is one its newest attempt has had,   *)
(* deleted ones aside, and that attempt is closed: no transaction writes a *)
(* verdict it read of an attempt that another has replaced                 *)
(* (reflect_running_rows, rerun_batch_row), whatever a cancel or an        *)
(* abandon that read the Run before writes over its verdict.               *)
THEOREM VerdictOfLatest == ASSUME "skip" \notin Operations PROVE Spec => []RowFollowsLatest
  <1>1. Inv => RowFollowsLatest
    BY DEF Inv
  <1> QED BY <1>1, Invariance, PTL

-----------------------------------------------------------------------------
(***************************************************************************)
(* The page of a Batch (BatchView).  What it shows is true, for any number *)
(* of rows, attempts, events in flight and troubles: RowsAreTrue.          *)
(*                                                                         *)
(* The argument: a commit takes back no final status, no attempt and no    *)
(* value (Lasts), except of the rows it wrote over: a transaction means to *)
(* write only rows that were not final when it read them and whose open    *)
(* Runs it closes (Safe), and that is still so at its commit unless        *)
(* another transaction has written the row.  What an event says was        *)
(* committed before it is said (WordOK), so it is still so whenever the    *)
(* page hears it, however late and in whatever order.  A snapshot that     *)
(* says only such things (SnapOK) is made by every load and kept by every  *)
(* event; and a fill that was answered leaves no queued row without a      *)
(* value in the database, whose older loads are dropped (PageOK, LoadOK).  *)
(***************************************************************************)
(* The database the page of a Batch shows.  A row's Runs are its attempts  *)
(* from the first on; but for rows written over, an open Run is the latest *)
(* of a running row.                                                       *)
UpTo(S) == \E n \in 0 .. MaxAttempts : S = 1 .. n

Final == {"succeeded", "cancelled"}

ViewDB ==
    /\ batch \in Batch /\ run \in [Runs -> RunStatus \cup {None}] /\ over \subseteq Rows
    /\ \A i \in Rows : UpTo(attempts_by_row(i))
    /\ \A r \in Runs : run[r] \in NON_TERMINAL =>
                         r[1] \in over \/ (batch.status[r[1]] = "running" /\ LatestRun(r[1]) = r)
    /\ \A i \in Rows : batch.status[i] = "running" => LatestRun(i) # None

\* What no step takes back.
Lasts ==
    /\ over \subseteq over'
    /\ \A i \in Rows \ over' : batch.status[i] \in Final => batch'.status[i] = batch.status[i]
    /\ \A i \in Rows : batch'.status[i] = "queued" => batch.status[i] = "queued"
    /\ \A i \in Rows : batch.value[i] => batch'.value[i]
    /\ \A r \in Runs : run[r] # None => run'[r] # None

\* The page's database reads no more of the Batch than its rows' statuses.
LEMMA SameDB ==
    ASSUME ViewDB, batch' \in Batch, batch'.status = batch.status, run' = run, over' = over
    PROVE  ViewDB'
  <1>1. \A i : attempts_by_row(i)' = attempts_by_row(i)
    BY DEF attempts_by_row
  <1>2. \A i : LatestRun(i)' = LatestRun(i)
    BY <1>1 DEF LatestRun
  <1>3. \A i \in Rows : UpTo(attempts_by_row(i))'
    BY <1>1 DEF ViewDB, UpTo
  <1>4. \A r \in Runs : run'[r] \in NON_TERMINAL =>
                        r[1] \in over' \/ (batch'.status[r[1]] = "running" /\ LatestRun(r[1])' = r)
    BY <1>2 DEF ViewDB
  <1>5. \A i \in Rows : batch'.status[i] = "running" => LatestRun(i)' # None
    BY <1>2 DEF ViewDB
  <1> QED BY <1>3, <1>4, <1>5 DEF ViewDB

LEMMA UntouchedDB == ASSUME ViewDB, UNCHANGED <<batch, run, over>> PROVE ViewDB'
  BY SameDB DEF ViewDB

LEMMA NonesApart ==
    None \notin Rows /\ None \notin Runs /\ None \notin RunStatus /\ MaxAttempts \in Nat /\ NRows \in Nat
  BY BatchViewAssumption

LEMMA AttemptsAre ==
    ASSUME NEW i \in Rows, UpTo(attempts_by_row(i))
    PROVE  LET n == Cardinality(attempts_by_row(i)) IN
           /\ n \in 0 .. MaxAttempts /\ attempts_by_row(i) = 1 .. n
           /\ LatestRun(i) = IF n = 0 THEN None ELSE <<i, n>>
           /\ NextRun(i) = <<i, n + 1>>
           /\ LatestRun(i) # None => LatestRun(i) \in Runs /\ run[LatestRun(i)] # None
  <1> DEFINE n == Cardinality(attempts_by_row(i))
  <1>1. PICK m \in 0 .. MaxAttempts : attempts_by_row(i) = 1 .. m
    BY DEF UpTo
  <1>2. m \in Nat
    BY NonesApart
  <1>3. n = m
    BY <1>1, <1>2, FS_Interval
  <1>4. m # 0 => Max(1 .. m) = m
    <2>1. m # 0 => m \in 1 .. m /\ \A y \in 1 .. m : m >= y
      BY <1>2
    <2>2. \A x \in 1 .. m : (\A y \in 1 .. m : x >= y) => x = m
      BY <1>2
    <2> QED BY <2>1, <2>2 DEF Max
  <1>5. LatestRun(i) = IF m = 0 THEN None ELSE <<i, m>>
    <2>1. CASE m = 0
      BY <1>1, <2>1 DEF LatestRun
    <2>2. CASE m # 0
      <3>1. attempts_by_row(i) # {}
        <4>1. 1 \in 1 .. m
          BY <1>2, <2>2
        <4> QED BY <1>1, <4>1
      <3> QED BY <1>1, <1>4, <2>2, <3>1 DEF LatestRun
    <2> QED BY <2>1, <2>2
  <1>6. NextRun(i) = <<i, n + 1>>
    BY DEF NextRun
  <1>7. m # 0 => <<i, m>> \in Runs /\ run[<<i, m>>] # None
    <2>1. m # 0 => m \in attempts_by_row(i)
      BY <1>1, <1>2
    <2> QED BY <2>1 DEF attempts_by_row, Runs
  <1> HIDE DEF n
  <1>8. n \in 0 .. MaxAttempts /\ attempts_by_row(i) = 1 .. n /\ (LatestRun(i) = IF n = 0 THEN None ELSE <<i, n>>)
    BY <1>1, <1>3, <1>5
  <1>9. LatestRun(i) # None => LatestRun(i) \in Runs /\ run[LatestRun(i)] # None
    BY <1>5, <1>7
  <1> QED BY <1>6, <1>8, <1>9 DEF n
LEMMA NewAttemptIs ==
    ASSUME NEW i \in Rows, UpTo(attempts_by_row(i)), RoomAt(i)
    PROVE  NextRun(i) \in Runs /\ NextRun(i)[1] = i /\ run[NextRun(i)] = None
  <1> DEFINE n == Cardinality(attempts_by_row(i))
  <1>1. n \in 0 .. MaxAttempts /\ attempts_by_row(i) = 1 .. n /\ NextRun(i) = <<i, n + 1>> /\ n < MaxAttempts
    BY AttemptsAre DEF RoomAt
  <1> HIDE DEF n
  <1>2. n + 1 \in 1 .. MaxAttempts /\ n + 1 \notin 1 .. n
    BY <1>1, NonesApart
  <1>3. n + 1 \notin attempts_by_row(i)
    BY <1>1, <1>2
  <1>4. run[<<i, n + 1>>] = None
    BY <1>2, <1>3 DEF attempts_by_row
  <1> QED BY <1>1, <1>2, <1>4 DEF Runs

(* A step that starts a Run for row start, or none, adds that attempt and  *)
(* forgets no other.                                                       *)
LEMMA AttemptsStep ==
    ASSUME ViewDB, NEW start \in Rows \cup {None}, start # None => RoomAt(start),
           \A r \in Runs : run'[r] # None <=> run[r] # None \/ (start # None /\ r = NextRun(start))
    PROVE  /\ \A i \in Rows : UpTo(attempts_by_row(i))'
           /\ \A i \in Rows : LatestRun(i)' = IF i = start THEN NextRun(start) ELSE LatestRun(i)
  <1> SUFFICES ASSUME NEW i \in Rows
               PROVE  UpTo(attempts_by_row(i))' /\ LatestRun(i)' = IF i = start THEN NextRun(start) ELSE LatestRun(i)
    OBVIOUS
  <1> DEFINE n == Cardinality(attempts_by_row(i))
  <1>0. UpTo(attempts_by_row(i))
    BY DEF ViewDB
  <1>1. n \in 0 .. MaxAttempts /\ attempts_by_row(i) = 1 .. n /\ NextRun(i) = <<i, n + 1>>
    BY <1>0, AttemptsAre
  <1>2. \A k \in 1 .. MaxAttempts : <<i, k>> \in Runs
    BY DEF Runs
  <1>3. CASE i # start
    <2>1. start # None => NextRun(start)[1] = start
      BY DEF NextRun
    <2>2. \A k \in 1 .. MaxAttempts : run'[<<i, k>>] # None <=> run[<<i, k>>] # None
      BY <1>2, <1>3, <2>1
    <2>3. attempts_by_row(i)' = attempts_by_row(i)
      BY <2>2 DEF attempts_by_row
    <2> QED BY <1>0, <1>3, <2>3 DEF UpTo, LatestRun
  <1>4. CASE i = start
    <2>1. start # None /\ n < MaxAttempts
      BY <1>4, NonesApart DEF RoomAt
    <2>2. PICK m : m = n
      OBVIOUS
    <2>3. m \in 0 .. MaxAttempts /\ m + 1 \in 1 .. MaxAttempts /\ m \in Nat
      BY <1>1, <2>1, <2>2, NonesApart
    <2>4. \A k \in 1 .. MaxAttempts : run'[<<i, k>>] # None <=> k \in 1 .. m \/ k = m + 1
      <3>1. \A k \in 1 .. MaxAttempts : run[<<i, k>>] # None <=> k \in 1 .. m
        BY <1>1, <2>2 DEF attempts_by_row
      <3>2. \A k \in 1 .. MaxAttempts : <<i, k>> = NextRun(start) <=> k = m + 1
        BY <1>1, <1>4, <2>2
      <3> QED BY <1>2, <2>1, <3>1, <3>2
    <2>5. attempts_by_row(i)' = 1 .. m + 1
      <3>1. attempts_by_row(i)' = {k \in 1 .. MaxAttempts : k \in 1 .. m \/ k = m + 1}
        BY <2>4 DEF attempts_by_row
      <3> QED BY <2>3, <3>1, NonesApart
    <2>6. UpTo(attempts_by_row(i))'
      <3>1. m + 1 \in 0 .. MaxAttempts
        BY <2>3, NonesApart
      <3> QED BY <2>5, <3>1 DEF UpTo
    <2>7. Max(1 .. m + 1) = m + 1 /\ 1 .. m + 1 # {}
      <3>1. m + 1 \in 1 .. m + 1 /\ \A y \in 1 .. m + 1 : m + 1 >= y
        BY <2>3
      <3>2. \A x \in 1 .. m + 1 : (\A y \in 1 .. m + 1 : x >= y) => x = m + 1
        BY <2>3
      <3> QED BY <3>1, <3>2 DEF Max
    <2>8. LatestRun(i)' = <<i, m + 1>>
      BY <2>5, <2>7 DEF LatestRun
    <2> QED BY <1>1, <1>4, <2>2, <2>6, <2>8
  <1> QED BY <1>3, <1>4
LEMMA NextQueued ==
    ASSUME NEW S, NEW ended, NextStarted(S, ended) # None
    PROVE  LET start == NextStarted(S, ended) IN start \in Rows \ S /\ batch.status[start] = "queued"
  <1> DEFINE queued == {i \in Rows \ S : batch.status[i] = "queued"}
  <1>1. queued # {} /\ NextStarted(S, ended) = Min(queued)
    BY DEF NextStarted
  <1>2. queued \subseteq Nat
    BY NonesApart DEF Rows
  <1>3. Min(queued) \in queued
    BY <1>1, <1>2, LeastOf
  <1> QED BY <1>1, <1>3
-----------------------------------------------------------------------------
(* The word of a commit.                                                   *)

\* What an event says is so; a row is never told of as queued.
WordOK(w) ==
    /\ w \in BatchEvent /\ w.status # "queued"
    /\ w.status \in Final => w.row \in over \/ batch.status[w.row] = w.status
    /\ w.run # None => w.run[1] = w.row /\ run[w.run] # None

OutOK == out \in [Emitters -> SUBSET BatchEvent] /\ \A e \in Emitters : \A w \in out[e] : WordOK(w)

LEMMA WordLasts ==
    ASSUME NEW w, WordOK(w), Lasts
    PROVE  WordOK(w)'
  BY DEF WordOK, Lasts, BatchEvent

LEMMA RowIs ==
    ASSUME NEW i \in Rows, NEW s \in BatchRowStatus, NEW r \in Runs \cup {None}
    PROVE  LET w == Row(i, s, r) IN w \in BatchEvent /\ w.row = i /\ w.status = s /\ w.run = r
  BY DEF Row, BatchEvent

\* New words beside those that were there.
LEMMA OutStep ==
    ASSUME OutOK, Lasts, NEW e \in Emitters, NEW said, out' = [out EXCEPT ![e] = said],
           \A w \in said : WordOK(w)'
    PROVE  OutOK'
  <1>1. \A w \in said : w \in BatchEvent
    BY DEF WordOK
  <1>2. out' \in [Emitters -> SUBSET BatchEvent]
    BY <1>1 DEF OutOK
  <1>3. ASSUME NEW d \in Emitters, NEW w \in out'[d] PROVE WordOK(w)'
    <2>1. CASE d = e
      BY <1>3, <2>1 DEF OutOK
    <2>2. CASE d # e
      BY <1>3, <2>2, WordLasts DEF OutOK
    <2> QED BY <2>1, <2>2
  <1> QED BY <1>2, <1>3 DEF OutOK

LEMMA Unsaying ==
    ASSUME OutOK, NEW S, NEW e \in Emitters, out' = [out EXCEPT ![e] = S], S \subseteq out[e],
           UNCHANGED <<batch, run, over>>
    PROVE  OutOK'
  BY DEF OutOK, WordOK

-----------------------------------------------------------------------------
(* The transactions.                                                       *)

\* What is said of row i once it is committed, if anything is.
SaysOK(i, v) ==
    v = None \/ /\ v \in BatchEvent /\ v.row = i /\ v.status \notin {"queued", "running"}
                /\ v.run # None => v.run[1] = i /\ run[v.run] # None

\* Unless others have written the row, it is not final and has no open Run left.
Mine(runs, i) ==
    i \in over \/ /\ batch.status[i] \notin Final
                  /\ \A r \in Runs : r[1] = i /\ run[r] \in NON_TERMINAL => r \in runs

WorkOK(w) ==
    /\ w \in Work
    /\ \A i \in Rows : SaysOK(i, w.word[i])
    /\ w.start # None => w.word[w.start] = None
    /\ \A i \in Writes(w) : i \in w.stale \/ Mine(w.runs, i)
    /\ \A r \in w.runs : run[r] # None

WorksOK == work \in [Emitters -> Work] /\ \A e \in Emitters : WorkOK(work[e])

\* What every step leaves of the database and of the words about it.
Sound == ViewDB /\ OutOK /\ WorksOK
Settles == ViewDB' /\ OutOK' /\ WorksOK' /\ Lasts

LEMMA LatestAttemptIs ==
    ASSUME ViewDB, NEW i \in Rows
    PROVE  /\ LatestRun(i) \in Runs \cup {None}
           /\ LatestRun(i) # None => LatestRun(i)[1] = i /\ run[LatestRun(i)] # None
                                      /\ run[LatestRun(i)] \in RunStatus
           /\ run[LatestRun(i)] \in RunStatus /\ LatestRun(i) \in Runs => LatestRun(i) # None
  BY AttemptsAre, NonesApart DEF ViewDB

LEMMA Begun ==
    ASSUME NEW op \in {"advance", "skip", "rerun", "cancel", None}, NEW lock \in BOOLEAN, NEW does,
           does.word \in [Rows -> BatchEvent \cup {None}], does.runs \in SUBSET Runs,
           does.start \in Rows \cup {None},
           \A i \in Rows : SaysOK(i, does.word[i]),
           does.start # None => does.word[does.start] = None,
           \A i \in Rows : does.word[i] # None \/ i = does.start => Mine(does.runs, i),
           \A r \in does.runs : run[r] # None
    PROVE  WorkOK(Begins(op, lock, does))
  <1> PICK w : w = Begins(op, lock, does)
    OBVIOUS
  <1>1. /\ w.word = does.word /\ w.runs = does.runs /\ w.start = does.start /\ w.stale = {}
        /\ w \in Work
    BY DEF Begins, Work, Stages
  <1>2. \A i \in Writes(w) : Mine(w.runs, i)
    BY <1>1 DEF Writes, Written
  <1> QED BY <1>1, <1>2 DEF WorkOK

LEMMA Resting ==
    ASSUME NEW answer \in Stages
    PROVE  WorkOK(Rests(answer))
  <1> PICK W : W = [i \in Rows |-> None]
    OBVIOUS
  <1> PICK does : does = Nothing
    OBVIOUS
  <1>1. does.word = W /\ does.runs = {} /\ does.start = None /\ W \in [Rows -> BatchEvent \cup {None}]
    BY DEF Nothing
  <1> PICK w : w = Rests(answer)
    OBVIOUS
  <1>2. w \in Work /\ w.word = W /\ w.runs = {} /\ w.start = None
    BY <1>1 DEF Rests, Begins, Work, Stages
  <1>3. Writes(w) = {}
    BY <1>2 DEF Writes, Written
  <1> QED BY <1>2, <1>3 DEF WorkOK, SaysOK

LEMMA AdvanceReads ==
    ASSUME ViewDB, NEW lock \in BOOLEAN
    PROVE  WorkOK(Begins("advance", lock, RowsReflected))
  <1> PICK does : does = RowsReflected
    OBVIOUS
  <1> DEFINE W == [i \in Rows |-> IF i \in Ended THEN Row(i, run[LatestRun(i)], LatestRun(i)) ELSE None]
  <1>1. does.word = W /\ does.runs = {} /\ does.start = None
    BY DEF RowsReflected, Nothing
  <1>2. ASSUME NEW i \in Ended
        PROVE  W[i] \in BatchEvent /\ SaysOK(i, W[i]) /\ Mine({}, i)
    <2>1. /\ i \in Rows /\ batch.status[i] = "running" /\ LatestRun(i) # None
          /\ LatestRun(i)[1] = i /\ LatestRun(i) \in Runs /\ run[LatestRun(i)] \in Terminal
          /\ run[LatestRun(i)] # None
      BY LatestAttemptIs DEF Ended
    <2>2. PICK s, r : s = run[LatestRun(i)] /\ r = LatestRun(i)
      OBVIOUS
    <2>3. PICK v : v = W[i]
      OBVIOUS
    <2>4. v \in BatchEvent /\ v.row = i /\ v.status = s /\ v.run = r
      BY <2>1, <2>2, <2>3, RowIs DEF Terminal, BatchRowStatus
    <2>5. SaysOK(i, v)
      BY <2>1, <2>2, <2>4 DEF SaysOK, Terminal
    <2>6. Mine({}, i)
      BY <2>1 DEF ViewDB, Mine, Final, Terminal, NON_TERMINAL
    <2> QED BY <2>3, <2>4, <2>5, <2>6
  <1>3. \A i \in Rows : W[i] # None => i \in Ended
    OBVIOUS
  <1>4. \A i \in Rows : i \notin Ended => W[i] = None /\ SaysOK(i, W[i])
    BY DEF SaysOK
  <1>5. W \in [Rows -> BatchEvent \cup {None}]
    BY <1>2, <1>4
  <1>6. \A i \in Rows : SaysOK(i, W[i])
    BY <1>2, <1>4
  <1> HIDE DEF W
  <1>7. does.word \in [Rows -> BatchEvent \cup {None}] /\ \A i \in Rows : SaysOK(i, does.word[i])
    BY <1>1, <1>5, <1>6
  <1>8. \A i \in Rows : does.word[i] # None \/ i = does.start => Mine(does.runs, i)
    BY <1>1, <1>2, <1>3, NonesApart
  <1>9. does.runs \in SUBSET Runs /\ does.start = None /\ \A r \in does.runs : run[r] # None
    BY <1>1
  <1>10. "advance" \in {"advance", "skip", "rerun", "cancel", None}
    OBVIOUS
  <1>11. WorkOK(Begins("advance", lock, does))
    BY <1>7, <1>8, <1>9, <1>10, Begun
  <1> QED BY <1>11

LEMMA SkipReads ==
    ASSUME ViewDB, NEW lock \in BOOLEAN, NEW i \in Rows, Accepts("skip", i)
    PROVE  WorkOK(Begins("skip", lock, RowSkipped(i)))
  <1> PICK does : does = RowSkipped(i)
    OBVIOUS
  <1> PICK r : r = LatestRun(i)
    OBVIOUS
  <1> PICK v : v = Row(i, "skipped", r)
    OBVIOUS
  <1> PICK W : W = [[j \in Rows |-> None] EXCEPT ![i] = v]
    OBVIOUS
  <1>1. does.word = W /\ does.runs = {r} /\ does.start = None
    BY DEF RowSkipped, Nothing
  <1>2. r \in Runs /\ r[1] = i /\ run[r] = "waiting_for_human" /\ run[r] # None
    BY LatestAttemptIs DEF Accepts
  <1>3. v \in BatchEvent /\ v.row = i /\ v.status = "skipped" /\ v.run = r
    BY <1>2, RowIs DEF BatchRowStatus
  <1>4. SaysOK(i, v) /\ SaysOK(i, None) /\ \A j \in Rows : SaysOK(j, None)
    BY <1>2, <1>3 DEF SaysOK
  <1>5. \A j \in Rows : W[j] = IF j = i THEN v ELSE None
    OBVIOUS
  <1>6. W \in [Rows -> BatchEvent \cup {None}]
    BY <1>3, <1>5
  <1>7. Mine({r}, i)
    BY <1>2 DEF ViewDB, Mine, Final, NON_TERMINAL
  <1>8. does.word \in [Rows -> BatchEvent \cup {None}] /\ \A j \in Rows : SaysOK(j, does.word[j])
    BY <1>1, <1>4, <1>5, <1>6
  <1>9. \A j \in Rows : does.word[j] # None \/ j = does.start => Mine(does.runs, j)
    BY <1>1, <1>5, <1>7, NonesApart
  <1>10. does.runs \in SUBSET Runs /\ does.start = None /\ \A x \in does.runs : run[x] # None
    BY <1>1, <1>2
  <1>11. "skip" \in {"advance", "skip", "rerun", "cancel", None}
    OBVIOUS
  <1>12. WorkOK(Begins("skip", lock, does))
    BY <1>8, <1>9, <1>10, <1>11, Begun
  <1> QED BY <1>12

LEMMA RerunReads ==
    ASSUME ViewDB, NEW lock \in BOOLEAN, NEW i \in Rows, Accepts("rerun", i)
    PROVE  WorkOK(Begins("rerun", lock, Reads("rerun", i)))
  <1> PICK does : does = Reads("rerun", i)
    OBVIOUS
  <1> PICK W : W = [j \in Rows |-> None]
    OBVIOUS
  <1>1. does.word = W /\ does.runs = {} /\ does.start = i
    BY DEF Reads, Nothing
  <1>2. \A j \in Rows : W[j] = None /\ SaysOK(j, W[j])
    BY DEF SaysOK
  <1>3. Mine({}, i)
    BY DEF Accepts, ViewDB, Mine, Final
  <1> QED BY <1>1, <1>2, <1>3, Begun

LEMMA CancelReads ==
    ASSUME ViewDB, NEW lock \in BOOLEAN
    PROVE  WorkOK(Begins("cancel", lock, BatchCancelled))
  <1> PICK does : does = BatchCancelled
    OBVIOUS
  <1> DEFINE hit == {i \in Rows : batch.status[i] = "queued"} \cup (Active \ Busy)
             Of(i) == IF i \in Active THEN LatestRun(i) ELSE None
             W == [i \in Rows |-> IF i \notin hit THEN None ELSE Row(i, "cancelled", Of(i))]
             R == {r \in Runs : /\ r[1] \in Active /\ r = LatestRun(r[1])
                                /\ run[r] \in {"queued", "waiting_for_human"}}
  <1>1. does.word = W /\ does.runs = R /\ does.start = None
    BY DEF BatchCancelled
  <1>2. ASSUME NEW i \in hit
        PROVE  W[i] \in BatchEvent /\ SaysOK(i, W[i]) /\ Mine(R, i)
    <2>1. i \in Rows /\ batch.status[i] \in {"queued", "running"}
      BY DEF Active
    <2>2. PICK r : r = Of(i)
      OBVIOUS
    <2>3. r \in Runs \cup {None} /\ (r # None => r[1] = i /\ run[r] # None)
      BY <2>1, <2>2, LatestAttemptIs
    <2>4. PICK v : v = W[i]
      OBVIOUS
    <2>5. v \in BatchEvent /\ v.row = i /\ v.status = "cancelled" /\ v.run = r
      BY <2>1, <2>2, <2>3, <2>4, RowIs DEF BatchRowStatus
    <2>6. SaysOK(i, v)
      BY <2>3, <2>5 DEF SaysOK
    <2>7. ASSUME NEW q \in Runs, q[1] = i, run[q] \in NON_TERMINAL, i \notin over
          PROVE  q \in R
      <3>1. batch.status[i] = "running" /\ LatestRun(i) = q
        BY <2>7 DEF ViewDB
      <3>2. i \in Active \ Busy
        BY <2>1, <3>1 DEF Active
      <3>3. run[q] # "running"
        BY <3>1, <3>2 DEF Busy
      <3> QED BY <2>7, <3>1, <3>2, <3>3 DEF NON_TERMINAL
    <2>8. Mine(R, i)
      BY <2>1, <2>7 DEF Mine, Final
    <2> QED BY <2>4, <2>5, <2>6, <2>8
  <1>3. \A i \in Rows : W[i] # None => i \in hit
    OBVIOUS
  <1>4. \A i \in Rows : i \notin hit => W[i] = None /\ SaysOK(i, W[i])
    BY DEF SaysOK
  <1>5. W \in [Rows -> BatchEvent \cup {None}]
    BY <1>2, <1>4
  <1>6. \A i \in Rows : SaysOK(i, W[i])
    BY <1>2, <1>4
  <1>7. R \in SUBSET Runs /\ \A r \in R : run[r] # None
    BY NonesApart DEF RunStatus, NON_TERMINAL
  <1> HIDE DEF W, R, hit
  <1> QED BY <1>1, <1>2, <1>3, <1>5, <1>6, <1>7, Begun, NonesApart

\* The transactions are as they were, and so are the rows; no Run opens.
LEMMA WorksLast ==
    ASSUME WorksOK, work' = work, over' = over, batch'.status = batch.status,
           \A r \in Runs : run'[r] \in NON_TERMINAL => run[r] \in NON_TERMINAL,
           \A r \in Runs : run[r] # None => run'[r] # None
    PROVE  WorksOK'
  <1> SUFFICES ASSUME NEW e \in Emitters PROVE WorkOK(work[e])'
    BY DEF WorksOK
  <1> PICK w : w = work[e]
    OBVIOUS
  <1>1. WorkOK(w) /\ w \in Work
    BY DEF WorksOK, WorkOK
  <1>2. \A i \in Rows : SaysOK(i, w.word[i])'
    BY <1>1 DEF WorkOK, SaysOK, BatchEvent
  <1>3. \A i \in Rows : Mine(w.runs, i) => Mine(w.runs, i)'
    BY DEF Mine
  <1>4. Writes(w) \subseteq Rows /\ w.runs \subseteq Runs
    BY <1>1 DEF Work, Writes, Written
  <1>5. WorkOK(w)'
    BY <1>1, <1>2, <1>3, <1>4 DEF WorkOK
  <1> QED BY <1>5

\* One transaction changes and the rows do not.
LEMMA WorksStep ==
    ASSUME WorksOK, NEW e \in Emitters, NEW w, WorkOK(w), work' = [work EXCEPT ![e] = w],
           over' = over, batch'.status = batch.status, run' = run
    PROVE  WorksOK'
  <1>1. w \in Work
    BY DEF WorkOK
  <1>2. work' \in [Emitters -> Work] /\ \A d \in Emitters : WorkOK(work'[d])
    BY <1>1 DEF WorksOK
  <1>3. ASSUME NEW d \in Emitters PROVE WorkOK(work[d])'
    <2> PICK v : v = work'[d]
      OBVIOUS
    <2>1. WorkOK(v)
      BY <1>2
    <2>2. WorkOK(v)'
      BY <2>1 DEF WorkOK, SaysOK, Mine
    <2> QED BY <2>2
  <1> QED BY <1>2, <1>3 DEF WorksOK

LEMMA CallSettles ==
    ASSUME Sound, NEW e \in Emitters, NEW op \in {"advance", "skip", "rerun", "cancel"}, NEW i,
           op \in {"skip", "rerun"} => i \in Rows /\ Accepts(op, i), Call(e, op, i)
    PROVE  Settles
  <1>1. PICK lock \in Locks(op) : work' = [work EXCEPT ![e] = Begins(op, lock, Reads(op, i))]
    BY DEF Call
  <1>2. lock \in BOOLEAN
    BY DEF Locks
  <1>3. PICK w : w = Begins(op, lock, Reads(op, i))
    OBVIOUS
  <1>4. WorkOK(w)
    BY <1>2, <1>3, AdvanceReads, SkipReads, RerunReads, CancelReads DEF Reads, Sound
  <1>5. PICK S : S = batch.stopping \cup IF op = "cancel" THEN {LatestRun(j) : j \in Busy} ELSE {}
    OBVIOUS
  <1>6. S \in SUBSET Runs
    <2>1. \A j \in Busy : LatestRun(j) \in Runs
      BY LatestAttemptIs DEF Busy, Active, Sound, ViewDB
    <2> QED BY <1>5, <2>1 DEF Sound, ViewDB, Batch
  <1>7. batch' = [batch EXCEPT !.stopping = S] /\ UNCHANGED <<run, out, over>>
    BY <1>5 DEF Call
  <1>8. batch' \in Batch /\ batch'.status = batch.status /\ batch'.value = batch.value
    BY <1>6, <1>7 DEF Sound, ViewDB, Batch
  <1>9. ViewDB'
    BY <1>7, <1>8, SameDB DEF Sound
  <1>10. WorksOK'
    BY <1>1, <1>3, <1>4, <1>7, <1>8, WorksStep DEF Sound
  <1>11. OutOK' /\ Lasts
    BY <1>7, <1>8 DEF Sound, OutOK, WordOK, Lasts
  <1> QED BY <1>9, <1>10, <1>11 DEF Settles

\* A step of one transaction that writes nothing.
LEMMA WorkSettles ==
    ASSUME Sound, NEW e \in Emitters, NEW w, WorkOK(w), work' = [work EXCEPT ![e] = w],
           UNCHANGED <<batch, run, over>>, OutOK'
    PROVE  Settles
  <1>1. ViewDB' /\ WorksOK'
    BY UntouchedDB, WorksStep DEF Sound
  <1> QED BY <1>1 DEF Settles, Lasts

LEMMA DoneOK == ASSUME NEW e, NEW answer \in Stages PROVE WorkOK(Done(e, answer))
  <1>1. "idle" \in Stages
    BY DEF Stages
  <1> QED BY <1>1, Resting DEF Done

LEMMA ResolveSettles ==
    ASSUME Sound, NEW e \in Emitters, Resolve(e)
    PROVE  Settles
  <1> PICK w : w = work[e]
    OBVIOUS
  <1> PICK start : start = NextStarted(Written(w), w.runs)
    OBVIOUS
  <1>1. WorkOK(w) /\ w \in Work
    BY DEF Sound, WorksOK, WorkOK
  <1>2. PICK v : v = [w EXCEPT !.stage = "decided", !.lock = TRUE]
    OBVIOUS
  <1>3. WorkOK(v)
    <2>1. /\ v \in Work /\ v.word = w.word /\ v.runs = w.runs /\ v.start = w.start /\ v.stale = w.stale
      BY <1>1, <1>2 DEF Work, Stages
    <2>2. Writes(v) = Writes(w)
      BY <2>1 DEF Writes, Written
    <2> QED BY <1>1, <2>1, <2>2 DEF WorkOK
  <1>4. PICK u : u = [w EXCEPT !.stage = "decided", !.start = start, !.stale = w.stale \ {start}]
    OBVIOUS
  <1>5. start \in Rows \cup {None} /\ start \notin Written(w) /\ (start # None => batch.status[start] = "queued")
    BY NextQueued, NonesApart DEF Written
  <1>6. WorkOK(u)
    <2>1. /\ u \in Work /\ u.word = w.word /\ u.runs = w.runs /\ u.start = start /\ u.stale = w.stale \ {start}
      BY <1>1, <1>4, <1>5 DEF Work, Stages
    <2>2. start # None => Mine(w.runs, start)
      BY <1>5 DEF Sound, ViewDB, Mine, Final
    <2>3. \A i \in Written(w) : i # start /\ i \in Writes(w)
      BY <1>5 DEF Writes
    <2>4. \A i \in Writes(u) : i \in u.stale \/ Mine(u.runs, i)
      <3>1. \A i \in Writes(u) : i \in Written(w) \/ (i = start /\ start # None)
        BY <2>1 DEF Writes, Written
      <3> QED BY <1>1, <2>1, <2>2, <2>3, <3>1 DEF WorkOK
    <2>5. start # None => w.word[start] = None
      BY <1>5 DEF Written
    <2> QED BY <1>1, <2>1, <2>4, <2>5 DEF WorkOK
  <1>7. PICK x : x = Done(e, "refused")
    OBVIOUS
  <1>8. WorkOK(x)
    <2>1. "refused" \in Stages
      BY DEF Stages
    <2> QED BY <1>7, <2>1, DoneOK
  <1>9. PICK y \in {u, v, x} : work' = [work EXCEPT ![e] = y]
    BY <1>2, <1>4, <1>7 DEF Resolve, Resolves
  <1>10. WorkOK(y)
    BY <1>3, <1>6, <1>8, <1>9
  <1>11. UNCHANGED <<batch, run, over>> /\ OutOK'
    BY DEF Resolve, Sound, OutOK, WordOK
  <1> QED BY <1>9, <1>10, <1>11, WorkSettles

\* Another transaction, when w is committed.
LEMMA OtherWork ==
    ASSUME ViewDB, Lasts, NEW S \in SUBSET Rows, NEW u, WorkOK(u),
           \A i \in Rows \ S : batch'.status[i] = batch.status[i],
           \A r \in Runs : r[1] \notin S /\ run'[r] \in NON_TERMINAL => run[r] \in NON_TERMINAL
    PROVE  WorkOK([u EXCEPT !.stale = u.stale \cup S])'
  <1> PICK v : v = [u EXCEPT !.stale = u.stale \cup S]
    OBVIOUS
  <1>1. u \in Work
    BY DEF WorkOK
  <1>2. /\ v \in Work /\ v.word = u.word /\ v.runs = u.runs /\ v.start = u.start
        /\ v.stale = u.stale \cup S
    BY <1>1 DEF Work
  <1>3. Writes(v) = Writes(u) /\ Writes(u) \subseteq Rows /\ u.runs \subseteq Runs
    BY <1>1, <1>2 DEF Writes, Written, Work
  <1>4. \A i \in Rows : SaysOK(i, v.word[i])'
    BY <1>2 DEF WorkOK, SaysOK, Lasts, BatchEvent
  <1>5. \A i \in Rows \ S : Mine(u.runs, i) => Mine(u.runs, i)'
    BY DEF Mine, Lasts
  <1>6. \A i \in Writes(v) : i \in v.stale \/ Mine(v.runs, i)'
    BY <1>2, <1>3, <1>5 DEF WorkOK
  <1>7. \A r \in v.runs : run'[r] # None
    BY <1>2, <1>3 DEF WorkOK, Lasts
  <1>8. WorkOK(v)'
    BY <1>2, <1>4, <1>6, <1>7 DEF WorkOK
  <1> QED BY <1>8

(* A commit writes over no row that another has not written, and tells of  *)
(* what it has written.                                                    *)
LEMMA CommitSettles ==
    ASSUME Sound, NEW e \in Emitters, Commits(e)
    PROVE  Settles
  <1> PICK w : w = work[e]
    OBVIOUS
  <1> PICK start : start = w.start
    OBVIOUS
  <1> PICK S : S = Written(w)
    OBVIOUS
  <1> PICK N : N = NextRun(start)
    OBVIOUS
  <1>1. WorkOK(w) /\ w \in Work /\ start \in Rows \cup {None} /\ w.runs \in SUBSET Runs
    BY DEF Sound, WorksOK, WorkOK, Work
  <1>2. S \subseteq Rows /\ start \notin S /\ Writes(w) = S \cup ({start} \ {None}) /\ Writes(w) \subseteq Rows
    <2>1. start # None => w.word[start] = None
      BY <1>1 DEF WorkOK
    <2>2. S \subseteq Rows /\ (start # None => start \notin S)
      BY <2>1 DEF Written
    <2> QED BY <1>1, <2>2, NonesApart DEF Writes
  <1>3. /\ start # None => RoomAt(start)
        /\ batch' = [batch EXCEPT
                   !.cancelled = @ \/ w.op = "cancel",
                   !.status = [i \in Rows |-> CASE i = start -> "running"
                                              [] i \in S \ {start} -> w.word[i].status
                                              [] OTHER -> @[i]]]
        /\ run' = [r \in Runs |-> CASE start # None /\ r = N -> "queued"
                                    [] r \in w.runs -> "cancelled"
                                    [] OTHER -> run[r]]
        /\ over' = over \cup (Writes(w) \cap w.stale)
    BY DEF Commits
  <1>4. start # None => N \in Runs /\ N[1] = start /\ run[N] = None
    BY <1>1, <1>3, NewAttemptIs DEF Sound, ViewDB
  <1>5. ~(start # None /\ N \in w.runs)
    BY <1>1, <1>4 DEF WorkOK
  <1>6. \A r \in Runs : run'[r] = IF start # None /\ r = N THEN "queued"
                                  ELSE IF r \in w.runs THEN "cancelled" ELSE run[r]
    BY <1>3, <1>5
  <1>7. \A i \in S : w.word[i] # None /\ SaysOK(i, w.word[i]) /\ w.word[i].status \in BatchRowStatus \ {"queued", "running"}
    <2>1. \A i \in S : i \in Rows /\ w.word[i] # None
      BY DEF Written
    <2>2. \A i \in S : w.word[i] \in BatchEvent /\ SaysOK(i, w.word[i]) /\ w.word[i].status \notin {"queued", "running"}
      BY <1>1, <2>1 DEF WorkOK, SaysOK
    <2> QED BY <2>1, <2>2 DEF BatchEvent
  <1>8. /\ batch' \in Batch /\ batch'.value = batch.value
        /\ \A i \in Rows : batch'.status[i] = IF i = start THEN "running"
                                              ELSE IF i \in S THEN w.word[i].status ELSE batch.status[i]
    <2> DEFINE s == [i \in Rows |-> CASE i = start -> "running"
                                      [] i \in S \ {start} -> w.word[i].status
                                      [] OTHER -> batch.status[i]]
    <2>1. \A i \in Rows : s[i] = IF i = start THEN "running"
                                 ELSE IF i \in S THEN w.word[i].status ELSE batch.status[i]
      BY <1>2
    <2>2. \A i \in Rows : s[i] \in BatchRowStatus
      BY <1>7, <2>1 DEF Sound, ViewDB, Batch, BatchRowStatus
    <2>3. s \in [Rows -> BatchRowStatus]
      BY <2>2
    <2>4. PICK c : c = (batch.cancelled \/ w.op = "cancel")
      OBVIOUS
    <2>5. batch' = [batch EXCEPT !.cancelled = c, !.status = s] /\ c \in BOOLEAN
      BY <1>3, <2>4
    <2> HIDE DEF s
    <2> QED BY <2>1, <2>3, <2>5 DEF Sound, ViewDB, Batch
  <1>9. run' \in [Runs -> RunStatus \cup {None}]
    <2>1. \A r \in Runs : run'[r] \in RunStatus \cup {None}
      BY <1>6 DEF Sound, ViewDB, RunStatus, NON_TERMINAL, Terminal
    <2> QED BY <1>3, <2>1
  <1>10. \A r \in Runs : run'[r] # None <=> run[r] # None \/ (start # None /\ r = NextRun(start))
    BY <1>1, <1>6, NonesApart DEF WorkOK, RunStatus, NON_TERMINAL, Terminal
  <1>11. /\ \A i \in Rows : UpTo(attempts_by_row(i))'
         /\ \A i \in Rows : LatestRun(i)' = IF i = start THEN NextRun(start) ELSE LatestRun(i)
    BY <1>1, <1>3, <1>10, AttemptsStep DEF Sound
  <1>12. \A i \in Writes(w) : i \in over' \/ Mine(w.runs, i)
    BY <1>1, <1>3 DEF WorkOK
  <1>13. ASSUME NEW r \in Runs, run'[r] \in NON_TERMINAL, ~(start # None /\ r = N)
         PROVE  run'[r] = run[r] /\ r \notin w.runs
    BY <1>6, <1>13 DEF NON_TERMINAL
  <1>14. ASSUME NEW r \in Runs, run'[r] \in NON_TERMINAL, r[1] \notin over'
         PROVE  batch'.status[r[1]] = "running" /\ LatestRun(r[1])' = r
    <2>0. r[1] \in Rows
      BY DEF Runs
    <2>1. CASE start # None /\ r = N
      <3>1. r[1] = start /\ start \in Rows /\ r = NextRun(start)
        BY <1>1, <1>4, <2>1
      <3>2. batch'.status[start] = "running" /\ LatestRun(start)' = r
        BY <1>8, <1>11, <3>1
      <3> QED BY <3>1, <3>2
    <2>2. CASE ~(start # None /\ r = N)
      <3>1. run'[r] = run[r] /\ r \notin w.runs
        BY <1>13, <1>14, <2>2
      <3>2. r[1] \notin over
        BY <1>3, <1>14
      <3>3. r[1] \notin Writes(w)
        BY <1>12, <1>14, <3>1, <3>2 DEF Mine
      <3>4. r[1] # start /\ r[1] \notin S
        BY <1>2, <2>0, <3>3, NonesApart
      <3>5. batch.status[r[1]] = "running" /\ LatestRun(r[1]) = r
        BY <1>14, <3>1, <3>2 DEF Sound, ViewDB
      <3> QED BY <1>8, <1>11, <2>0, <3>4, <3>5
    <2> QED BY <2>1, <2>2
  <1>15. ASSUME NEW i \in Rows, batch'.status[i] = "running" PROVE LatestRun(i)' # None
    <2>1. CASE i = start
      BY <1>4, <1>11, <2>1, NonesApart
    <2>2. CASE i # start
      <3>1. i \notin S
        BY <1>7, <1>8, <1>15, <2>2
      <3> QED BY <1>8, <1>11, <1>15, <2>2, <3>1 DEF Sound, ViewDB
    <2> QED BY <2>1, <2>2
  <1>16. over' \subseteq Rows /\ over \subseteq over'
    BY <1>2, <1>3 DEF Sound, ViewDB
  <1>17. ViewDB'
    BY <1>8, <1>9, <1>11, <1>14, <1>15, <1>16 DEF ViewDB
  <1>18. Lasts
    <2>1. ASSUME NEW i \in Rows \ over', batch.status[i] \in Final PROVE batch'.status[i] = batch.status[i]
      <3>1. i \notin Writes(w)
        BY <1>12, <1>16, <2>1 DEF Mine
      <3> QED BY <1>2, <1>8, <2>1, <3>1, NonesApart
    <2>2. \A i \in Rows : batch'.status[i] = "queued" => batch.status[i] = "queued"
      BY <1>7, <1>8
    <2>3. \A r \in Runs : run[r] # None => run'[r] # None
      BY <1>10
    <2> QED BY <1>8, <1>16, <2>1, <2>2, <2>3 DEF Lasts
  <1>19. OutOK'
    <2> PICK v : v = Row(start, "running", N)
      OBVIOUS
    <2> PICK said : said = {w.word[i] : i \in S} \cup IF start # None THEN {v} ELSE {}
      OBVIOUS
    <2>1. out' = [out EXCEPT ![e] = said]
      BY DEF Commits
    <2>2. start # None => v \in BatchEvent /\ v.row = start /\ v.status = "running" /\ v.run = N
      BY <1>1, <1>4, RowIs DEF BatchRowStatus
    <2>3. start # None => run'[N] # None
      BY <1>4, <1>6, NonesApart DEF RunStatus, NON_TERMINAL
    <2>4. start # None => WordOK(v)'
      BY <1>4, <2>2, <2>3 DEF WordOK, Final
    <2>5. ASSUME NEW i \in S PROVE WordOK(w.word[i])'
      <3> PICK u : u = w.word[i]
        OBVIOUS
      <3>1. /\ u \in BatchEvent /\ u.row = i /\ u.status # "queued"
            /\ u.run # None => u.run[1] = i /\ run[u.run] # None
        BY <1>7 DEF SaysOK
      <3>2. batch'.status[i] = u.status
        BY <1>2, <1>8
      <3>3. u.run # None => run'[u.run] # None
        BY <1>18, <3>1 DEF Lasts, BatchEvent
      <3>4. WordOK(u)'
        BY <3>1, <3>2, <3>3 DEF WordOK
      <3> QED BY <3>4
    <2>6. ASSUME NEW x \in said PROVE WordOK(x)'
      <3>1. CASE start # None /\ x = v
        BY <2>4, <3>1
      <3>2. CASE \E i \in S : x = w.word[i]
        <4>1. PICK i \in S : x = w.word[i]
          BY <3>2
        <4>2. WordOK(w.word[i])'
          BY <2>5
        <4>3. x' = x /\ w' = w
          OBVIOUS
        <4> QED BY <4>1, <4>2, <4>3
      <3> QED BY <3>1, <3>2
    <2> QED BY <1>18, <2>1, <2>6, OutStep DEF Sound
  <1>20. WorksOK'
    <2>1. work' = [d \in Emitters |-> IF d = e THEN Done(e, "ok")
                                      ELSE [work[d] EXCEPT !.stale = work[d].stale \cup Writes(w)]]
      BY DEF Commits
    <2>2. PICK T : T = Writes(w)
      OBVIOUS
    <2>3. ASSUME NEW d \in Emitters PROVE WorkOK(work[d])' /\ work'[d] \in Work
      <3> PICK v : v = work'[d]
        OBVIOUS
      <3> PICK u : u = work[d]
        OBVIOUS
      <3>1. WorkOK(v)'
        <4>1. CASE d = e
          <5>1. v = Done(e, "ok") /\ "ok" \in Stages
            BY <2>1, <4>1 DEF Stages
          <5>2. WorkOK(v)
            BY <5>1, DoneOK
          <5>3. v.word = [i \in Rows |-> None] /\ v.runs = {} /\ v.start = None
            BY <5>1 DEF Done, Rests, Begins, Nothing
          <5>4. Writes(v) = {}
            BY <5>3 DEF Writes, Written
          <5> QED BY <5>2, <5>3, <5>4 DEF WorkOK, SaysOK
        <4>2. CASE d # e
          <5>1. v = [u EXCEPT !.stale = u.stale \cup T]
            BY <2>1, <2>2, <4>2
          <5>2. WorkOK(u)
            BY DEF Sound, WorksOK
          <5>3. \A i \in Rows \ T : batch'.status[i] = batch.status[i]
            BY <1>2, <1>8, <2>2, NonesApart
          <5>4. \A r \in Runs : r[1] \notin T /\ run'[r] \in NON_TERMINAL => run[r] \in NON_TERMINAL
            <6>1. start # None => start \in T
              BY <1>2, <2>2
            <6> QED BY <1>4, <1>13, <6>1
          <5>5. T \in SUBSET Rows
            BY <1>2, <2>2
          <5>6. WorkOK([u EXCEPT !.stale = u.stale \cup T])'
            BY <1>18, <5>2, <5>3, <5>4, <5>5, OtherWork DEF Sound
          <5> QED BY <5>1, <5>6
        <4> QED BY <4>1, <4>2
      <3>2. v \in Work
        BY <3>1 DEF WorkOK
      <3> QED BY <3>1, <3>2
    <2>4. work' \in [Emitters -> Work]
      <3>1. DOMAIN work' = Emitters /\ work' = [d \in Emitters |-> work'[d]]
        BY <2>1
      <3> QED BY <2>3, <3>1
    <2> QED BY <2>3, <2>4 DEF WorksOK
  <1> QED BY <1>17, <1>18, <1>19, <1>20 DEF Settles

LEMMA StillSettles == ASSUME Sound, UNCHANGED server PROVE Settles
  <1>1. ViewDB'
    BY UntouchedDB DEF Sound, server
  <1>2. OutOK' /\ Lasts
    BY DEF Sound, OutOK, WordOK, Lasts, server
  <1>3. WorksOK'
    BY WorksLast DEF Sound, server
  <1> QED BY <1>1, <1>2, <1>3 DEF Settles

LEMMA FillSettles ==
    ASSUME Sound, NEW read, fill_batch_rows(read)
    PROVE  Settles /\ \A i \in Rows : batch'.value[i] <=> batch.value[i] \/ i \in read
  <1> DEFINE value == [i \in Rows |-> batch.value[i] \/ i \in read]
  <1>1. batch' = [batch EXCEPT !.value = value] /\ UNCHANGED <<run, work, out, over>>
    BY DEF fill_batch_rows
  <1>2. value \in [Rows -> BOOLEAN]
    BY DEF Sound, ViewDB, Batch
  <1>3. \A i \in Rows : value[i] <=> batch.value[i] \/ i \in read
    OBVIOUS
  <1> HIDE DEF value
  <1>4. batch' \in Batch /\ batch'.status = batch.status /\ batch'.value = value
    BY <1>1, <1>2 DEF Sound, ViewDB, Batch
  <1>5. ViewDB'
    BY <1>1, <1>4, SameDB DEF Sound
  <1>6. OutOK'
    BY <1>1, <1>4 DEF Sound, OutOK, WordOK
  <1>7. \A i \in Rows : batch'.value[i] <=> batch.value[i] \/ i \in read
    BY <1>3, <1>4
  <1>8. Lasts
    BY <1>1, <1>4, <1>7 DEF Lasts
  <1>9. WorksOK'
    BY <1>1, <1>4, WorksLast DEF Sound
  <1> QED BY <1>5, <1>6, <1>7, <1>8, <1>9 DEF Settles

-----------------------------------------------------------------------------
(* The snapshots.                                                          *)

\* What a row of a snapshot says is so, and its attempts are Runs of the row.
RowShown(i, rec) ==
    /\ rec \in BatchRowRecord
    /\ rec.status \in Final => i \in over \/ batch.status[i] = rec.status
    /\ \A k \in DOMAIN rec.runs : rec.runs[k].id[1] = i /\ run[rec.runs[k].id] # None
    /\ \A k, l \in DOMAIN rec.runs : rec.runs[k].id = rec.runs[l].id => k = l
    /\ rec.latest # None => \E k \in DOMAIN rec.runs : rec.runs[k].id = rec.latest

SnapOK(s) ==
    /\ s \in BatchSnapshot
    /\ \A i \in Rows : RowShown(i, s.rows[i])
    /\ s.stats = statsFromRows(s.rows)

\* No queued row is without a value.
Good(s) == \A i \in Rows : s.rows[i].status = "queued" => s.rows[i].value

LEMMA RowLasts ==
    ASSUME NEW i \in Rows, NEW rec, RowShown(i, rec), Lasts
    PROVE  RowShown(i, rec)'
  <1>1. \A k \in DOMAIN rec.runs : rec.runs[k].id \in Runs
    <2>1. rec.runs \in Seq(AttemptRecord)
      BY DEF RowShown, BatchRowRecord
    <2>2. \A k \in DOMAIN rec.runs : rec.runs[k] \in AttemptRecord
      BY <2>1
    <2> QED BY <2>2 DEF AttemptRecord
  <1> QED BY <1>1 DEF RowShown, Lasts

LEMMA SnapLasts ==
    ASSUME NEW s, SnapOK(s), Lasts
    PROVE  SnapOK(s)'
  <1>1. \A i \in Rows : RowShown(i, s.rows[i])'
    <2>1. ASSUME NEW i \in Rows PROVE RowShown(i, s.rows[i])'
      <3> PICK rec : rec = s.rows[i]
        OBVIOUS
      <3> QED BY RowLasts DEF SnapOK
    <2> QED BY <2>1
  <1> QED BY <1>1 DEF SnapOK

LEMMA StatsAre ==
    ASSUME NEW rows \in [Rows -> BatchRowRecord], \A i \in Rows : RowShown(i, rows[i])
    PROVE  SnapOK(snapshotFromDetail(rows)) /\ snapshotFromDetail(rows).rows = rows
  <1>1. \A s \in BatchRowStatus : Cardinality({i \in Rows : rows[i].status = s}) \in Nat
    <2>1. IsFiniteSet(Rows)
      <3>1. NRows \in Nat
        BY NonesApart
      <3> QED BY <3>1, FS_Interval DEF Rows
    <2> QED BY <2>1, FS_Subset, FS_CardinalityType
  <1>2. statsFromRows(rows) \in [BatchRowStatus -> Nat]
    BY <1>1 DEF statsFromRows
  <1> HIDE DEF statsFromRows
  <1> QED BY <1>2 DEF SnapOK, snapshotFromDetail, BatchSnapshot

\* The loads: the rows, and then their attempts.
LEMMA RowsAreRead ==
    ASSUME ViewDB
    PROVE  /\ SnapOK(RowsRead)
           /\ \A i \in Rows : RowsRead.rows[i].status = batch.status[i] /\ RowsRead.rows[i].value = batch.value[i]
  <1> DEFINE rows == [i \in Rows |-> [status |-> batch.status[i], value |-> batch.value[i],
                                      latest |-> None, runs |-> <<>>]]
  <1>1. ASSUME NEW i \in Rows
        PROVE  RowShown(i, rows[i]) /\ rows[i].status = batch.status[i] /\ rows[i].value = batch.value[i]
    <2>1. batch.status[i] \in BatchRowStatus /\ batch.value[i] \in BOOLEAN
      BY DEF ViewDB, Batch
    <2>2. <<>> \in Seq(AttemptRecord) /\ DOMAIN <<>> = {}
      OBVIOUS
    <2>3. /\ rows[i].status = batch.status[i] /\ rows[i].value = batch.value[i]
          /\ rows[i].latest = None /\ rows[i].runs = <<>> /\ rows[i] \in BatchRowRecord
      BY <2>1, <2>2 DEF BatchRowRecord
    <2> QED BY <2>2, <2>3 DEF RowShown
  <1>2. rows \in [Rows -> BatchRowRecord]
    BY <1>1 DEF RowShown
  <1>3. RowsRead = snapshotFromDetail(rows)
    BY DEF RowsRead
  <1> HIDE DEF rows
  <1> QED BY <1>1, <1>2, <1>3, StatsAre

LEMMA RecordIs ==
    ASSUME ViewDB, NEW i \in Rows, NEW rec, RowShown(i, rec)
    PROVE  LET new == row_record(rec, i) IN
           RowShown(i, new) /\ new.status = rec.status /\ new.value = rec.value
  <1> DEFINE n == Cardinality(attempts_by_row(i))
             runs == [k \in 1 .. n |-> [id |-> <<i, k>>, status |-> run[<<i, k>>]]]
             new == row_record(rec, i)
  <1>1. n \in 0 .. MaxAttempts /\ attempts_by_row(i) = 1 .. n /\ (LatestRun(i) = IF n = 0 THEN None ELSE <<i, n>>)
    BY AttemptsAre DEF ViewDB
  <1>2. LatestRun(i) \in Runs \cup {None}
    BY LatestAttemptIs
  <1>3. /\ new.status = rec.status /\ new.value = rec.value /\ new.latest = LatestRun(i) /\ new.runs = runs
        /\ new \in [status : {rec.status}, value : {rec.value}, latest : {LatestRun(i)}, runs : {runs}]
    <2>1. new = [rec EXCEPT !.latest = LatestRun(i), !.runs = runs]
      BY DEF row_record
    <2>2. rec \in BatchRowRecord
      BY DEF RowShown
    <2> HIDE DEF runs, new
    <2>3. \A l, m : [rec EXCEPT !.latest = l, !.runs = m] \in
                        [status : {rec.status}, value : {rec.value}, latest : {l}, runs : {m}]
      BY <2>2 DEF BatchRowRecord
    <2> QED BY <2>1, <2>3
  <1> HIDE DEF new, n
  <1>4. \A k \in 1 .. n : <<i, k>> \in Runs /\ run[<<i, k>>] # None /\ run[<<i, k>>] \in RunStatus
    <2>1. \A k \in 1 .. n : k \in 1 .. MaxAttempts /\ run[<<i, k>>] # None
      BY <1>1, NonesApart DEF attempts_by_row
    <2> QED BY <2>1 DEF Runs, ViewDB
  <1>5. runs \in Seq(AttemptRecord) /\ DOMAIN runs = 1 .. n
    <2>1. \A k \in 1 .. n : [id |-> <<i, k>>, status |-> run[<<i, k>>]] \in AttemptRecord
      BY <1>4 DEF AttemptRecord
    <2>2. n \in Nat
      BY <1>1, NonesApart
    <2> QED BY <2>1, <2>2
  <1>6. \A k \in DOMAIN runs : runs[k].id = <<i, k>>
    BY <1>5
  <1> HIDE DEF runs
  <1>7. new \in BatchRowRecord
    BY <1>2, <1>3, <1>5 DEF RowShown, BatchRowRecord
  <1>8. new.latest # None => n \in DOMAIN runs /\ runs[n].id = new.latest
    <2>1. n # 0 => n \in 1 .. n
      BY <1>1, NonesApart
    <2> QED BY <1>1, <1>3, <1>5, <1>6, <2>1
  <1>9. \A k, l \in DOMAIN runs : runs[k].id = runs[l].id => k = l
    BY <1>6
  <1>10. \A k \in DOMAIN runs : runs[k].id[1] = i /\ run[runs[k].id] # None
    <2>1. ASSUME NEW k \in DOMAIN runs PROVE runs[k].id[1] = i /\ run[runs[k].id] # None
      <3>1. k \in 1 .. n /\ runs[k].id = <<i, k>>
        BY <1>5, <1>6
      <3> QED BY <1>4, <3>1
    <2> QED BY <2>1
  <1>11. RowShown(i, new)
    BY <1>3, <1>7, <1>8, <1>9, <1>10 DEF RowShown
  <1> QED BY <1>3, <1>11 DEF new

LEMMA AttemptsAreRead ==
    ASSUME ViewDB, NEW s, SnapOK(s)
    PROVE  /\ SnapOK(AttemptsRead(s))
           /\ \A i \in Rows : /\ AttemptsRead(s).rows[i].status = s.rows[i].status
                              /\ AttemptsRead(s).rows[i].value = s.rows[i].value
  <1> DEFINE rows == [i \in Rows |-> row_record(s.rows[i], i)]
  <1>1. AttemptsRead(s) = [s EXCEPT !.rows = rows]
    BY DEF AttemptsRead
  <1>2. \A i \in Rows : /\ RowShown(i, rows[i]) /\ rows[i].status = s.rows[i].status
                        /\ rows[i].value = s.rows[i].value
    BY RecordIs DEF SnapOK
  <1>3. rows \in [Rows -> BatchRowRecord]
    BY <1>2 DEF RowShown
  <1> HIDE DEF rows
  <1>4. /\ AttemptsRead(s).rows = rows /\ AttemptsRead(s).stats = s.stats
        /\ AttemptsRead(s) \in BatchSnapshot
    BY <1>1, <1>3 DEF SnapOK, BatchSnapshot
  <1>5. statsFromRows(rows) = statsFromRows(s.rows)
    <2>1. \A t : {i \in Rows : rows[i].status = t} = {i \in Rows : s.rows[i].status = t}
      BY <1>2
    <2> QED BY <2>1 DEF statsFromRows
  <1> QED BY <1>2, <1>4, <1>5 DEF SnapOK

\* The events: the attempt of an event replaces the one of the same Run, or is added.
LEMMA RowApplied ==
    ASSUME NEW e, WordOK(e), NEW rec, RowShown(e.row, rec)
    PROVE  LET new == applyRow(rec, e) IN
           RowShown(e.row, new) /\ new.status = e.status /\ new.value = rec.value
  <1> DEFINE attempt == [id |-> e.run, status |-> runStatusOf(e.status)]
             at == {k \in DOMAIN rec.runs : rec.runs[k].id = e.run}
             added == Append(rec.runs, attempt)
             changed == [k \in DOMAIN rec.runs |-> IF k \in at THEN attempt ELSE rec.runs[k]]
             runs == IF at = {} THEN added ELSE changed
             new == applyRow(rec, e)
  <1>1. /\ e.row \in Rows /\ e.status \in BatchRowStatus /\ e.status # "queued" /\ e.run \in Runs \cup {None}
        /\ e.run # None => e.run[1] = e.row /\ run[e.run] # None /\ e.run \in Runs
        /\ e.status \in Final => e.row \in over \/ batch.status[e.row] = e.status
    BY DEF WordOK, BatchEvent
  <1>2. rec.runs \in Seq(AttemptRecord) /\ rec \in BatchRowRecord
    BY DEF RowShown, BatchRowRecord
  <1>3. CASE e.run = None
    <2>1. new = [rec EXCEPT !.status = e.status]
      BY <1>3 DEF applyRow
    <2>2. /\ new \in BatchRowRecord /\ new.status = e.status /\ new.value = rec.value
          /\ new.latest = rec.latest /\ new.runs = rec.runs
      BY <1>1, <1>2, <2>1 DEF BatchRowRecord
    <2> HIDE DEF new
    <2>3. RowShown(e.row, new)
      BY <1>1, <2>2 DEF RowShown
    <2> QED BY <2>2, <2>3 DEF new
  <1>4. CASE e.run # None
    <2>1. new = [rec EXCEPT !.status = e.status, !.latest = e.run, !.runs = runs]
      BY <1>4 DEF applyRow
    <2>2. attempt \in AttemptRecord /\ attempt.id = e.run
      BY <1>1, <1>4 DEF AttemptRecord, runStatusOf, BatchRowStatus, RunStatus, NON_TERMINAL, Terminal
    <2>3. /\ runs \in Seq(AttemptRecord)
          /\ \A k \in DOMAIN runs : runs[k].id = e.run \/ (k \in DOMAIN rec.runs /\ runs[k] = rec.runs[k])
          /\ \A k, l \in DOMAIN runs : runs[k].id = runs[l].id => k = l
          /\ \E k \in DOMAIN runs : runs[k].id = e.run
      <3>1. CASE at = {}
        <4>1. runs = added
          BY <3>1
        <4> HIDE DEF attempt, at, runs
        <4> DEFINE n == Len(rec.runs)
        <4>2. n \in Nat /\ DOMAIN rec.runs = 1 .. n /\ DOMAIN added = 1 .. n + 1 /\ added \in Seq(AttemptRecord)
          BY <1>2, <2>2
        <4>3. added[n + 1] = attempt /\ \A k \in 1 .. n : added[k] = rec.runs[k]
          BY <1>2
        <4>4. \A k \in 1 .. n : rec.runs[k].id # e.run
          BY <3>1, <4>2 DEF at
        <4> HIDE DEF added, n
        <4>5. \A k \in 1 .. n + 1 : k = n + 1 \/ k \in 1 .. n
          BY <4>2
        <4>6. ASSUME NEW k \in 1 .. n + 1, NEW l \in 1 .. n + 1, added[k].id = added[l].id PROVE k = l
          <5>1. k \in 1 .. n /\ l \in 1 .. n => k = l
            BY <4>2, <4>3, <4>6 DEF RowShown
          <5>2. (k = n + 1 /\ l \in 1 .. n) \/ (l = n + 1 /\ k \in 1 .. n) => FALSE
            BY <2>2, <4>3, <4>4, <4>6
          <5> QED BY <4>5, <5>1, <5>2
        <4>7. \A k \in 1 .. n + 1 : added[k].id = e.run \/ (k \in 1 .. n /\ added[k] = rec.runs[k])
          BY <2>2, <4>3, <4>5
        <4>8. n + 1 \in 1 .. n + 1
          BY <4>2
        <4> QED BY <2>2, <4>1, <4>2, <4>3, <4>6, <4>7, <4>8
      <3>2. CASE at # {}
        <4>1. runs = changed
          BY <3>2
        <4> HIDE DEF attempt, runs
        <4>2. DOMAIN changed = DOMAIN rec.runs
          OBVIOUS
        <4>3. \A k \in DOMAIN rec.runs : changed[k] = IF rec.runs[k].id = e.run THEN attempt ELSE rec.runs[k]
          OBVIOUS
        <4>4. changed \in Seq(AttemptRecord)
          <5>1. PICK n \in Nat : DOMAIN rec.runs = 1 .. n
            BY <1>2
          <5>2. \A k \in 1 .. n : changed[k] \in AttemptRecord
            BY <1>2, <2>2, <4>3, <5>1
          <5> QED BY <5>1, <5>2
        <4> HIDE DEF changed
        <4>5. \A k \in DOMAIN rec.runs : changed[k].id = rec.runs[k].id
          BY <2>2, <4>3
        <4>6. \A k, l \in DOMAIN rec.runs : changed[k].id = changed[l].id => k = l
          BY <4>5 DEF RowShown
        <4>7. \A k \in DOMAIN rec.runs : changed[k].id = e.run \/ changed[k] = rec.runs[k]
          BY <2>2, <4>3
        <4>8. \E k \in DOMAIN rec.runs : changed[k].id = e.run
          BY <3>2, <4>5
        <4> QED BY <4>1, <4>2, <4>4, <4>6, <4>7, <4>8
      <3> QED BY <3>1, <3>2
    <2> HIDE DEF runs
    <2>4. /\ new \in BatchRowRecord /\ new.status = e.status /\ new.value = rec.value
          /\ new.latest = e.run /\ new.runs = runs
      BY <1>1, <1>2, <2>1, <2>3 DEF BatchRowRecord
    <2> HIDE DEF new, attempt, at
    <2>5. \A k \in DOMAIN runs : runs[k].id[1] = e.row /\ run[runs[k].id] # None
      <3>1. ASSUME NEW k \in DOMAIN runs PROVE runs[k].id[1] = e.row /\ run[runs[k].id] # None
        <4>1. CASE runs[k].id = e.run
          BY <1>1, <1>4, <4>1
        <4>2. CASE k \in DOMAIN rec.runs /\ runs[k] = rec.runs[k]
          BY <4>2 DEF RowShown
        <4> QED BY <2>3, <4>1, <4>2
      <3> QED BY <3>1
    <2>6. RowShown(e.row, new)
      BY <1>1, <2>3, <2>4, <2>5 DEF RowShown
    <2> QED BY <2>4, <2>6 DEF new
  <1> QED BY <1>3, <1>4

LEMMA EventApplied ==
    ASSUME NEW e, WordOK(e), NEW s, SnapOK(s)
    PROVE  SnapOK(applyBatchEvent(s, e)) /\ (Good(s) => Good(applyBatchEvent(s, e)))
  <1> DEFINE rows == [s.rows EXCEPT ![e.row] = applyRow(s.rows[e.row], e)]
  <1>1. e.row \in Rows /\ e.status # "queued"
    BY DEF WordOK, BatchEvent
  <1>2. PICK new : new = applyRow(s.rows[e.row], e)
    OBVIOUS
  <1>3. RowShown(e.row, new) /\ new.status = e.status
    BY <1>1, <1>2, RowApplied DEF SnapOK
  <1>4. s.rows \in [Rows -> BatchRowRecord] /\ rows = [s.rows EXCEPT ![e.row] = new]
    BY <1>2 DEF SnapOK, BatchSnapshot
  <1>5. applyBatchEvent(s, e) = snapshotFromDetail(rows)
    BY DEF applyBatchEvent
  <1> HIDE DEF rows
  <1>6. rows \in [Rows -> BatchRowRecord] /\ \A i \in Rows : rows[i] = IF i = e.row THEN new ELSE s.rows[i]
    BY <1>1, <1>3, <1>4 DEF RowShown
  <1>7. \A i \in Rows : RowShown(i, rows[i])
    BY <1>3, <1>6 DEF SnapOK
  <1>8. SnapOK(applyBatchEvent(s, e)) /\ applyBatchEvent(s, e).rows = rows
    BY <1>5, <1>6, <1>7, StatsAre
  <1>9. Good(s) => Good(applyBatchEvent(s, e))
    BY <1>1, <1>3, <1>6, <1>8 DEF Good
  <1> QED BY <1>8, <1>9

\* "the banner clears with the rows updated".
LEMMA FillApplied ==
    ASSUME NEW s, SnapOK(s)
    PROVE  SnapOK(applyQueuedFill(s)) /\ Good(applyQueuedFill(s))
  <1> DEFINE rows == [i \in Rows |-> IF s.rows[i].status = "queued"
                                     THEN [s.rows[i] EXCEPT !.value = TRUE] ELSE s.rows[i]]
  <1>1. applyQueuedFill(s) = [s EXCEPT !.rows = rows]
    BY DEF applyQueuedFill
  <1>2. ASSUME NEW i \in Rows
        PROVE  /\ RowShown(i, rows[i]) /\ rows[i].status = s.rows[i].status
               /\ rows[i].status = "queued" => rows[i].value
    <2>1. PICK rec : rec = s.rows[i]
      OBVIOUS
    <2>2. RowShown(i, rec) /\ rec \in BatchRowRecord
      BY <2>1 DEF SnapOK, RowShown
    <2>3. CASE rec.status = "queued"
      <3>1. PICK new : new = [rec EXCEPT !.value = TRUE]
        OBVIOUS
      <3>2. /\ new \in BatchRowRecord /\ new.status = rec.status /\ new.value = TRUE
            /\ new.latest = rec.latest /\ new.runs = rec.runs
        BY <2>2, <3>1 DEF BatchRowRecord
      <3>3. RowShown(i, new)
        BY <2>2, <3>2 DEF RowShown
      <3>4. rows[i] = new
        BY <2>1, <2>3, <3>1
      <3> QED BY <2>1, <3>2, <3>3, <3>4
    <2>4. CASE rec.status # "queued"
      <3>1. rows[i] = rec
        BY <2>1, <2>4
      <3> QED BY <2>1, <2>2, <2>4, <3>1
    <2> QED BY <2>3, <2>4
  <1>3. rows \in [Rows -> BatchRowRecord]
    BY <1>2 DEF RowShown
  <1> HIDE DEF rows
  <1>4. /\ applyQueuedFill(s).rows = rows /\ applyQueuedFill(s).stats = s.stats
        /\ applyQueuedFill(s) \in BatchSnapshot
    BY <1>1, <1>3 DEF SnapOK, BatchSnapshot
  <1>5. statsFromRows(rows) = statsFromRows(s.rows)
    <2>1. \A t : {i \in Rows : rows[i].status = t} = {i \in Rows : s.rows[i].status = t}
      BY <1>2
    <2> QED BY <2>1 DEF statsFromRows
  <1>6. SnapOK(applyQueuedFill(s))
    BY <1>2, <1>4, <1>5 DEF SnapOK
  <1> QED BY <1>2, <1>4, <1>6 DEF Good
-----------------------------------------------------------------------------
(* The page.                                                               *)

Streams == {"off", "opening", "open", "broken", "refetching", "sleeping"}

\* Every queued row has a value.
FilledDB == \A i \in Rows : batch.status[i] = "queued" => batch.value[i]

PageOK(p) ==
    /\ p \in Page
    /\ p.shot # None => SnapOK(p.shot) /\ p.cached # None
    /\ p.cached # None => SnapOK(p.cached)
    /\ p.ask # None => p.shot # None
    /\ p.ask # None /\ p.ask.op = "fill" /\ p.ask.read # None =>
         \A i \in Rows : batch.status[i] = "queued" /\ ~batch.value[i] => i \in p.ask.read
    /\ p.ask # None /\ p.ask.op = "fill" /\ p.ask.answer = "ok" => FilledDB
    /\ p.filled => FilledDB
    /\ p.filled /\ ~p.error /\ p.shot # None => Good(p.shot)

WordsOK(box) == box \in Seq(BatchEvent) /\ \A k \in DOMAIN box : WordOK(box[k])

\* Only a page with a snapshot listens.
StreamOK(p, s, box) ==
    /\ s \in Streams /\ WordsOK(box)
    /\ s # "off" => p.shot # None
    /\ box # <<>> => s # "off"

\* A load nobody asked for is the page's first.
LoadOK(p, l) ==
    /\ l \in Load \cup {None}
    /\ l # None => /\ l.got # None => SnapOK(l.got) /\ (p.filled => Good(l.got))
                   /\ l.full => l.got # None
                   /\ l.by = {} => p.shot = None

TabOK(p, s, box, l) == PageOK(p) /\ StreamOK(p, s, box) /\ LoadOK(p, l)

LEMMA FilledLasts == ASSUME Lasts, FilledDB PROVE FilledDB'
  BY DEF Lasts, FilledDB

LEMMA WordsLast == ASSUME Lasts, NEW box, WordsOK(box) PROVE WordsOK(box)'
  <1>1. ASSUME NEW k \in DOMAIN box PROVE WordOK(box[k])'
    <2> PICK w : w = box[k]
      OBVIOUS
    <2> QED BY WordLasts DEF WordsOK
  <1> QED BY <1>1 DEF WordsOK

LEMMA PageLasts == ASSUME Lasts, NEW p, PageOK(p) PROVE PageOK(p)'
  <1>1. p.shot # None => SnapOK(p.shot)'
    <2> PICK s : s = p.shot
      OBVIOUS
    <2> QED BY SnapLasts DEF PageOK
  <1>2. p.cached # None => SnapOK(p.cached)'
    <2> PICK s : s = p.cached
      OBVIOUS
    <2> QED BY SnapLasts DEF PageOK
  <1>3. p.shot # None => (Good(p.shot)' <=> Good(p.shot))
    BY DEF Good
  <1>4. p.ask # None /\ p.ask.op = "fill" /\ p.ask.read # None =>
          \A i \in Rows : batch'.status[i] = "queued" /\ ~batch'.value[i] => i \in p.ask.read
    BY DEF PageOK, Lasts
  <1> QED BY <1>1, <1>2, <1>3, <1>4, FilledLasts DEF PageOK

LEMMA LoadLasts == ASSUME Lasts, NEW p, NEW l, LoadOK(p, l) PROVE LoadOK(p, l)'
  <1>1. l # None /\ l.got # None => SnapOK(l.got)' /\ (Good(l.got)' <=> Good(l.got))
    <2> PICK s : s = l.got
      OBVIOUS
    <2> QED BY SnapLasts DEF LoadOK, Good
  <1> QED BY <1>1 DEF LoadOK

LEMMA TabMoves ==
    ASSUME Lasts, NEW p, NEW s, NEW box, NEW l, TabOK(p, s, box, l),
           page' = p, stream' = s, inbox' = box, load' = l
    PROVE  TabOK(page, stream, inbox, load)'
  <1>1. PageOK(p)' /\ WordsOK(box)' /\ LoadOK(p, l)'
    BY PageLasts, WordsLast, LoadLasts DEF TabOK, StreamOK
  <1>2. StreamOK(p, s, box)'
    BY <1>1 DEF TabOK, StreamOK
  <1> QED BY <1>1, <1>2 DEF TabOK, PageOK, StreamOK, LoadOK, WordsOK

\* The effect that starts and stops listen().
LEMMA Rendering ==
    ASSUME NEW p, PageOK(p), NEW now \in Streams, NEW box, WordsOK(box), Renders(p, now, box)
    PROVE  \E s, b : page' = p /\ stream' = s /\ inbox' = b /\ StreamOK(p, s, b)
  <1> DEFINE s == CASE ~Listens(p) -> "off"
                    [] Listens(p) /\ now = "off" -> "opening"
                    [] OTHER -> now
             b == IF s = "open" THEN box ELSE <<>>
  <1>1. page' = p /\ stream' = s /\ inbox' = b
    BY DEF Renders
  <1>2. s \in Streams /\ (s # "off" => p.shot # None)
    BY DEF Streams, Listens
  <1>3. WordsOK(b) /\ (b # <<>> => s # "off")
    <2>1. WordsOK(<<>>)
      BY DEF WordsOK
    <2> HIDE DEF s
    <2> QED BY <2>1
  <1> HIDE DEF s, b
  <1> QED BY <1>1, <1>2, <1>3 DEF StreamOK

LEMMA SameLasts == ASSUME UNCHANGED <<batch, run, over>> PROVE Lasts
  BY DEF Lasts

\* A step of the page that renders it, and leaves the load in flight alone or starts one.
LEMMA TabRenders ==
    ASSUME TabOK(page, stream, inbox, load), UNCHANGED <<batch, run, over>>,
           NEW p, PageOK(p), Becomes(p), NEW l, load' = l, LoadOK(p, l)
    PROVE  TabOK(page, stream, inbox, load)'
  <1>1. stream \in Streams /\ WordsOK(inbox)
    BY DEF TabOK, StreamOK
  <1>2. PICK t : t = stream
    OBVIOUS
  <1>3. PICK u : u = inbox
    OBVIOUS
  <1>4. t \in Streams /\ WordsOK(u) /\ Renders(p, t, u)
    BY <1>1, <1>2, <1>3 DEF Becomes
  <1>5. PICK s, b : page' = p /\ stream' = s /\ inbox' = b /\ StreamOK(p, s, b)
    BY <1>4, Rendering
  <1> QED BY <1>5, SameLasts, TabMoves DEF TabOK

LEMMA LoadTypes ==
    ASSUME NEW l \in Load
    PROVE  /\ l # None /\ l.by \in SUBSET {"reconnect", "mutation"} /\ l.full \in BOOLEAN
           /\ l.got \in BatchSnapshot \cup {None}
           /\ \A g \in BatchSnapshot \cup {None} : \A f \in BOOLEAN :
                 LET m == [l EXCEPT !.got = g, !.full = f] IN
                 m \in Load /\ m.by = l.by /\ m.got = g /\ m.full = f
  BY BatchViewAssumption DEF Load

LEMMA LoadRowsKeeps ==
    ASSUME ViewDB, TabOK(page, stream, inbox, load), LoadRows
    PROVE  TabOK(page, stream, inbox, load)'
  <1>1. load # None /\ load.got = None /\ load \in Load
    BY DEF LoadRows, TabOK, LoadOK
  <1>2. PICK l : l = [load EXCEPT !.got = RowsRead]
    OBVIOUS
  <1>3. SnapOK(RowsRead) /\ RowsRead \in BatchSnapshot /\ (FilledDB => Good(RowsRead))
    BY RowsAreRead DEF SnapOK, FilledDB, Good
  <1> PICK g : g = RowsRead
    OBVIOUS
  <1>4. l \in Load /\ l.by = load.by /\ l.got = g /\ l.full = load.full
    BY <1>1, <1>2, <1>3, BatchViewAssumption DEF Load
  <1>5. g # None
    BY <1>3, BatchViewAssumption
  <1>6. LoadOK(page, l)
    BY <1>1, <1>3, <1>4, <1>5 DEF TabOK, PageOK, LoadOK
  <1>7. TabOK(page, stream, inbox, l)
    BY <1>6 DEF TabOK
  <1>8. page' = page /\ stream' = stream /\ inbox' = inbox /\ load' = l /\ UNCHANGED <<batch, run, over>>
    BY <1>2 DEF LoadRows, server
  <1>9. PICK p, s, b : p = page /\ s = stream /\ b = inbox
    OBVIOUS
  <1> QED BY <1>7, <1>8, <1>9, SameLasts, TabMoves

LEMMA LoadAttemptsKeeps ==
    ASSUME ViewDB, TabOK(page, stream, inbox, load), LoadAttempts
    PROVE  TabOK(page, stream, inbox, load)'
  <1>1. load # None /\ load.got # None /\ load \in Load /\ SnapOK(load.got) /\ (page.filled => Good(load.got))
    BY DEF LoadAttempts, TabOK, LoadOK
  <1> PICK g : g = AttemptsRead(load.got)
    OBVIOUS
  <1>2. PICK l : l = [load EXCEPT !.got = g, !.full = TRUE]
    OBVIOUS
  <1>3. SnapOK(g) /\ g \in BatchSnapshot /\ (page.filled => Good(g))
    BY <1>1, AttemptsAreRead DEF SnapOK, Good
  <1>4. l \in Load /\ l.by = load.by /\ l.got = g /\ l.full = TRUE
    BY <1>1, <1>2, <1>3 DEF Load
  <1>5. g # None
    BY <1>3, BatchViewAssumption
  <1>6. LoadOK(page, l)
    BY <1>1, <1>3, <1>4, <1>5 DEF TabOK, LoadOK
  <1>7. TabOK(page, stream, inbox, l)
    BY <1>6 DEF TabOK
  <1>8. page' = page /\ stream' = stream /\ inbox' = inbox /\ load' = l /\ UNCHANGED <<batch, run, over>>
    BY <1>2 DEF LoadAttempts, server
  <1>9. PICK p, s, b : p = page /\ s = stream /\ b = inbox
    OBVIOUS
  <1> QED BY <1>7, <1>8, <1>9, SameLasts, TabMoves

LEMMA NoLoad == ASSUME NEW p PROVE LoadOK(p, None)
  BY DEF LoadOK

\* What ends a load, good or failed.
LEMMA TakesKeeps ==
    ASSUME TabOK(page, stream, inbox, load), UNCHANGED <<batch, run, over>>, load # None,
           NEW got \in BatchSnapshot \cup {None}, NEW ok \in BOOLEAN, Takes(got, ok),
           got # None => SnapOK(got), page.cached # None => got # None,
           ok => got # None /\ (page.filled => Good(got))
    PROVE  TabOK(page, stream, inbox, load)'
  <1> DEFINE shown == Shown(load.by, page.shot, got)
             p0 == [page EXCEPT !.cached = got, !.error = ~ok, !.shot = Shown(load.by, @, got)]
             now0 == IF "reconnect" \in load.by /\ stream = "refetching" THEN "sleeping" ELSE stream
  <1> PICK p : p = p0
    OBVIOUS
  <1> PICK now : now = now0
    OBVIOUS
  <1> PICK u : u = inbox
    OBVIOUS
  <1>0. page \in Page /\ PageOK(page) /\ stream \in Streams /\ WordsOK(inbox) /\ LoadOK(page, load)
    BY DEF TabOK, PageOK, StreamOK
  <1>1. shown = IF page.shot = None \/ load.by # {} THEN got ELSE page.shot
    BY DEF Shown
  <1>2. load.by = {} => page.shot = None
    BY <1>0 DEF LoadOK
  <1>3. shown = got
    BY <1>1, <1>2
  <1>4. /\ p \in Page /\ p.shot = got /\ p.cached = got /\ p.error = ~ok /\ p.filled = page.filled
        /\ p.ask = page.ask
    <2>1. p = [page EXCEPT !.cached = got, !.error = ~ok, !.shot = got]
      BY <1>3
    <2> QED BY <1>0, <2>1 DEF Page
  <1>5. page.shot # None => got # None
    BY <1>0 DEF PageOK
  <1>6. PageOK(p)
    BY <1>0, <1>4, <1>5 DEF PageOK
  <1>7. now \in Streams /\ Renders(p, now, u) /\ load' = None
    BY <1>0 DEF Takes, Streams
  <1>8. WordsOK(u)
    BY <1>0
  <1>9. PICK s, b : page' = p /\ stream' = s /\ inbox' = b /\ StreamOK(p, s, b)
    BY <1>6, <1>7, <1>8, Rendering
  <1> QED BY <1>6, <1>7, <1>9, NoLoad, SameLasts, TabMoves DEF TabOK

LEMMA LoadDoneKeeps ==
    ASSUME TabOK(page, stream, inbox, load), LoadDone
    PROVE  TabOK(page, stream, inbox, load)'
  <1>1. load # None /\ load \in Load /\ LoadOK(page, load) /\ load.full
    BY DEF LoadDone, TabOK, LoadOK
  <1>2. PICK got : got = load.got
    OBVIOUS
  <1>3. got # None /\ got \in BatchSnapshot \cup {None} /\ SnapOK(got) /\ (page.filled => Good(got))
    BY <1>1, <1>2 DEF LoadOK, Load
  <1>4. Takes(got, TRUE) /\ UNCHANGED <<batch, run, over>>
    BY <1>2 DEF LoadDone, server
  <1> QED BY <1>1, <1>3, <1>4, TakesKeeps

LEMMA LoadFailsKeeps ==
    ASSUME TabOK(page, stream, inbox, load), LoadFails
    PROVE  TabOK(page, stream, inbox, load)'
  <1>1. PICK got : got = page.cached
    OBVIOUS
  <1>2. got \in BatchSnapshot \cup {None} /\ (got # None => SnapOK(got))
    BY <1>1 DEF TabOK, PageOK, Page
  <1>3. Takes(got, FALSE) /\ load # None /\ UNCHANGED <<batch, run, over>>
    BY <1>1 DEF LoadFails, server
  <1> QED BY <1>1, <1>2, <1>3, TakesKeeps

\* A refetch is made for a reason.
LEMMA RefetchOK ==
    ASSUME NEW p, LoadOK(page, load), NEW why \in {"reconnect", "mutation"}, Refetch(why)
    PROVE  \E l : load' = l /\ LoadOK(p, l)
  <1> DEFINE by == {why} \cup IF load = None THEN {} ELSE load.by
             l == Fetch(by)
  <1>1. load' = l
    BY DEF Refetch
  <1>2. by \subseteq {"reconnect", "mutation"} /\ by # {}
    BY DEF LoadOK, Load
  <1> HIDE DEF by
  <1>3. l \in Load /\ l.by = by /\ l.got = None /\ l.full = FALSE
    BY <1>2 DEF Fetch, Load
  <1> HIDE DEF l
  <1>4. LoadOK(p, l)
    BY <1>2, <1>3 DEF LoadOK
  <1> QED BY <1>1, <1>4

\* Steps of the page that move its stream alone.
LEMMA StreamKeeps ==
    ASSUME TabOK(page, stream, inbox, load), UNCHANGED <<batch, run, over, page>>,
           NEW s, stream' = s, s \in Streams, stream # "off", inbox' = inbox \/ inbox' = <<>>,
           s # "off",
           NEW l, load' = l, LoadOK(page, l)
    PROVE  TabOK(page, stream, inbox, load)'
  <1>1. PICK b : b = inbox'
    OBVIOUS
  <1>2. PICK p : p = page
    OBVIOUS
  <1>3. WordsOK(b)
    <2>1. WordsOK(<<>>)
      BY DEF WordsOK
    <2> QED BY <1>1, <2>1 DEF TabOK, StreamOK
  <1>4. PageOK(p) /\ StreamOK(p, s, b) /\ LoadOK(p, l)
    BY <1>2, <1>3 DEF TabOK, StreamOK
  <1> QED BY <1>1, <1>2, <1>4, SameLasts, TabMoves DEF TabOK

LEMMA ListensKeeps ==
    ASSUME TabOK(page, stream, inbox, load), Subscribe \/ Break \/ Reconnect \/ Wake
    PROVE  TabOK(page, stream, inbox, load)'
  <1>0. LoadOK(page, load)
    BY DEF TabOK
  <1>1. CASE Subscribe
    <2>1. stream' = "open" /\ stream = "opening" /\ load' = load /\ UNCHANGED <<batch, run, over, page, inbox>>
      BY <1>1 DEF Subscribe, server
    <2>2. PICK l : l = load
      OBVIOUS
    <2> QED BY <1>0, <2>1, <2>2, StreamKeeps DEF Streams
  <1>2. CASE Break
    <2>1. stream' = "broken" /\ stream # "off" /\ load' = load /\ inbox' = <<>> /\ UNCHANGED <<batch, run, over, page>>
      BY <1>2 DEF Break, server
    <2>2. PICK l : l = load
      OBVIOUS
    <2> QED BY <1>0, <2>1, <2>2, StreamKeeps DEF Streams
  <1>3. CASE Reconnect
    <2>1. /\ stream' = "refetching" /\ stream # "off" /\ UNCHANGED <<batch, run, over, page, inbox>>
          /\ Refetch("reconnect")
      BY <1>3 DEF Reconnect, server
    <2>2. PICK p : p = page
      OBVIOUS
    <2>3. PICK l : load' = l /\ LoadOK(p, l)
      BY <1>0, <2>1, RefetchOK
    <2> QED BY <2>1, <2>2, <2>3, StreamKeeps DEF Streams
  <1>4. CASE Wake
    <2>1. stream' = "opening" /\ stream # "off" /\ load' = load /\ UNCHANGED <<batch, run, over, page, inbox>>
      BY <1>4 DEF Wake, server
    <2>2. PICK l : l = load
      OBVIOUS
    <2> QED BY <1>0, <2>1, <2>2, StreamKeeps DEF Streams
  <1> QED BY <1>1, <1>2, <1>3, <1>4

\* What the invariant says of a page it says of its snapshots, its request and its fill.
LEMMA PageSame ==
    ASSUME PageOK(page), LoadOK(page, load), NEW p \in Page, p.shot = page.shot, p.cached = page.cached,
           p.error = page.error, p.filled = page.filled, p.ask = page.ask
    PROVE  PageOK(p) /\ LoadOK(p, load)
  BY DEF PageOK, LoadOK

LEMMA LearnKeeps ==
    ASSUME ViewDB, TabOK(page, stream, inbox, load), Learn
    PROVE  TabOK(page, stream, inbox, load)'
  <1>1. PICK p : p = [page EXCEPT !.knows = batch.wants]
    OBVIOUS
  <1>2. PICK l : l = load
    OBVIOUS
  <1>3. PageOK(page) /\ LoadOK(page, load) /\ page \in Page /\ batch.wants \in BOOLEAN
    BY DEF TabOK, PageOK, ViewDB, Batch
  <1>4. /\ p \in Page /\ p.shot = page.shot /\ p.cached = page.cached
        /\ p.error = page.error /\ p.filled = page.filled /\ p.ask = page.ask
    BY <1>1, <1>3 DEF Page
  <1>5. PageOK(p) /\ LoadOK(p, l)
    BY <1>2, <1>3, <1>4, PageSame
  <1>6. Becomes(p) /\ load' = l /\ UNCHANGED <<batch, run, over>>
    BY <1>1, <1>2 DEF Learn, server
  <1> QED BY <1>5, <1>6, TabRenders

LEMMA LoadRunKeeps ==
    ASSUME ViewDB, TabOK(page, stream, inbox, load), LoadRun
    PROVE  TabOK(page, stream, inbox, load)'
  <1> PICK r : r = LiveRun
    OBVIOUS
  <1> PICK v : v = run[LiveRun]
    OBVIOUS
  <1>1. PICK p : p = [page EXCEPT !.seen[r] = v]
    OBVIOUS
  <1>2. PICK l : l = load
    OBVIOUS
  <1>3. PageOK(page) /\ LoadOK(page, load) /\ page \in Page
    BY DEF TabOK, PageOK
  <1>4. r \in Runs => v \in RunStatus \cup {None}
    BY DEF ViewDB
  <1>5. [page.seen EXCEPT ![r] = v] \in [Runs -> RunStatus \cup {None}]
    BY <1>3, <1>4 DEF Page
  <1>6. /\ p \in Page /\ p.shot = page.shot /\ p.cached = page.cached
        /\ p.error = page.error /\ p.filled = page.filled /\ p.ask = page.ask
    <2>1. PICK f : f = [page.seen EXCEPT ![r] = v]
      OBVIOUS
    <2>2. p = [page EXCEPT !.seen = f]
      BY <1>1, <2>1
    <2> QED BY <1>3, <1>5, <2>1, <2>2 DEF Page
  <1>7. PageOK(p) /\ LoadOK(p, l)
    BY <1>2, <1>3, <1>6, PageSame
  <1>8. Becomes(p) /\ load' = l /\ UNCHANGED <<batch, run, over>>
    BY <1>1, <1>2 DEF LoadRun, server
  <1> QED BY <1>7, <1>8, TabRenders

LEMMA DismissKeeps ==
    ASSUME TabOK(page, stream, inbox, load), Dismiss
    PROVE  TabOK(page, stream, inbox, load)'
  <1>1. PICK p : p = [page EXCEPT !.dismissed = TRUE]
    OBVIOUS
  <1>2. PICK l : l = load
    OBVIOUS
  <1>3. PageOK(page) /\ LoadOK(page, load) /\ page \in Page
    BY DEF TabOK, PageOK
  <1>4. /\ p \in Page /\ p.shot = page.shot /\ p.cached = page.cached
        /\ p.error = page.error /\ p.filled = page.filled /\ p.ask = page.ask
    BY <1>1, <1>3 DEF Page
  <1>5. PageOK(p) /\ LoadOK(p, l)
    BY <1>2, <1>3, <1>4, PageSame
  <1>6. Becomes(p) /\ load' = l /\ UNCHANGED <<batch, run, over>>
    BY <1>1, <1>2 DEF Dismiss, server
  <1> QED BY <1>5, <1>6, TabRenders

LEMMA ReceiveKeeps ==
    ASSUME TabOK(page, stream, inbox, load), Receive
    PROVE  TabOK(page, stream, inbox, load)'
  <1> PICK e : e = Head(inbox)
    OBVIOUS
  <1> PICK u : u = Tail(inbox)
    OBVIOUS
  <1> PICK t : t = stream
    OBVIOUS
  <1>0. PageOK(page) /\ LoadOK(page, load) /\ page \in Page /\ stream \in Streams /\ WordsOK(inbox)
    BY DEF TabOK, PageOK, StreamOK
  <1>1. inbox # <<>> /\ page.shot # None
    BY DEF Receive, TabOK, StreamOK
  <1>2. WordOK(e) /\ WordsOK(u)
    <2>1. inbox \in Seq(BatchEvent) /\ \A k \in DOMAIN inbox : WordOK(inbox[k])
      BY <1>0 DEF WordsOK
    <2>2. 1 \in DOMAIN inbox /\ e = inbox[1]
      BY <1>1, <2>1
    <2>3. u \in Seq(BatchEvent)
      BY <1>1, <2>1
    <2>4. \A k \in DOMAIN u : k + 1 \in DOMAIN inbox /\ u[k] = inbox[k + 1]
      BY <1>1, <2>1
    <2> QED BY <2>1, <2>2, <2>3, <2>4 DEF WordsOK
  <1>3. PICK shot : shot = applyBatchEvent(page.shot, e)
    OBVIOUS
  <1>4. SnapOK(page.shot) /\ SnapOK(shot) /\ (Good(page.shot) => Good(shot))
    <2>1. SnapOK(page.shot)
      BY <1>0, <1>1 DEF PageOK
    <2>2. PICK s : s = page.shot
      OBVIOUS
    <2> QED BY <1>2, <1>3, <2>1, <2>2, EventApplied
  <1>5. shot \in BatchSnapshot /\ shot # None
    BY <1>4, BatchViewAssumption DEF SnapOK
  <1>6. PICK p : p = [page EXCEPT !.shot = shot]
    OBVIOUS
  <1>7. /\ p \in Page /\ p.shot = shot /\ p.cached = page.cached
        /\ p.error = page.error /\ p.filled = page.filled /\ p.ask = page.ask
    BY <1>0, <1>5, <1>6 DEF Page
  <1>8. PageOK(p)
    BY <1>0, <1>1, <1>4, <1>5, <1>7 DEF PageOK
  <1>9. LoadOK(p, load)
    BY <1>0, <1>1, <1>7 DEF LoadOK
  <1>10. Renders(p, t, u) /\ load' = load /\ UNCHANGED <<batch, run, over>>
    BY <1>3, <1>6 DEF Receive, server
  <1>11. PICK s, b : page' = p /\ stream' = s /\ inbox' = b /\ StreamOK(p, s, b)
    BY <1>0, <1>2, <1>8, <1>10, Rendering
  <1>12. PICK l : l = load
    OBVIOUS
  <1> QED BY <1>8, <1>9, <1>10, <1>11, <1>12, SameLasts, TabMoves DEF TabOK

LEMMA RequestIs ==
    ASSUME PageOK(page), page.ask # None, NEW q \in Mutation, NEW p, p = [page EXCEPT !.ask = q]
    PROVE  /\ p \in Page /\ p.shot = page.shot /\ p.cached = page.cached /\ p.error = page.error
           /\ p.filled = page.filled /\ p.ask = q /\ p.ask # None
           /\ page.ask \in Mutation
  <1>1. q # None
    BY BatchViewAssumption
  <1> QED BY <1>1 DEF PageOK, Page

LEMMA ClickKeeps ==
    ASSUME TabOK(page, stream, inbox, load), NEW op \in Op, NEW i \in Rows, Click(op, i)
    PROVE  TabOK(page, stream, inbox, load)'
  <1>1. PICK q : q = [op |-> op, row |-> i, read |-> None, answer |-> None]
    OBVIOUS
  <1>2. q \in Mutation /\ q # None /\ q.read = None /\ q.answer = None
    BY <1>1, BatchViewAssumption DEF Mutation
  <1>3. PICK p : p = [page EXCEPT !.ask = q]
    OBVIOUS
  <1>4. PICK l : l = load
    OBVIOUS
  <1>5. PageOK(page) /\ LoadOK(page, load) /\ page \in Page /\ page.shot # None
    BY DEF Click, Screen, TabOK, PageOK
  <1>6. /\ p \in Page /\ p.shot = page.shot /\ p.cached = page.cached
        /\ p.error = page.error /\ p.filled = page.filled /\ p.ask = q
    BY <1>2, <1>3, <1>5 DEF Page
  <1>7. None # "ok"
    BY BatchViewAssumption
  <1>8. PageOK(p)
    BY <1>2, <1>5, <1>6, <1>7 DEF PageOK
  <1>9. LoadOK(p, l)
    BY <1>4, <1>5, <1>6 DEF LoadOK
  <1>10. Becomes(p) /\ load' = l /\ UNCHANGED <<batch, run, over>>
    BY <1>1, <1>3, <1>4 DEF Click, server
  <1> QED BY <1>8, <1>9, <1>10, TabRenders

LEMMA ReadFillKeeps ==
    ASSUME TabOK(page, stream, inbox, load), ReadFill
    PROVE  TabOK(page, stream, inbox, load)'
  <1> PICK S : S = Unfilled
    OBVIOUS
  <1>0. PageOK(page) /\ LoadOK(page, load) /\ page \in Page /\ page.ask # None
    BY DEF ReadFill, TabOK, PageOK
  <1>1. page.ask \in Mutation /\ page.ask.op = "fill"
    BY <1>0 DEF ReadFill, Page
  <1>2. PICK q : q = [page.ask EXCEPT !.read = S]
    OBVIOUS
  <1>3. S \in SUBSET Rows /\ \A i \in Rows : batch.status[i] = "queued" /\ ~batch.value[i] => i \in S
    BY DEF Unfilled
  <1>4. q \in Mutation /\ q.read = S /\ q.op = page.ask.op /\ q.answer = page.ask.answer
    BY <1>1, <1>2, <1>3 DEF Mutation
  <1>5. PICK p : p = [page EXCEPT !.ask = q]
    OBVIOUS
  <1>6. /\ p \in Page /\ p.shot = page.shot /\ p.cached = page.cached
        /\ p.error = page.error /\ p.filled = page.filled /\ p.ask = q
    BY <1>0, <1>4, <1>5, RequestIs
  <1>7. PageOK(p)
    BY <1>0, <1>3, <1>4, <1>6 DEF PageOK
  <1>8. LoadOK(p, load)
    BY <1>0, <1>6 DEF LoadOK
  <1>9. page' = p /\ stream' = stream /\ inbox' = inbox /\ load' = load /\ UNCHANGED <<batch, run, over>>
    BY <1>2, <1>5 DEF ReadFill, server
  <1>10. PICK s, b, l : s = stream /\ b = inbox /\ l = load
    OBVIOUS
  <1>11. TabOK(p, s, b, l)
    BY <1>6, <1>7, <1>8, <1>10 DEF TabOK, StreamOK
  <1> QED BY <1>9, <1>10, <1>11, SameLasts, TabMoves

LEMMA AnsweredKeeps ==
    ASSUME TabOK(page, stream, inbox, load), Answered
    PROVE  TabOK(page, stream, inbox, load)'
  <1> DEFINE op == page.ask.op
             p0 == [page EXCEPT !.ask = None]
             q0 == IF page.ask.answer = "refused" THEN p0
                   ELSE CASE op = "fill" -> [p0 EXCEPT !.shot = applyQueuedFill(@), !.filled = TRUE]
                          [] op = "take" -> [p0 EXCEPT !.gone = TRUE]
                          [] OTHER -> p0
  <1> PICK q : q = q0
    OBVIOUS
  <1>0. PageOK(page) /\ LoadOK(page, load) /\ page \in Page /\ page.ask # None
    BY DEF Answered, TabOK, PageOK
  <1>1. page.ask \in Mutation /\ page.ask.answer \in {"ok", "refused"} /\ page.shot # None /\ SnapOK(page.shot)
    BY <1>0 DEF Answered, Page, PageOK, Mutation
  <1>2. /\ p0 \in Page /\ p0.shot = page.shot /\ p0.cached = page.cached
        /\ p0.error = page.error /\ p0.filled = page.filled /\ p0.ask = None
    BY <1>0 DEF Page
  <1>3. Becomes(q) /\ UNCHANGED <<batch, run, over>>
    BY DEF Answered, server
  <1>4. IF page.ask.answer = "ok" /\ op # "take" THEN Refetch("mutation") ELSE UNCHANGED load
    BY DEF Answered
  <1>5. PICK p : p = p0
    OBVIOUS
  <1> HIDE DEF p0, q0
  <1>6. PageOK(p)
    BY <1>0, <1>2, <1>5 DEF PageOK
  <1>7. LoadOK(p, load)
    BY <1>0, <1>2, <1>5 DEF LoadOK
  <1>8. CASE page.ask.answer = "ok" /\ op = "fill"
    <2>1. PICK shot : shot = applyQueuedFill(p.shot)
      OBVIOUS
    <2>2. SnapOK(shot) /\ Good(shot)
      <3>1. PICK s : s = p.shot
        OBVIOUS
      <3> QED BY <1>1, <1>2, <1>5, <2>1, <3>1, FillApplied
    <2>3. shot \in BatchSnapshot /\ shot # None
      BY <2>2, BatchViewAssumption DEF SnapOK
    <2>4. q = [p EXCEPT !.shot = shot, !.filled = TRUE]
      BY <1>5, <1>8, <2>1 DEF q0
    <2>5. /\ q \in Page /\ q.shot = shot /\ q.cached = p.cached /\ q.error = p.error
          /\ q.filled = TRUE /\ q.ask = None
      BY <1>2, <1>5, <2>3, <2>4 DEF Page
    <2>6. FilledDB
      BY <1>0, <1>8 DEF PageOK
    <2>7. PageOK(q)
      BY <1>0, <1>1, <1>2, <1>5, <2>2, <2>5, <2>6 DEF PageOK
    <2>8. Refetch("mutation")
      BY <1>4, <1>8
    <2>9. PICK l : load' = l /\ LoadOK(q, l)
      BY <1>0, <2>8, RefetchOK
    <2> QED BY <1>3, <2>7, <2>9, TabRenders
  <1>9. CASE page.ask.answer = "refused" \/ op # "fill"
    <2>1. q = p \/ q = [p EXCEPT !.gone = TRUE]
      BY <1>1, <1>5, <1>9 DEF q0
    <2>2. /\ q \in Page /\ q.shot = p.shot /\ q.cached = p.cached /\ q.error = p.error
          /\ q.filled = p.filled /\ q.ask = p.ask
      BY <1>2, <1>5, <2>1 DEF Page
    <2>3. PageOK(q)
      BY <1>6, <2>2 DEF PageOK
    <2>4. LoadOK(q, load)
      BY <1>7, <2>2 DEF LoadOK
    <2>5. PICK l : load' = l /\ LoadOK(q, l)
      <3>1. CASE Refetch("mutation")
        BY <1>0, <3>1, RefetchOK
      <3>2. CASE UNCHANGED load
        BY <2>4, <3>2
      <3> QED BY <1>4, <3>1, <3>2
    <2> QED BY <1>3, <2>3, <2>5, TabRenders
  <1> QED BY <1>1, <1>8, <1>9

-----------------------------------------------------------------------------
(* The whole of a step.                                                    *)

Streaming == TabOK(page, stream, inbox, load)

ViewInv == ViewDB /\ OutOK /\ WorksOK /\ left \in Budget /\ Streaming

\* A step that leaves the tab alone.
LEMMA Beside ==
    ASSUME Streaming, Lasts, UNCHANGED tab
    PROVE  Streaming'
  <1>1. PICK p, s, b, l : p = page /\ s = stream /\ b = inbox /\ l = load
    OBVIOUS
  <1>2. page' = p /\ stream' = s /\ inbox' = b /\ load' = l /\ TabOK(p, s, b, l)
    BY <1>1 DEF Streaming, tab
  <1> QED BY <1>2, TabMoves DEF Streaming

\* The budget.
LEMMA Spends ==
    ASSUME left \in Budget, NEW x, May(x) \/ Trouble(x)
    PROVE  left' \in Budget
  <1>1. left.asks \in Nat /\ left.troubles \in Nat
    BY DEF Budget
  <1>2. CASE May(x)
    <2>1. PICK n : n = left.asks - 1
      OBVIOUS
    <2>2. n \in Nat
      BY <1>1, <1>2, <2>1 DEF May
    <2>3. left' = [left EXCEPT !.asks = n]
      BY <1>2, <2>1 DEF May
    <2> QED BY <2>2, <2>3 DEF Budget
  <1>3. CASE Trouble(x)
    <2>1. PICK n : n = left.troubles - 1
      OBVIOUS
    <2>2. n \in Nat
      BY <1>1, <1>3, <2>1 DEF Trouble
    <2>3. left' = [left EXCEPT !.troubles = n]
      BY <1>3, <2>1 DEF Trouble
    <2> QED BY <2>2, <2>3 DEF Budget
  <1> QED BY <1>2, <1>3

LEMMA DriftKeeps == ASSUME ViewInv, Drift PROVE ViewInv'
  <1>1. batch' = [batch EXCEPT !.wants = TRUE] /\ left' = [left EXCEPT !.drifts = FALSE]
        /\ UNCHANGED <<run, work, out, over, tab>>
    BY DEF Drift
  <1>2. batch' \in Batch /\ batch'.status = batch.status /\ batch'.value = batch.value
    BY <1>1 DEF ViewInv, ViewDB, Batch
  <1>3. ViewDB' /\ WorksOK'
    BY <1>1, <1>2, SameDB, WorksLast DEF ViewInv
  <1>4. OutOK' /\ Lasts
    BY <1>1, <1>2 DEF ViewInv, OutOK, WordOK, Lasts
  <1>5. left' \in Budget
    BY <1>1 DEF ViewInv, Budget
  <1> QED BY <1>1, <1>3, <1>4, <1>5, Beside DEF ViewInv

LEMMA RunMovesKeep ==
    ASSUME ViewInv, NEW r \in Runs, NEW s \in RunStatus, RunMoves(r, s)
    PROVE  ViewInv'
  <1>1. /\ run' = [run EXCEPT ![r] = s] /\ UNCHANGED <<batch, work, out, over, tab, left>>
        /\ run[r] \in NON_TERMINAL
    BY DEF RunMoves, NON_TERMINAL
  <1>2. run' \in [Runs -> RunStatus \cup {None}] /\ \A q \in Runs : run'[q] = IF q = r THEN s ELSE run[q]
    BY <1>1 DEF ViewInv, ViewDB
  <1>3. \A q \in Runs : run'[q] # None <=> run[q] # None
    BY <1>1, <1>2, NonesApart DEF RunStatus
  <1>4. /\ \A i \in Rows : UpTo(attempts_by_row(i))'
        /\ \A i \in Rows : LatestRun(i)' = LatestRun(i)
    <2>1. \A q \in Runs : run'[q] # None <=> run[q] # None \/ (None # None /\ q = NextRun(None))
      BY <1>3
    <2> QED BY <2>1, AttemptsStep, NonesApart DEF ViewInv
  <1>5. \A q \in Runs : run'[q] \in NON_TERMINAL => run[q] \in NON_TERMINAL
    BY <1>1, <1>2
  <1>6. ASSUME NEW q \in Runs, run'[q] \in NON_TERMINAL
        PROVE  q[1] \in over' \/ (batch'.status[q[1]] = "running" /\ LatestRun(q[1])' = q)
    <2>1. run[q] \in NON_TERMINAL /\ q[1] \in Rows
      BY <1>5, <1>6 DEF Runs
    <2> QED BY <1>1, <1>4, <2>1 DEF ViewInv, ViewDB
  <1>7. ViewDB'
    BY <1>1, <1>2, <1>4, <1>6 DEF ViewInv, ViewDB
  <1>8. Lasts
    BY <1>1, <1>3 DEF Lasts
  <1>9. OutOK'
    BY <1>1, <1>8, WordLasts DEF ViewInv, OutOK
  <1>10. WorksOK'
    BY <1>1, <1>3, <1>5, WorksLast DEF ViewInv
  <1> QED BY <1>1, <1>7, <1>8, <1>9, <1>10, Beside DEF ViewInv

LEMMA AdvanceKeeps == ASSUME ViewInv, Advance PROVE ViewInv'
  <1>1. Settles /\ UNCHANGED tab /\ left' = left
    BY CallSettles DEF ViewInv, Sound, Advance, Emitters
  <1> QED BY <1>1, Beside DEF ViewInv, Settles

LEMMA ElsewhereKeeps ==
    ASSUME ViewInv, NEW op \in Op, NEW i \in Rows, Elsewhere(op, i)
    PROVE  ViewInv'
  <1>1. Settles /\ UNCHANGED tab
    <2>1. CASE fill_batch_rows(Unfilled)
      <3> PICK read : read = Unfilled
        OBVIOUS
      <3> QED BY <2>1, FillSettles DEF ViewInv, Sound, Elsewhere
    <2>2. CASE op \in {"skip", "rerun", "cancel"} /\ Accepts(op, i) /\ Call("other", op, i)
      BY <2>2, CallSettles DEF ViewInv, Sound, Elsewhere, Emitters
    <2> QED BY <2>1, <2>2 DEF Elsewhere
  <1>2. left' \in Budget
    BY Spends DEF ViewInv, Elsewhere
  <1> QED BY <1>1, <1>2, Beside DEF ViewInv, Settles

LEMMA WorkKeeps ==
    ASSUME ViewInv, NEW e \in Emitters, Resolve(e) \/ Commits(e)
    PROVE  ViewInv'
  <1>1. Settles
    BY ResolveSettles, CommitSettles DEF ViewInv, Sound
  <1>2. UNCHANGED tab /\ left' = left
    BY DEF Resolve, Commits
  <1> QED BY <1>1, <1>2, Beside DEF ViewInv, Settles

LEMMA UnsaidKeeps ==
    ASSUME ViewInv, NEW e \in Emitters, Unsaid(e)
    PROVE  ViewInv'
  <1>1. UNCHANGED <<batch, run, over>> /\ UNCHANGED tab
    BY DEF Unsaid
  <1>2. OutOK'
    <2>1. PICK S : S = {}
      OBVIOUS
    <2>2. out' = [out EXCEPT ![e] = S] /\ S \subseteq out[e]
      BY <2>1 DEF Unsaid
    <2> QED BY <1>1, <2>2, Unsaying DEF ViewInv
  <1>3. left' \in Budget
    BY Spends DEF ViewInv, Unsaid
  <1>4. Settles
    <2>1. PICK w : w = Done(e, "refused")
      OBVIOUS
    <2>2. WorkOK(w)
      BY <2>1, DoneOK DEF Stages
    <2>3. work' = [work EXCEPT ![e] = w]
      BY <2>1 DEF Unsaid
    <2> QED BY <1>1, <1>2, <2>2, <2>3, WorkSettles DEF ViewInv, Sound
  <1> QED BY <1>1, <1>3, <1>4, Beside DEF ViewInv, Settles

LEMMA PublishKeeps ==
    ASSUME ViewInv, NEW e \in Emitters, Publish(e)
    PROVE  ViewInv'
  <1>1. UNCHANGED <<batch, run, work, over, page, stream, load, left>>
    BY DEF Publish
  <1>2. PICK w \in out[e] : /\ out' = [out EXCEPT ![e] = @ \ {w}]
                            /\ inbox' = IF stream = "open" THEN Append(inbox, w) ELSE inbox
    BY DEF Publish
  <1>3. OutOK'
    <2>1. PICK S : S = out[e] \ {w}
      OBVIOUS
    <2>2. out' = [out EXCEPT ![e] = S] /\ S \subseteq out[e]
      BY <1>2, <2>1
    <2> QED BY <1>1, <2>2, Unsaying DEF ViewInv
  <1>4. ViewDB' /\ WorksOK'
    <2>1. UNCHANGED <<batch, run, over>> /\ work' = work
      BY <1>1
    <2> QED BY <2>1, UntouchedDB, WorksLast DEF ViewInv
  <1>5. PICK p, s, l : p = page /\ s = stream /\ l = load
    OBVIOUS
  <1>6. PICK b : b = inbox'
    OBVIOUS
  <1>7. WordOK(w) /\ w \in BatchEvent /\ WordsOK(inbox)
    BY DEF ViewInv, OutOK, WordOK, Streaming, TabOK, StreamOK
  <1>8. WordsOK(Append(inbox, w))
    <2>1. inbox \in Seq(BatchEvent)
      BY <1>7 DEF WordsOK
    <2>2. Append(inbox, w) \in Seq(BatchEvent)
      BY <1>7, <2>1
    <2>3. \A k \in DOMAIN Append(inbox, w) :
          (k \in DOMAIN inbox /\ Append(inbox, w)[k] = inbox[k]) \/ Append(inbox, w)[k] = w
      BY <2>1
    <2> QED BY <1>7, <2>2, <2>3 DEF WordsOK
  <1>9. StreamOK(p, s, b)
    BY <1>2, <1>5, <1>6, <1>7, <1>8 DEF ViewInv, Streaming, TabOK, StreamOK
  <1>10. TabOK(p, s, b, l)
    BY <1>5, <1>9 DEF ViewInv, Streaming, TabOK
  <1>11. Streaming'
    BY <1>1, <1>5, <1>6, <1>10, SameLasts, TabMoves DEF Streaming
  <1> QED BY <1>1, <1>3, <1>4, <1>11 DEF ViewInv

\* The answer of a request: a fill leaves no queued row without a value.
LEMMA AnswerKeeps ==
    ASSUME ViewInv, page.ask # None, NEW a \in {"ok", "refused"}, Answer(a), Settles, left' \in Budget,
           a = "ok" /\ page.ask.op = "fill" => FilledDB', UNCHANGED <<stream, inbox, load>>
    PROVE  ViewInv'
  <1>0. PageOK(page) /\ WordsOK(inbox) /\ LoadOK(page, load) /\ StreamOK(page, stream, inbox)
    BY DEF ViewInv, Streaming, TabOK, StreamOK
  <1>1. page.ask \in Mutation
    BY <1>0 DEF PageOK, Page
  <1>5. PICK q : q = [page.ask EXCEPT !.answer = a]
    OBVIOUS
  <1>6. q \in Mutation /\ q.op = page.ask.op /\ q.read = page.ask.read /\ q.answer = a
    BY <1>1, <1>5 DEF Mutation
  <1>7. PICK p : p = [page EXCEPT !.ask = q]
    OBVIOUS
  <1>8. /\ p \in Page /\ p.shot = page.shot /\ p.cached = page.cached /\ p.error = page.error
        /\ p.filled = page.filled /\ p.ask = q /\ p.ask # None
    BY <1>0, <1>1, <1>6, <1>7, RequestIs
  <1>9. PICK p0, b, s, l : p0 = page /\ b = inbox /\ s = stream /\ l = load
    OBVIOUS
  <1>10. page' = p /\ stream' = s /\ inbox' = b /\ load' = l
    BY <1>5, <1>7, <1>9 DEF Answer
  <1>11. Lasts
    BY DEF Settles
  <1>12. PageOK(p0)' /\ WordsOK(b)' /\ LoadOK(p0, l)'
    BY <1>0, <1>9, <1>11, PageLasts, WordsLast, LoadLasts
  <1>13. PageOK(p)'
    <2>1. /\ p.shot = p0.shot /\ p.cached = p0.cached /\ p.error = p0.error /\ p.filled = p0.filled
          /\ p.ask.op = p0.ask.op /\ p.ask.read = p0.ask.read /\ p.ask.answer = a /\ p0.ask # None
          /\ p.ask.op = page.ask.op
      BY <1>6, <1>8, <1>9
    <2> QED BY <1>8, <1>12, <2>1 DEF PageOK
  <1>14. StreamOK(p, s, b)' /\ LoadOK(p, l)'
    BY <1>0, <1>8, <1>9, <1>12 DEF StreamOK, LoadOK
  <1>15. Streaming'
    BY <1>10, <1>13, <1>14 DEF Streaming, TabOK, PageOK, StreamOK, LoadOK, WordsOK
  <1> QED BY <1>15 DEF ViewInv, Settles

LEMMA ServeKeeps == ASSUME ViewInv, Serve PROVE ViewInv'
  <1>1. page.ask # None /\ PageOK(page) /\ UNCHANGED <<stream, inbox, load>>
    BY DEF Serve, ViewInv, Streaming, TabOK
  <1>2. PICK op, i : op = page.ask.op /\ i = page.ask.row
    OBVIOUS
  <1>3. op \in Op /\ i \in Rows
    BY <1>1, <1>2 DEF PageOK, Page, Mutation
  <1>4. UNCHANGED server => Settles
    BY StillSettles DEF ViewInv, Sound
  <1>5. CASE op = "fill" /\ page.ask.read # None /\ fill_batch_rows(page.ask.read) /\ Answer("ok") /\ UNCHANGED left
    <2>1. PICK read : read = page.ask.read
      OBVIOUS
    <2>2. Settles /\ \A j \in Rows : batch'.value[j] <=> batch.value[j] \/ j \in read
      BY <1>5, <2>1, FillSettles DEF ViewInv, Sound
    <2>3. \A j \in Rows : batch.status[j] = "queued" /\ ~batch.value[j] => j \in read
      BY <1>1, <1>2, <1>5, <2>1 DEF PageOK
    <2>4. FilledDB'
      BY <2>2, <2>3 DEF FilledDB, Settles, Lasts
    <2>5. left' \in Budget
      BY <1>5 DEF ViewInv
    <2> QED BY <1>1, <1>5, <2>2, <2>4, <2>5, AnswerKeeps
  <1>6. CASE op \in {"skip", "rerun", "cancel"} /\ Accepts(op, i) /\ Call("page", op, i) /\ UNCHANGED <<page, left>>
    <2>1. Settles
      BY <1>3, <1>6, CallSettles DEF ViewInv, Sound, Emitters
    <2>2. UNCHANGED tab
      BY <1>1, <1>6 DEF tab
    <2> QED BY <1>6, <2>1, <2>2, Beside DEF ViewInv, Settles
  <1>7. CASE op = "take" /\ Answer("ok") /\ UNCHANGED <<server, left>>
    <2>1. left' \in Budget /\ page.ask.op # "fill"
      BY <1>2, <1>7 DEF ViewInv
    <2> QED BY <1>1, <1>4, <1>7, <2>1, AnswerKeeps
  <1>8. CASE Answer("refused") /\ UNCHANGED <<server, left>>
    <2>1. left' \in Budget
      BY <1>8 DEF ViewInv
    <2> QED BY <1>1, <1>4, <1>8, <2>1, AnswerKeeps
  <1>9. CASE Trouble("answer") /\ Answer("refused") /\ UNCHANGED server
    <2>1. left' \in Budget
      BY <1>9, Spends DEF ViewInv
    <2> QED BY <1>1, <1>4, <1>9, <2>1, AnswerKeeps
  <1> QED BY <1>2, <1>5, <1>6, <1>7, <1>8, <1>9 DEF Serve

LEMMA ReplyKeeps == ASSUME ViewInv, Reply PROVE ViewInv'
  <1> PICK w : w = Rests("idle")
    OBVIOUS
  <1>1. /\ page.ask # None /\ page.ask.op # "fill" /\ UNCHANGED <<stream, inbox, load>>
        /\ work' = [work EXCEPT !["page"] = w] /\ UNCHANGED <<batch, run, out, over>> /\ left' = left
    BY DEF Reply
  <1>2. PICK a \in {"ok", "refused"} : Answer(a)
    BY DEF Reply
  <1>3. WorkOK(w)
    BY Resting DEF Stages
  <1>4. OutOK'
    BY <1>1 DEF ViewInv, OutOK, WordOK
  <1>5. Settles
    BY <1>1, <1>3, <1>4, WorkSettles DEF ViewInv, Sound, Emitters
  <1>6. left' \in Budget
    BY <1>1 DEF ViewInv
  <1> QED BY <1>1, <1>2, <1>5, <1>6, AnswerKeeps

LEMMA LoseAnswerKeeps == ASSUME ViewInv, LoseAnswer PROVE ViewInv'
  <1>1. /\ page.ask # None /\ UNCHANGED <<stream, inbox, load>> /\ UNCHANGED server
        /\ Answer("refused")
    BY DEF LoseAnswer
  <1>2. Settles
    BY <1>1, StillSettles DEF ViewInv, Sound
  <1>3. left' \in Budget
    BY Spends DEF ViewInv, LoseAnswer
  <1> QED BY <1>1, <1>2, <1>3, AnswerKeeps

-----------------------------------------------------------------------------
(* The invariant.                                                          *)

LEMMA Within ==
    ASSUME ViewInv, UNCHANGED server, left' \in Budget, Streaming'
    PROVE  ViewInv'
  <1>1. Settles
    BY StillSettles DEF ViewInv, Sound
  <1> QED BY <1>1 DEF ViewInv, Settles

LEMMA ViewStarts == ASSUME ViewInit PROVE ViewInv
  <1>1. NRows \in Nat /\ MaxAttempts \in Nat \ {0} /\ Budgets \subseteq Budget
    BY BatchViewAssumption
  <1>2. batch = [cancelled |-> FALSE, status |-> [i \in Rows |-> IF i = 0 THEN "running" ELSE "queued"],
                 value |-> [i \in Rows |-> FALSE], wants |-> FALSE, stopping |-> {}]
    BY DEF ViewInit
  <1>3. batch \in Batch /\ \A i \in Rows : batch.status[i] = IF i = 0 THEN "running" ELSE "queued"
    <2> DEFINE s == [i \in Rows |-> IF i = 0 THEN "running" ELSE "queued"]
               v == [i \in Rows |-> FALSE]
    <2>1. s \in [Rows -> BatchRowStatus] /\ v \in [Rows -> BOOLEAN]
      BY DEF BatchRowStatus
    <2>2. \A i \in Rows : s[i] = IF i = 0 THEN "running" ELSE "queued"
      OBVIOUS
    <2>3. batch = [cancelled |-> FALSE, status |-> s, value |-> v, wants |-> FALSE, stopping |-> {}]
      BY <1>2
    <2> HIDE DEF s, v
    <2> QED BY <2>1, <2>2, <2>3 DEF Batch
  <1>4. run \in [Runs -> RunStatus \cup {None}] /\ \A r \in Runs : run[r] = IF r = <<0, 1>> THEN "queued" ELSE None
    BY DEF ViewInit, RunStatus, NON_TERMINAL
  <1>5. \A i \in Rows : attempts_by_row(i) = IF i = 0 THEN 1 .. 1 ELSE 1 .. 0
    <2>1. ASSUME NEW i \in Rows PROVE attempts_by_row(i) = IF i = 0 THEN 1 .. 1 ELSE 1 .. 0
      <3>1. \A k \in 1 .. MaxAttempts : run[<<i, k>>] # None <=> i = 0 /\ k = 1
        <4>1. \A k \in 1 .. MaxAttempts : <<i, k>> \in Runs /\ (<<i, k>> = <<0, 1>> <=> i = 0 /\ k = 1)
          BY DEF Runs
        <4> QED BY <1>4, <4>1, NonesApart DEF RunStatus, NON_TERMINAL
      <3>2. attempts_by_row(i) = {k \in 1 .. MaxAttempts : i = 0 /\ k = 1}
        BY <3>1 DEF attempts_by_row
      <3> QED BY <1>1, <3>2
    <2> QED BY <2>1
  <1>6. \A i \in Rows : UpTo(attempts_by_row(i))
    <2>1. 0 \in 0 .. MaxAttempts /\ 1 \in 0 .. MaxAttempts
      BY <1>1
    <2> QED BY <1>5, <2>1 DEF UpTo
  <1>7. \A i \in Rows : i = 0 => LatestRun(i) = <<0, 1>>
    <2>1. Max(1 .. 1) = 1 /\ 1 .. 1 # {}
      <3>1. 1 \in 1 .. 1 /\ \A y \in 1 .. 1 : 1 >= y
        OBVIOUS
      <3>2. \A x \in 1 .. 1 : (\A y \in 1 .. 1 : x >= y) => x = 1
        OBVIOUS
      <3> QED BY <3>1, <3>2 DEF Max
    <2> QED BY <1>5, <2>1 DEF LatestRun
  <1>8. ASSUME NEW r \in Runs, run[r] \in NON_TERMINAL
        PROVE  batch.status[r[1]] = "running" /\ LatestRun(r[1]) = r
    <2>1. r = <<0, 1>>
      BY <1>4, <1>8, NonesApart DEF NON_TERMINAL, RunStatus
    <2>2. r[1] \in Rows /\ r[1] = 0
      BY <2>1 DEF Runs
    <2> QED BY <1>3, <1>7, <2>1, <2>2
  <1>9. \A i \in Rows : batch.status[i] = "running" => LatestRun(i) # None
    <2>1. \A i \in Rows : batch.status[i] = "running" => i = 0
      BY <1>3
    <2>2. \A i \in Rows : i = 0 => <<0, 1>> \in Runs
      BY <1>1 DEF Runs
    <2> QED BY <1>7, <2>1, <2>2, NonesApart
  <1>10. ViewDB
    BY <1>3, <1>4, <1>6, <1>8, <1>9 DEF ViewDB, ViewInit
  <1>11. OutOK /\ WorksOK
    <2>1. PICK w : w = Rests("idle")
      OBVIOUS
    <2>2. WorkOK(w) /\ w \in Work
      BY <2>1, Resting DEF Stages, WorkOK
    <2>3. work = [e \in Emitters |-> w]
      BY <2>1 DEF ViewInit
    <2> QED BY <2>2, <2>3 DEF ViewInit, OutOK, WorksOK
  <1>12. left \in Budget
    BY <1>1 DEF ViewInit
  <1>13. PageOK(page) /\ page.shot = None
    <2>1. page = [shot |-> None, cached |-> None, error |-> FALSE,
                  seen |-> [r \in Runs |-> None], knows |-> FALSE, dismissed |-> FALSE,
                  filled |-> FALSE, gone |-> FALSE, ask |-> None]
      BY DEF ViewInit
    <2>2. PICK f : f = [r \in Runs |-> None]
      OBVIOUS
    <2>3. f \in [Runs -> RunStatus \cup {None}]
      BY <2>2
    <2>4. page \in Page /\ page.shot = None /\ page.cached = None /\ page.ask = None /\ page.filled = FALSE
      BY <2>1, <2>2, <2>3 DEF Page
    <2> QED BY <2>4 DEF PageOK
  <1>14. StreamOK(page, stream, inbox)
    BY DEF ViewInit, StreamOK, WordsOK, Streams
  <1>15. LoadOK(page, load)
    <2>1. load = [by |-> {}, got |-> None, full |-> FALSE]
      BY DEF ViewInit, Fetch
    <2>2. load \in Load /\ load.by = {} /\ load.got = None /\ load.full = FALSE
      BY <2>1 DEF Load
    <2> QED BY <1>13, <2>2 DEF LoadOK
  <1> QED BY <1>10, <1>11, <1>12, <1>13, <1>14, <1>15 DEF ViewInv, Streaming, TabOK

LEMMA ViewStep == ASSUME ViewInv, ViewNext PROVE ViewInv'
  <1>0. ViewDB /\ left \in Budget /\ TabOK(page, stream, inbox, load)
    BY DEF ViewInv, Streaming
  <1>1. CASE Advance
    BY <1>1, AdvanceKeeps
  <1>2. CASE Drift
    BY <1>2, DriftKeeps
  <1>3. ASSUME NEW op \in Op, NEW i \in Rows, Elsewhere(op, i) PROVE ViewInv'
    BY <1>3, ElsewhereKeeps
  <1>4. ASSUME NEW op \in Op, NEW i \in Rows, Click(op, i) PROVE ViewInv'
    <2>1. UNCHANGED server /\ left' \in Budget
      BY <1>0, <1>4, Spends DEF Click
    <2> QED BY <1>0, <1>4, <2>1, ClickKeeps, Within DEF Streaming
  <1>5. ASSUME NEW r \in Runs, NEW s \in RunStatus, RunMoves(r, s) PROVE ViewInv'
    BY <1>5, RunMovesKeep
  <1>6. ASSUME NEW e \in Emitters, Resolve(e) \/ Commits(e) \/ Publish(e) \/ Unsaid(e) PROVE ViewInv'
    BY <1>6, WorkKeeps, PublishKeeps, UnsaidKeeps
  <1>7. CASE LoadRows
    <2>1. UNCHANGED <<server, left>>
      BY <1>7 DEF LoadRows
    <2> QED BY <1>0, <1>7, <2>1, LoadRowsKeeps, Within DEF Streaming
  <1>8. CASE LoadAttempts
    <2>1. UNCHANGED <<server, left>>
      BY <1>8 DEF LoadAttempts
    <2> QED BY <1>0, <1>8, <2>1, LoadAttemptsKeeps, Within DEF Streaming
  <1>9. CASE LoadDone
    <2>1. UNCHANGED <<server, left>>
      BY <1>9 DEF LoadDone
    <2> QED BY <1>0, <1>9, <2>1, LoadDoneKeeps, Within DEF Streaming
  <1>10. CASE LoadFails
    <2>1. UNCHANGED server /\ left' \in Budget
      BY <1>0, <1>10, Spends DEF LoadFails
    <2> QED BY <1>0, <1>10, <2>1, LoadFailsKeeps, Within DEF Streaming
  <1>11. CASE Learn
    <2>1. UNCHANGED <<server, left>>
      BY <1>11 DEF Learn
    <2> QED BY <1>0, <1>11, <2>1, LearnKeeps, Within DEF Streaming
  <1>12. CASE LoadRun
    <2>1. UNCHANGED <<server, left>>
      BY <1>12 DEF LoadRun
    <2> QED BY <1>0, <1>12, <2>1, LoadRunKeeps, Within DEF Streaming
  <1>13. CASE Subscribe \/ Reconnect \/ Wake
    <2>1. UNCHANGED <<server, left>>
      BY <1>13 DEF Subscribe, Reconnect, Wake
    <2> QED BY <1>0, <1>13, <2>1, ListensKeeps, Within DEF Streaming
  <1>14. CASE Break
    <2>1. UNCHANGED server /\ left' \in Budget
      BY <1>0, <1>14, Spends DEF Break
    <2> QED BY <1>0, <1>14, <2>1, ListensKeeps, Within DEF Streaming
  <1>15. CASE Receive
    <2>1. UNCHANGED <<server, left>>
      BY <1>15 DEF Receive
    <2> QED BY <1>0, <1>15, <2>1, ReceiveKeeps, Within DEF Streaming
  <1>16. CASE Dismiss
    <2>1. UNCHANGED <<server, left>>
      BY <1>16 DEF Dismiss
    <2> QED BY <1>0, <1>16, <2>1, DismissKeeps, Within DEF Streaming
  <1>17. CASE ReadFill
    <2>1. UNCHANGED <<server, left>>
      BY <1>17 DEF ReadFill
    <2> QED BY <1>0, <1>17, <2>1, ReadFillKeeps, Within DEF Streaming
  <1>18. CASE Serve \/ Reply \/ LoseAnswer
    BY <1>18, ServeKeeps, ReplyKeeps, LoseAnswerKeeps
  <1>19. CASE Answered
    <2>1. UNCHANGED <<server, left>>
      BY <1>19 DEF Answered
    <2> QED BY <1>0, <1>19, <2>1, AnsweredKeeps, Within DEF Streaming
  <1> QED BY <1>1, <1>2, <1>3, <1>4, <1>5, <1>6, <1>7, <1>8, <1>9, <1>10, <1>11, <1>12, <1>13,
             <1>14, <1>15, <1>16, <1>17, <1>18, <1>19 DEF ViewNext, Loading, Listening

LEMMA ViewStutter == ASSUME ViewInv, UNCHANGED viewVars PROVE ViewInv'
  <1>1. UNCHANGED <<server, left>> /\ UNCHANGED tab
    BY DEF viewVars
  <1>2. UNCHANGED <<batch, run, over>>
    BY <1>1 DEF server
  <1>3. Streaming'
    BY <1>1, <1>2, SameLasts, Beside DEF ViewInv
  <1> QED BY <1>1, <1>3, Within DEF ViewInv

-----------------------------------------------------------------------------
(* What the page shows.                                                    *)

LEMMA ShownIsTrue == ASSUME ViewInv PROVE DoneIsTrue
  BY DEF ViewInv, Streaming, TabOK, PageOK, SnapOK, RowShown, DoneIsTrue, Final

LEMMA ShownIsReal == ASSUME ViewInv PROVE AttemptsReal
  <1> SUFFICES ASSUME page.shot # None, NEW i \in Rows
               PROVE  LET rec == page.shot.rows[i]
                          ids == {rec.runs[k].id : k \in DOMAIN rec.runs}
                      IN  /\ Cardinality(ids) = Len(rec.runs)
                          /\ \A r \in ids : r[1] = i /\ run[r] # None
                          /\ rec.latest # None => rec.latest \in ids
    BY DEF AttemptsReal
  <1> DEFINE rec == page.shot.rows[i]
             ids == {rec.runs[k].id : k \in DOMAIN rec.runs}
             n == Len(rec.runs)
             f == [k \in 1 .. n |-> rec.runs[k].id]
  <1>1. RowShown(i, rec)
    BY DEF ViewInv, Streaming, TabOK, PageOK, SnapOK
  <1>2. rec.runs \in Seq(AttemptRecord) /\ n \in Nat /\ DOMAIN rec.runs = 1 .. n
    <2>1. rec.runs \in Seq(AttemptRecord)
      BY <1>1 DEF RowShown, BatchRowRecord
    <2> QED BY <2>1
  <1>3. f \in Surjection(1 .. n, ids)
    BY <1>2 DEF Surjection
  <1>4. f \in Injection(1 .. n, ids)
    <2>1. \A k, l \in DOMAIN rec.runs : rec.runs[k].id = rec.runs[l].id => k = l
      BY <1>1 DEF RowShown
    <2>2. \A k, l \in 1 .. n : f[k] = f[l] => k = l
      BY <1>2, <2>1
    <2>3. f \in [1 .. n -> ids]
      BY <1>2
    <2> HIDE DEF f, ids
    <2> QED BY <2>2, <2>3 DEF Injection, IsInjective
  <1>5. IsFiniteSet(1 .. n) /\ Cardinality(1 .. n) = n
    <2>1. n \in Nat
      BY <1>2
    <2> HIDE DEF n
    <2> QED BY <2>1, FS_Interval
  <1> HIDE DEF f, n
  <1>6. Cardinality(ids) = n
    BY <1>3, <1>4, <1>5, FS_Surjection
  <1>7. /\ \A r \in ids : r[1] = i /\ run[r] # None
        /\ rec.latest # None => rec.latest \in ids
    BY <1>1 DEF RowShown
  <1> QED BY <1>6, <1>7 DEF n

LEMMA ShownAgrees == ASSUME ViewInv PROVE HeaderAgrees
  <1> SUFFICES ASSUME page.shot # None
               PROVE  StatsHeader(page.shot).numbers = StatsHeader(page.shot).bar
    BY DEF HeaderAgrees
  <1> DEFINE At(S) == {i \in Rows : page.shot.rows[i].status \in S}
             Of(S) == Cardinality(At(S))
             stats == page.shot.stats
  <1>1. SnapOK(page.shot)
    BY DEF ViewInv, Streaming, TabOK, PageOK
  <1>2. \A s \in BatchRowStatus : stats[s] = Of({s})
    <2>1. \A s : {i \in Rows : page.shot.rows[i].status = s} = At({s})
      OBVIOUS
    <2>2. stats = statsFromRows(page.shot.rows)
      BY <1>1 DEF SnapOK
    <2> HIDE DEF At
    <2> QED BY <2>1, <2>2 DEF statsFromRows
  <1>3. Of({"skipped", "cancelled"}) = Of({"skipped"}) + Of({"cancelled"})
    <2>1. IsFiniteSet(Rows)
      <3>1. NRows \in Nat
        BY NonesApart
      <3> QED BY <3>1, FS_Interval DEF Rows
    <2>2. \A S : IsFiniteSet(At(S)) /\ Of(S) \in Nat
      <3>1. \A S : At(S) \subseteq Rows
        OBVIOUS
      <3> HIDE DEF At
      <3> QED BY <2>1, <3>1, FS_Subset, FS_CardinalityType
    <2>3. /\ At({"skipped", "cancelled"}) = At({"skipped"}) \cup At({"cancelled"})
          /\ At({"skipped"}) \cap At({"cancelled"}) = {}
      OBVIOUS
    <2> HIDE DEF At
    <2>4. Of({"skipped", "cancelled"}) = Of({"skipped"}) + Of({"cancelled"}) - Cardinality({})
      BY <2>2, <2>3, FS_Union
    <2> QED BY <2>2, <2>4, FS_EmptySet
  <1>4. statsView(page.shot) =
          [succeeded |-> Of({"succeeded"}), failed |-> Of({"failed"}), queued |-> Of({"queued"}),
           skipped |-> Of({"skipped", "cancelled"}), running |-> Of({"running"})]
    BY DEF statsView
  <1> HIDE DEF Of, stats
  <1>5. progressSegments(stats) =
          [succeeded |-> Of({"succeeded"}), failed |-> Of({"failed"}), queued |-> Of({"queued"}),
           skipped |-> Of({"skipped", "cancelled"}), running |-> Of({"running"})]
    BY <1>2, <1>3 DEF progressSegments, BatchRowStatus
  <1> QED BY <1>4, <1>5 DEF StatsHeader, stats

LEMMA ShownIsFilled == ASSUME ViewInv PROVE BannerClears
  BY DEF ViewInv, Streaming, TabOK, PageOK, BannerClears, Screen, runningDriftBanner, Good

(* What the page of a Batch shows is true, for any Batch and any order of  *)
(* reads, commits, events, loads, breaks and answers: rows shown as done   *)
(* are done, but for rows that a transaction wrote after another had       *)
(* written them since it read them (reflect_running_rows, cancel_batch,    *)
(* skip_batch_row); attempts are the Runs there are (applyRow,             *)
(* attempts_by_row), header and bar agree (statsFromRows), and the banner  *)
(* stays away after a fill (applyQueuedFill, fill_batch_rows).             *)
THEOREM RowsAreTrue == ViewSpec => []RowsTrue
  <1>1. ViewInit => ViewInv
    BY ViewStarts
  <1>2. ViewInv /\ [ViewNext]_viewVars => ViewInv'
    BY ViewStep, ViewStutter
  <1>3. ViewInv => RowsTrue
    <2>1. ViewInv => ViewTypeOK
      BY DEF ViewInv, ViewDB, OutOK, WorksOK, Streaming, TabOK, PageOK, StreamOK, LoadOK, WordsOK, Streams, ViewTypeOK
    <2> QED BY <2>1, ShownIsTrue, ShownIsReal, ShownAgrees, ShownIsFilled DEF RowsTrue
  <1> QED BY <1>1, <1>2, <1>3, PTL DEF ViewSpec
=============================================================================

----------------------------- MODULE RunPromise -----------------------------
(***************************************************************************)
(* What the Run tables promise a reader, without Workers' inner steps, the *)
(* dispatch list, crashes or requests: the order of a Run's phases         *)
(* (docs/ARCHITECTURE.md, "queued -> running <-> waiting_for_human ->      *)
(* succeeded | failed | cancelled") and that a Run is handed to one Worker *)
(* and never retried on another.  The three terminal statuses are the one  *)
(* phase "ended".                                                          *)
(***************************************************************************)
CONSTANTS Runs, Workers, None

VARIABLES
    phase,   \* [Runs -> phase of the Run's row]
    owner    \* [Runs -> worker_id]

vars == <<phase, owner>>

Open == {"queued", "running", "waiting_for_human"}

Moves(r, from, to) ==
    /\ phase[r] \in from
    /\ phase' = [phase EXCEPT ![r] = to]

Init ==
    /\ phase = [r \in Runs |-> "absent"]
    /\ owner = [r \in Runs |-> None]

Start(r) == Moves(r, {"absent"}, "queued") /\ UNCHANGED owner

Claim(r, w) ==
    /\ Moves(r, {"queued"}, "running")
    /\ owner' = [owner EXCEPT ![r] = w]

Park(r) == Moves(r, {"running"}, "waiting_for_human") /\ UNCHANGED owner

Resume(r) == Moves(r, {"waiting_for_human"}, "running") /\ UNCHANGED owner

\* One tick may end several Runs at once.
End(S) ==
    /\ \A r \in S : phase[r] \in Open
    /\ phase' = [r \in Runs |-> IF r \in S THEN "ended" ELSE phase[r]]
    /\ UNCHANGED owner

Delete(r) ==
    /\ Moves(r, {"ended"}, "deleted")
    /\ owner' = [owner EXCEPT ![r] = None]

Next ==
    \/ \E r \in Runs : Start(r) \/ Park(r) \/ Resume(r) \/ Delete(r)
    \/ \E r \in Runs, w \in Workers : Claim(r, w)
    \/ \E S \in SUBSET Runs : End(S)

Spec == Init /\ [][Next]_vars
=============================================================================

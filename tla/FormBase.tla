----------------------------- MODULE FormBase -----------------------------
(***************************************************************************)
(* What the screens with a value grid share: the Workflow's published      *)
(* Versions, of which each is a list of Variables, and the bounds of a     *)
(* behaviour.                                                              *)
(***************************************************************************)
EXTENDS ValueGrid

CONSTANTS
    Versions,     \* the Variables of Version 1, 2, ..
    Typed,        \* values a person may type
    Budgets       \* bounds of a behaviour, one of these: see Budget

\* A document that declares a Variable twice is refused (duplicate_variable_name).
ASSUME VersionsAssumption ==
    /\ Versions \in Seq(Seq([name : DOMAIN Norm, secret : BOOLEAN])) /\ Versions # <<>>
    /\ \A v \in DOMAIN Versions : \A i, j \in DOMAIN Versions[v] :
         Versions[v][i].name = Versions[v][j].name => i = j

VARIABLES
    published,    \* the number of the latest published Version
    left          \* what is left of the behaviour's budget

(* ops: what may happen; acts: how many acts of a person; troubles: how    *)
(* many requests fail or lose their answer.                                *)
Op == {"publish", "type", "paste", "import", "panel", "copy", "focus", "create",
       "edit", "sentence", "values", "list", "elsewhere", "fire", "run", "signin", "look",
       "manage", "leave", "roles", "offers", "ends"}
Budget == [ops : SUBSET Op, acts : Nat, troubles : Nat]

Act(op) == op \in left.ops /\ left.acts > 0 /\ left' = [left EXCEPT !.acts = @ - 1]
Trouble == left.troubles > 0 /\ left' = [left EXCEPT !.troubles = @ - 1]

BaseTypeOK == published \in 1 .. Len(Versions) /\ left \in Budget
BaseInit == published = 1 /\ left \in Budgets

Declared == Versions[published]

\* Somebody publishes the next Version.
Publish ==
    /\ Act("publish") /\ published < Len(Versions)
    /\ published' = published + 1

\* public_variable_names, stored_variables of the API.
public_variable_names == PlainNames(Declared)
stored_variables(asked) == [n \in DOMAIN asked \cap public_variable_names |-> asked[n]]
-----------------------------------------------------------------------------
(* The cache of queries the screens read through.  A screen that opens     *)
(* shows what is cached and asks again; an invalidation abandons the       *)
(* request under way, once there are data, and sends another.              *)

\* A query: what is cached, the request under way, and a failed one.
Query == [data |-> None, fetch |-> None, error |-> FALSE]
Begin == [read |-> FALSE, got |-> None]
Mount(q) == IF q.fetch = None THEN [q EXCEPT !.fetch = Begin] ELSE q
\* Mutant: an invalidation is content with the request under way.
Joins(q) == Mount(q)
Invalidate(q) == IF q.data = None THEN Mount(q) ELSE [q EXCEPT !.fetch = Begin]
Read(q, data) == [q EXCEPT !.fetch = [read |-> TRUE, got |-> data]]
Arrive(q) == [data |-> q.fetch.got, fetch |-> None, error |-> FALSE]
Fail(q) == [q EXCEPT !.fetch = None, !.error = TRUE]
=============================================================================

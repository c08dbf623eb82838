------------------------------ MODULE MCForms ------------------------------
(* Instances of Forms for TLC: what may happen is split over several       *)
(* budgets, so that their state spaces add up instead of multiplying.      *)
EXTENDS Forms

MCNorm == [t \in {"city", "zip", "token", "City", "cite", "Zip", "Token", "region", "notes"} |->
             CASE t \in {"city", "City"} -> "city"
               [] t \in {"zip", "Zip"} -> "zip"
               [] t \in {"token", "Token"} -> "token"
               [] OTHER -> t]
MCNear == {<<"cite", "city">>, <<"city", "cite">>}

\* Version 2 adds region; Version 3 drops zip and has region in the
\* vault; Version 4 has no Variables.
MCVersions ==
    <<<<Var("city", FALSE), Var("token", TRUE), Var("zip", FALSE)>>,
      <<Var("city", FALSE), Var("token", TRUE), Var("zip", FALSE), Var("region", FALSE)>>,
      <<Var("city", FALSE), Var("token", TRUE), Var("region", TRUE)>>,
      <<>>>>

File(headers, rows) == [headers |-> headers, rows |-> rows]
MCFiles ==
    {File(<<"City", "Token", "zip", "notes">>, <<<<"a", SecretValue, "b", "n">>>>),
     File(<<"cite", "Token", "zip">>, <<<<"a", SecretValue, "b">>, <<"b", SecretValue, "a">>>>),
     File(<<"city", "City", "Zip", "Token">>, <<<<"a", "b", "a", SecretValue>>>>)}

MCTables == {<<<<"a", "x", "b">>, <<"b">>>>}
MCPast == <<[city |-> "a", zip |-> "b"], [city |-> "b"]>>

V1(a, b) == [city |-> a, zip |-> b]
MCSchedules ==
    {None,
     Schedule(Cron(Num(30), Num(9), Star, List(<<5, 1>>)), "zone1", TRUE, V1("a", "b")),
     Schedule([Cron(Num(0), Num(9), Star, Star) EXCEPT !.month = Num(3)], "zone2", TRUE, V1("a", "b"))}

MCCrons == {Cron(Step(7), Star, Star, Star), Cron(Num(5), Num(9), Num(1), Num(1)),
            Cron(Num(0), Num(9), Star, Num(7)), Cron(Num(70), Star, Star, Star),
            Cron(Junk, Star, Star, Star), Cron(Num(0), Num(0), Num(31), Star)}
MCTimes == {<<0, 0>>, <<23, 59>>}

MCRuns == <<[trigger |-> "test", values |-> [city |-> "t", zip |-> "t"]],
            [trigger |-> "manual", values |-> [city |-> "b"]]>>

Bud(ops, acts, troubles) == [ops |-> ops, acts |-> acts, troubles |-> troubles]

MCRoles == [o1 |-> [a |-> "owner", b |-> "member", c |-> None],
            o2 |-> [a |-> None, b |-> "owner", c |-> None],
            o3 |-> [a |-> None, b |-> None, c |-> None]]
MCOrgs == <<"o1", "o2", "o3">>
MCInvites == <<[org |-> "o2", to |-> "a", role |-> "admin", stands |-> TRUE]>>

\* A Batch typed or pasted, imported, copied, and one whose Workflow moves on;
\* a Schedule's recurrence, its values, and its list; Runs started by hand;
\* an account signed in and out of, and Memberships changed here and elsewhere.
MCBudgets ==
    {Bud({"type", "create"}, 4, 1),
     Bud({"paste", "type", "create"}, 3, 0),
     Bud({"import", "panel", "create"}, 4, 0),
     Bud({"copy", "create", "publish", "focus"}, 4, 1),
     Bud({"publish", "focus", "create", "import"}, 4, 1),
     Bud({"edit", "sentence"}, 4, 0),
     Bud({"edit", "values", "publish"}, 5, 1),
     Bud({"edit", "list", "elsewhere"}, 4, 0),
     Bud({"list", "fire"}, 6, 1),
     Bud({"list", "elsewhere"}, 4, 1),
     Bud({"run"}, 6, 0),
     Bud({"run", "publish"}, 5, 1),
     Bud({"signin", "ends"}, 3, 1),
     Bud({"signin", "leave"}, 4, 1),
     Bud({"signin", "look"}, 4, 1),
     Bud({"signin", "offers"}, 3, 0),
     Bud({"roles"}, 3, 0),
     Bud({"manage", "roles"}, 2, 0),
     Bud({"manage", "offers"}, 2, 0),
     Bud({"manage", "look"}, 2, 1),
     Bud({"look", "roles"}, 2, 0),
     Bud({"manage", "leave", "ends"}, 2, 1)}
=============================================================================

------------------------------ MODULE MCEditor ------------------------------
(* Small documents, and the edits and races one behaviour may hold.        *)
EXTENDS Editor

Going(id, value) == [blankStep("navigate", id) EXCEPT !.value = value]
Using(id) == [blankStep("click", id) EXCEPT !.target = <<"css">>]
Known(names) == [i \in DOMAIN names |-> Fresh(names[i], FALSE)]

MCStart ==
    { [steps |-> <<Going("s1", <<"a", Text>>), Using("s2")>>, variables |-> Known(<<"a">>)] }
MCForeign == {[steps |-> <<Using("s2")>>, variables |-> <<>>]}
MCRecorded == [steps |-> <<Going("s1", <<Text>>)>>, variables |-> <<>>]
MCTyped == {<<>>, <<"b">>}

Calm == [tools |-> {}, edits |-> 0, may |-> {}, asks |-> 0, others |-> 0, troubles |-> 0,
         looks |-> 0]

MCBudgets ==
    { [Calm EXCEPT !.tools = {"steps", "form"}, !.edits = 3],
      [Calm EXCEPT !.tools = {"form", "variables"}, !.edits = 2],
      [Calm EXCEPT !.tools = {"variables"}, !.edits = 4],
      [Calm EXCEPT !.tools = {"form"}, !.edits = 1, !.may = {"save"}, !.asks = 1],
      [Calm EXCEPT !.tools = {"variables"}, !.edits = 1, !.may = {"save"}, !.asks = 2,
                   !.others = 1, !.troubles = 1, !.looks = 1],
      [Calm EXCEPT !.may = {"publish"}, !.asks = 1, !.others = 2],
      [Calm EXCEPT !.may = {"publish"}, !.asks = 1, !.troubles = 1],
      [Calm EXCEPT !.tools = {"steps"}, !.edits = 1, !.may = {"restore"}, !.asks = 1,
                   !.others = 2],
      [Calm EXCEPT !.tools = {"steps"}, !.edits = 1, !.may = {"pick", "patch"}, !.asks = 2,
                   !.others = 1],
      [Calm EXCEPT !.may = {"pick", "patch"}, !.asks = 3, !.troubles = 1],
      [Calm EXCEPT !.tools = {"steps"}, !.edits = 1, !.may = {"record", "save"}, !.asks = 2],
      [Calm EXCEPT !.tools = {"variables"}, !.edits = 2, !.may = {"save"}, !.asks = 1],
      [Calm EXCEPT !.tools = {"steps"}, !.edits = 1, !.may = {"test"}, !.asks = 1],
      [Calm EXCEPT !.may = {"test", "remove"}, !.asks = 2, !.others = 1] }
=============================================================================

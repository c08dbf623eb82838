---------------------------- MODULE MCExtension ----------------------------
(* Connecting and recording, each with small budgets of its own.           *)
EXTENDS Extension

Of(ops, few, troubles) == [ops |-> ops, acts |-> few, troubles |-> troubles]

MCBudgets ==
    { Of({"connect", "elsewhere", "tab", "close"}, 2, 1),
      Of({"connect", "code"}, 3, 1),
      Of({"connect", "disconnect", "tab"}, 3, 1),
      Of({"connect", "elsewhere", "disconnect"}, 2, 0),
      Of({"connect", "elsewhere", "focus", "app"}, 2, 0),
      Of({"connect", "disconnect", "focus"}, 2, 0),
      Of({"record", "type", "disconnect"}, 3, 0),
      Of({"record", "press", "redirect"}, 2, 1),
      Of({"record", "press", "move", "type"}, 3, 0),
      Of({"record", "type", "move"}, 4, 0),
      Of({"record", "type", "save"}, 5, 1) }

\* Typed in full, without a scheme, and not an address.
MCAddresses == { [form |-> "url", host |-> "a"], [form |-> "bare", host |-> "b"],
                 [form |-> "junk", host |-> "a"] }

MCVersion == <<1, 2>>
MCMinimum == <<1, 1, 9>>

\* A button with a name, a password whose value nothing else on the page has, a
\* frame of another origin.
MCElements ==
    ( "ok" :> [is |-> "button", role |-> TRUE, unique |-> {"testid", "text"}]
      @@ "pw" :> [is |-> "password", role |-> TRUE, unique |-> {"label", "text"}]
      @@ "frame" :> [is |-> "frame", role |-> FALSE, unique |-> {"css"}] )

MCDeclared == ( "user" :> FALSE @@ "pass" :> TRUE )
=============================================================================

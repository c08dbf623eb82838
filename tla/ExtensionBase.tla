--------------------------- MODULE ExtensionBase ---------------------------
(* What the modules of the extension share: the value of nothing.          *)
CONSTANT None   \* nothing stored, nothing under way, nobody
=============================================================================

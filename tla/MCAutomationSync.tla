--------------------------- MODULE MCAutomationSync ---------------------------
(* Small declarations for TLC: one, its pause (an edit that keeps the      *)
(* trigger), and one with another trigger.                                 *)
EXTENDS AutomationSync

Declared ==
  {[text |-> "a", trigger |-> 1, enabled |-> TRUE],
   [text |-> "a", trigger |-> 1, enabled |-> FALSE],
   [text |-> "b", trigger |-> 2, enabled |-> TRUE]}
=============================================================================

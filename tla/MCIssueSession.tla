--------------------------- MODULE MCIssueSession ---------------------------
(* Two callers, interchangeable, at work on one issue.                       *)
EXTENDS IssueSession, TLC

CONSTANTS a1, a2

Symmetric == Permutations({a1, a2})
=============================================================================

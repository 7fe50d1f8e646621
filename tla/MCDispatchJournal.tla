------------------------- MODULE MCDispatchJournal -------------------------
(* Two transactions, interchangeable, on records of one issue.               *)
EXTENDS DispatchJournal, TLC

CONSTANTS a1, a2, x1, x2, s1

MCIssueOf == [i \in Id |-> s1]

Symmetric == Permutations({a1, a2})
=============================================================================

-------------------------- MODULE MCLoanOrigination --------------------------
(* Small instances of LoanOrigination for TLC.                             *)
EXTENDS LoanOrigination, TLC

CONSTANTS g1, g2, q1, s1, s2

Symmetric == Permutations(Sessions) \cup Permutations(Guarantors)
=============================================================================

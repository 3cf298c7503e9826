----------------------------- MODULE MCLoanBook -----------------------------
(* Small instances of LoanBook for TLC.                                    *)
EXTENDS LoanBook

CONSTANTS s1, s2

AllEntries == Entries

SymmetricSessions == Permutations(Sessions)

\* a third of the balance per month
AThird == Frac(1, 3)
NoInterest == Frac(0, 1)
=============================================================================

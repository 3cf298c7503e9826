------------------------------ MODULE MCSavings ------------------------------
(* Small instances of SavingsSessions for TLC.                             *)
EXTENDS SavingsSessions, TLC

CONSTANTS r1, r2, r3, regular, target

SymmetricRequests == Permutations(Requests)

OneProduct  == [a \in Accounts |-> regular]
TwoProducts == [a \in Accounts |-> IF a = 1 THEN regular ELSE target]

\* minimum balance 1, and 300 percent a year so that a month's interest on
\* a balance of 2 is half a unit and shows the rounding
OneMinimum  == [p \in {ProductOf[a] : a \in Accounts} |-> 1]
HighRate    == [p \in {ProductOf[a] : a \in Accounts} |-> 300]
NoRate      == [p \in {ProductOf[a] : a \in Accounts} |-> 0]

OpeningBalances == [a \in Accounts |-> IF a = 1 THEN 3 ELSE 1]

AllKinds == Kinds
TransferKinds == {"deposit", "withdrawal", "transfer"}
\* Every operation whose rows are all posted to the general ledger, and the
\* transfer, which is not and moves nothing in or out of its product.
GlKinds == {"deposit", "withdrawal", "interest_posting", "interest_run", "transfer"}
=============================================================================

---------------------------- MODULE AtomicSavings ----------------------------
(***************************************************************************)
(* What the savings endpoints promise (SYSTEM_DOCUMENTATION 3.3 and 4.2):  *)
(* every deposit, withdrawal, transfer and interest posting is one atomic  *)
(* step that moves an account's balance and records a row of exactly that  *)
(* amount.  SavingsSessions is the detailed specification; it implements   *)
(* this one when the database serializes transactions.                     *)
(***************************************************************************)
EXTENDS Integers

CONSTANTS Accounts,        \* savings accounts
          Amounts,         \* amounts a request may carry
          Opening,         \* balance of each account at the start
          Minimum(_),      \* minimum balance of the account's product
          InterestOn(_, _) \* monthly interest of an account on a balance

VARIABLES balance,         \* SavingsAccount.balance
          rowSum           \* signed sum of the account's SavingsTransaction rows

Init ==
    /\ balance = Opening
    /\ rowSum = Opening

Record(delta) ==
    /\ balance' = [a \in Accounts |-> balance[a] + delta[a]]
    /\ rowSum'  = [a \in Accounts |-> rowSum[a] + delta[a]]

Only(a, d) == [b \in Accounts |-> IF b = a THEN d ELSE 0]

Credit(a, x) == Record(Only(a, x))

Debit(a, x) ==
    /\ balance[a] - x >= Minimum(a)
    /\ Record(Only(a, -x))

Transfer(a, b, x) ==
    /\ a # b
    /\ balance[a] - x >= Minimum(a)
    /\ Record([c \in Accounts |-> IF c = a THEN -x ELSE IF c = b THEN x ELSE 0])

PayInterest(due) ==
    Record([a \in Accounts |-> IF a \in due THEN InterestOn(a, balance[a]) ELSE 0])

Next ==
    \/ \E a \in Accounts, x \in Amounts : Credit(a, x) \/ Debit(a, x)
    \/ \E a, b \in Accounts, x \in Amounts : Transfer(a, b, x)
    \/ \E due \in SUBSET Accounts : PayInterest(due)

Spec == Init /\ [][Next]_<<balance, rowSum>>
=============================================================================

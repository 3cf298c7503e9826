--------------------------- MODULE MemberSavings ---------------------------
(***************************************************************************)
(* What the handlers of the member services do to savings accounts: five   *)
(* of them write a DEPOSIT row, add it to the balance they read and post   *)
(* it to the savings liability.  SavingsSessions models the counter.       *)
(*                                                                         *)
(*   db.balance[m]   SavingsAccount.balance of the member's account        *)
(*   db.rows[m][k]   the sum of its SavingsTransaction rows, by narrative  *)
(*   db.liability    the credits of the savings liability account          *)
(***************************************************************************)
EXTENDS Requests, Functions

CONSTANTS Members, Savers   \* Savers: the members with a savings account

ASSUME SaversAssumption == IsFiniteSet(Members) /\ Savers \subseteq Members

Narratives == {"dividend", "commission", "tier", "payroll"}

NoGain == [m \in Members |-> 0]

SavingsTables == [balance   |-> NoGain,
                  rows      |-> [m \in Members |-> [k \in Narratives |-> 0]],
                  liability |-> 0]

SavingsTypeOK ==
    /\ db.balance \in [Members -> Nat]
    /\ db.rows \in [Members -> [Narratives -> Nat]]
    /\ db.liability \in Nat

\* Mutant: a credit that leaves the balance alone
CreditRowsOnly(d, seen, k, gain) ==
    LET paid == {m \in Savers : gain[m] > 0} IN
    [d EXCEPT !.rows = [m \in Members |->
                            IF m \in paid THEN [d.rows[m] EXCEPT ![k] = @ + gain[m]] ELSE @[m]],
              !.liability = @ + SumFunctionOnSet(gain, paid)]

\* Each member of Savers is credited gain[m] on top of the balance seen[m]
Credit(d, seen, k, gain) ==
    LET paid == {m \in Savers : gain[m] > 0} IN
    [d EXCEPT !.balance = [m \in Members |-> IF m \in paid THEN seen[m] + gain[m] ELSE @[m]],
              !.rows = [m \in Members |->
                            IF m \in paid THEN [d.rows[m] EXCEPT ![k] = @ + gain[m]] ELSE @[m]],
              !.liability = @ + SumFunctionOnSet(gain, paid)]

\* Every balance is the sum of the account's rows, whoever wrote them, and the
\* liability is the sum of the balances: what the dividend, commission, tier
\* and payroll handlers each add to a balance they read is never lost.
BalancesMatchRows ==
    /\ \A m \in Members : db.balance[m] = SumFunctionOnSet(db.rows[m], Narratives)
    /\ db.liability = SumFunctionOnSet(db.balance, Members)
=============================================================================

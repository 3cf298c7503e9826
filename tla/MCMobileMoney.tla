---------------------------- MODULE MCMobileMoney ----------------------------
(* Small instances of MobileMoney for TLC.                                 *)
EXTENDS MobileMoney, TLC

CONSTANTS acc, lna,                \* an account and a loan
          dep, wdr, wdr2,          \* deposits and withdrawals
          rep, pay, pay2,          \* a repayment and two payouts of the loan
          h1, h2

Jobs == [t \in {dep, wdr, wdr2, rep, pay, pay2} |->
    CASE t = dep           -> [purpose |-> "deposit", target |-> acc, amount |-> 3]
      [] t \in {wdr, wdr2} -> [purpose |-> "withdrawal", target |-> acc, amount |-> 2]
      [] t = rep           -> [purpose |-> "repayment", target |-> lna, amount |-> 3]
      [] t \in {pay, pay2} -> [purpose |-> "disbursement", target |-> lna, amount |-> 4]]
JobsHere == [t \in Txns |-> Jobs[t]]

SymmetricHandlers == Permutations(Handlers)

MinimumHere   == [a \in Accounts |-> 1]
OpeningHere   == [a \in Accounts |-> 4]
PrincipalHere == [l \in Loans |-> 4]
DueHere       == [l \in Loans |-> 5]
=============================================================================

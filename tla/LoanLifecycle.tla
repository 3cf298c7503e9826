---------------------------- MODULE LoanLifecycle ----------------------------
(***************************************************************************)
(* What the loan endpoints promise about an application (README 3, the     *)
(* states of LoanStatus): it is reviewed, decided once, and an approved    *)
(* one is paid out once.  LoanOrigination is the detailed specification.   *)
(***************************************************************************)
EXTENDS Naturals

VARIABLES status,  \* LoanApplication.status, "none" before it is submitted
          payouts  \* how often the loan was disbursed

Open == {"pending", "under_review"}

Init == status = "none" /\ payouts = 0

Submit ==
    /\ status = "none"
    /\ status' = "pending"
    /\ UNCHANGED payouts

Return ==
    /\ status \in Open
    /\ status' = "under_review"
    /\ UNCHANGED payouts

Decide ==
    /\ status \in Open
    /\ status' \in {"approved", "rejected"}
    /\ UNCHANGED payouts

PayOut ==
    /\ status = "approved"
    /\ payouts = 0
    /\ status' = "active"
    /\ payouts' = 1

Next == Submit \/ Return \/ Decide \/ PayOut

Spec == Init /\ [][Next]_<<status, payouts>>
=============================================================================

-------------------------- MODULE ConfirmedPayments --------------------------
(***************************************************************************)
(* What the mobile money module promises: a payment enters the SACCO's     *)
(* books only after MarzPay has completed it, and enters them once however *)
(* often MarzPay calls back.  MobileMoney is the detailed specification.   *)
(***************************************************************************)
EXTENDS Naturals

CONSTANT Txns      \* mobile money transactions

VARIABLES moved,   \* transactions whose money MarzPay has moved
          booked   \* how often a transaction was entered in the books

Init ==
    /\ moved = {}
    /\ booked = [t \in Txns |-> 0]

Move(t) ==
    /\ moved' = moved \cup {t}
    /\ UNCHANGED booked

Book(t) ==
    /\ t \in moved
    /\ booked[t] = 0
    /\ booked' = [booked EXCEPT ![t] = 1]
    /\ UNCHANGED moved

Next == \E t \in Txns : Move(t) \/ Book(t)

Spec == Init /\ [][Next]_<<moved, booked>>
=============================================================================

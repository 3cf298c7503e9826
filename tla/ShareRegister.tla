--------------------------- MODULE ShareRegister ---------------------------
(* What the share register promises: one transaction at a time issues      *)
(* shares to a member, redeems shares the member has, or moves them to     *)
(* another member, and the journal tells what everybody has.               *)
EXTENDS Integers

CONSTANTS Members, MaxShares   \* MaxShares: bound on the shares of one transaction
VARIABLES register, journal

Init ==
    /\ register = [m \in Members |-> 0]
    /\ journal = register

Issue(m, n) == register' = [register EXCEPT ![m] = @ + n]

Redeem(m, n) ==
    /\ n <= register[m]
    /\ register' = [register EXCEPT ![m] = @ - n]

Move(m, to, n) ==
    /\ n <= register[m]
    /\ register' = [register EXCEPT ![m] = @ - n, ![to] = @ + n]

Transaction(n) ==
    /\ \E m \in Members : \/ Issue(m, n)
                          \/ Redeem(m, n)
                          \/ \E to \in Members : Move(m, to, n)
    /\ journal' = register'

vars == <<register, journal>>

\* shares come in whole numbers
Next == \E n \in 1 .. MaxShares : Transaction(n)

Spec == Init /\ [][Next]_vars
=============================================================================

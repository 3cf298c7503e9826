-------------------------- MODULE MobileMoneyProofs --------------------------
(***************************************************************************)
(* Theorems about MobileMoney for any number of transactions, sessions,    *)
(* accounts and loans.                                                     *)
(***************************************************************************)
EXTENDS MobileMoney, TLAPS

\* A transaction may be asked about, and is the only one where callbacks carry
\* their own uuid.
LEMMA AskableOwn ==
    ASSUME NEW t \in Txns
    PROVE  /\ t \in Askable(t) /\ Askable(t) \subseteq Txns
           /\ "other_uuid" \notin Faults => Askable(t) = {t}
BY DEF Askable

\* An amount that is requested or paid out is a positive number.
LEMMA AmountIsNat ==
    ASSUME NEW t \in Txns
    PROVE  Amount(t) \in Nat \ {0}
<1>1. CASE Purpose(t) = "disbursement"
  <2>1. Target(t) \in Loans
    BY <1>1, JobsAssumption DEF OnSavings, SavingsPurposes
  <2> QED  BY <1>1, <2>1, MoneyAssumption DEF Amount
<1>2. CASE Purpose(t) # "disbursement"
  BY <1>2, JobsAssumption DEF Amount
<1> QED  BY <1>1, <1>2

\* What a job does to an account or a loan is an integer.
LEMMA SignedIsInt ==
    ASSUME NEW t, NEW x \in Int
    PROVE  Signed(t, x) \in Int /\ Posted(x) \in Int
BY DEF Signed, Posted

\* A transaction is for an account or for a loan.
LEMMA TargetTypes ==
    ASSUME NEW t \in Txns
    PROVE  /\ OnSavings(t) => Target(t) \in Accounts
           /\ ~ OnSavings(t) => Target(t) \in Loans
           /\ Purpose(t) \in Purposes
BY JobsAssumption DEF Purpose, Target

\* The mobile money invariant: a session that works is about a transaction
\* that has a row, what it is about to write is what MarzPay has done with the
\* transaction it was asked about, and, where callbacks carry their own uuid, a
\* row that is final while a session still works on it agrees with MarzPay.
Sessions ==
    \A h \in Handlers :
        phase[h] # "idle" =>
            /\ on[h] \in Txns
            /\ status[on[h]] # "none"
            /\ asked[h] \in Askable(on[h])
            /\ phase[h] = "booking" => verdict[h] = marz[asked[h]] /\ verdict[h] \in Final
            /\ "other_uuid" \notin Faults /\ status[on[h]] \in Final => status[on[h]] = marz[on[h]]

RowsComeLast ==
    \A t \in Txns : status[t] # "none" => call[t] = "over"

Unsent == \A t \in Txns : call[t] \in {"idle", "calling"} => marz[t] = "unknown"

MoneyInv == TypeOK /\ Sessions /\ RowsComeLast /\ Unsent /\ LedgerFollowsMarzPay

\* Booking keeps the tables' types.
LEMMA BookingTypes ==
    ASSUME TypeOK, NEW h \in Handlers, on[h] \in Txns,
           \/ BookSavings(h, on[h])
           \/ BookRepayment(h, on[h])
           \/ BookDisbursement(h, on[h])
    PROVE  /\ balance' \in [Accounts -> Int] /\ rowSum' \in [Accounts -> Int]
           /\ loan' \in [Loans -> LoanStates]
           /\ owed' \in [Loans -> Int] /\ lent' \in [Loans -> Nat] /\ recovered' \in [Loans -> Int]
           /\ booked' \in [Txns -> Nat] /\ cleared' \in [Txns -> Int]
<1> DEFINE t == on[h]
<1>1. Amount(t) \in Int
  BY AmountIsNat
<1>2. view[h] \in [balance : Int, loan : LoanStates, owed : Int]
  BY DEF TypeOK
<1>3. Signed(t, Amount(t)) \in Int
  BY <1>1, SignedIsInt
<1>4. \A x \in Int : Enter(t, x) => booked' \in [Txns -> Nat] /\ cleared' \in [Txns -> Int]
  <2> SUFFICES ASSUME NEW x \in Int, Enter(t, x)
               PROVE  booked' \in [Txns -> Nat] /\ cleared' \in [Txns -> Int]
    OBVIOUS
  <2>1. Posted(Signed(t, x)) \in Int
    BY SignedIsInt
  <2> QED  BY <2>1 DEF Enter, TypeOK
<1>5. CASE BookSavings(h, t)
  BY <1>1, <1>2, <1>3, <1>4, <1>5, TargetTypes DEF BookSavings, TypeOK
<1>6. CASE BookRepayment(h, t)
  <2>1. Applied(Amount(t), view[h].owed) \in Int
    BY <1>1, <1>2 DEF Applied
  <2>2. Target(t) \in Loans
    BY <1>6, TargetTypes DEF BookRepayment, OnSavings, SavingsPurposes
  <2>3. Posted(Applied(Amount(t), view[h].owed)) \in Int
    BY <2>1, SignedIsInt
  <2>4. CASE view[h].loan = "active"
    <3>1. Repay(Target(t), view[h].owed, Amount(t))
      BY <1>6, <2>4 DEF BookRepayment
    <3>2. /\ owed' \in [Loans -> Int] /\ recovered' \in [Loans -> Int]
          /\ loan' \in [Loans -> LoanStates]
      BY <1>2, <2>1, <2>2, <2>3, <3>1 DEF Repay, TypeOK, LoanStates
    <3> QED  BY <1>4, <1>6, <2>1, <2>4, <3>2 DEF BookRepayment, TypeOK
  <2>5. CASE view[h].loan # "active"
    BY <1>6, <2>5 DEF BookRepayment, TypeOK
  <2> QED  BY <2>4, <2>5
<1>7. CASE BookDisbursement(h, t)
  <2>1. Target(t) \in Loans
    BY <1>7, TargetTypes DEF BookDisbursement, OnSavings, SavingsPurposes
  <2>2. Due[Target(t)] \in Int
    BY <2>1, MoneyAssumption
  <2>3. loan' \in [Loans -> LoanStates] /\ owed' \in [Loans -> Int] /\ lent' \in [Loans -> Nat]
    <3>1. Activate(Target(t), view[h].loan, view[h].owed)
      BY <1>7 DEF BookDisbursement
    <3>2. CASE Waiting(view[h].loan)
      <4>1. /\ loan' = [loan EXCEPT ![Target(t)] = "active"]
            /\ owed' = [owed EXCEPT ![Target(t)] = (@ - view[h].owed) + Due[Target(t)]]
            /\ lent' = [lent EXCEPT ![Target(t)] = @ + 1]
        BY <3>1, <3>2 DEF Activate
      <4> HIDE DEF t
      <4> QED  BY <1>2, <2>1, <2>2, <4>1 DEF TypeOK, LoanStates
    <3>3. CASE ~ Waiting(view[h].loan)
      BY <3>1, <3>3 DEF Activate, TypeOK
    <3> QED  BY <3>2, <3>3
  <2>4. Enter(t, Amount(t)) /\ UNCHANGED <<balance, rowSum, recovered>>
    BY <1>7 DEF BookDisbursement
  <2>5. booked' \in [Txns -> Nat] /\ cleared' \in [Txns -> Int]
    BY <1>1, <1>4, <2>4
  <2> QED  BY <2>3, <2>4, <2>5 DEF TypeOK
<1> QED  BY <1>5, <1>6, <1>7

\* Staff's operations keep the tables' types and touch no mobile money state.
LEMMA StaffTypes ==
    ASSUME TypeOK, Staff
    PROVE  /\ TypeOK'
           /\ UNCHANGED <<rows, outside, booked, cleared, phase, channel, on, asked, verdict, view>>
<1>1. ASSUME NEW x, Disturb(x)
      PROVE  stale' \in [Handlers -> BOOLEAN]
  <2>1. \A g \in Handlers : (stale[g] \/ g \in Disturbed({}, {x})) \in BOOLEAN
    OBVIOUS
  <2> QED  BY <1>1, <2>1 DEF Disturb
<1>2. ASSUME NEW a \in Accounts, NEW x \in CounterAmounts, CounterWithdrawal(a, x)
      PROVE  /\ TypeOK'
             /\ UNCHANGED <<rows, outside, booked, cleared, phase, channel, on, asked, verdict, view>>
  <2>1. x \in Int
    BY MoneyAssumption
  <2>2. stale' \in [Handlers -> BOOLEAN]
    BY <1>1, <1>2 DEF CounterWithdrawal
  <2> QED  BY <1>2, <2>1, <2>2 DEF CounterWithdrawal, TypeOK, rows, outside
<1>3. ASSUME NEW l \in Loans, CashDisbursement(l)
      PROVE  /\ TypeOK'
             /\ UNCHANGED <<rows, outside, booked, cleared, phase, channel, on, asked, verdict, view>>
  <2>1. Due[l] \in Int
    BY MoneyAssumption
  <2>2. stale' \in [Handlers -> BOOLEAN]
    BY <1>1, <1>3 DEF CashDisbursement
  <2>3. loan' \in [Loans -> LoanStates] /\ owed' \in [Loans -> Int] /\ lent' \in [Loans -> Nat]
    BY <1>3, <2>1 DEF CashDisbursement, Activate, TypeOK, LoanStates
  <2>4. UNCHANGED <<rows, outside, balance, rowSum, recovered, booked, cleared,
                    phase, channel, on, asked, verdict, view>>
    BY <1>3 DEF CashDisbursement
  <2> QED  BY <2>2, <2>3, <2>4 DEF TypeOK, rows, outside
<1>4. ASSUME NEW l \in Loans, NEW x \in CounterAmounts, CounterRepayment(l, x)
      PROVE  /\ TypeOK'
             /\ UNCHANGED <<rows, outside, booked, cleared, phase, channel, on, asked, verdict, view>>
  <2>1. x \in Int /\ owed[l] \in Int
    BY MoneyAssumption DEF TypeOK
  <2>2. Applied(x, owed[l]) \in Int /\ Posted(Applied(x, owed[l])) \in Int
    BY <2>1 DEF Applied, Posted
  <2>3. stale' \in [Handlers -> BOOLEAN]
    BY <1>1, <1>4 DEF CounterRepayment
  <2>4. /\ owed' \in [Loans -> Int] /\ recovered' \in [Loans -> Int]
        /\ loan' \in [Loans -> LoanStates]
    BY <1>4, <2>1, <2>2 DEF CounterRepayment, Repay, TypeOK, LoanStates
  <2> QED  BY <1>4, <2>3, <2>4 DEF CounterRepayment, TypeOK, rows, outside
<1>5. ASSUME NEW l \in Loans, WriteOff(l)
      PROVE  /\ TypeOK'
             /\ UNCHANGED <<rows, outside, booked, cleared, phase, channel, on, asked, verdict, view>>
  <2>1. Posted(owed[l]) \in Int
    BY SignedIsInt DEF TypeOK
  <2>2. stale' \in [Handlers -> BOOLEAN]
    BY <1>1, <1>5 DEF WriteOff
  <2> QED  BY <1>5, <2>1, <2>2 DEF WriteOff, TypeOK, LoanStates, rows, outside
<1> QED  BY <1>2, <1>3, <1>4, <1>5 DEF Staff

\* Nothing has been asked of MarzPay yet.
LEMMA MoneyInit == Init => MoneyInv
BY MoneyAssumption DEF Init, MoneyInv, TypeOK, Sessions, RowsComeLast, Unsent,
                       LedgerFollowsMarzPay, Unseen, LoanStates, Final

\* A commit writes what MarzPay has done with the transaction.
LEMMA CommitKeeps ==
    ASSUME MoneyInv, NEW h \in Handlers, Commit(h)
    PROVE  MoneyInv'
<1> DEFINE t == on[h]
<1>1. /\ t \in Txns /\ phase[h] = "booking"
      /\ asked[h] \in Askable(t) /\ verdict[h] = marz[asked[h]] /\ verdict[h] \in Final
  BY DEF Commit, MoneyInv, Sessions
<1>2. /\ status' = [status EXCEPT ![t] = verdict[h]]
      /\ UNCHANGED <<uuid, marz, call>>
      /\ End(h)
  BY DEF Commit, outside
<1>3. IF verdict[h] = "completed"
      THEN BookSavings(h, t) \/ BookRepayment(h, t) \/ BookDisbursement(h, t)
      ELSE UNCHANGED books
  BY DEF Commit
<1>4. TypeOK'
  <2>1. /\ balance' \in [Accounts -> Int] /\ rowSum' \in [Accounts -> Int]
        /\ loan' \in [Loans -> LoanStates]
        /\ owed' \in [Loans -> Int] /\ lent' \in [Loans -> Nat] /\ recovered' \in [Loans -> Int]
        /\ booked' \in [Txns -> Nat] /\ cleared' \in [Txns -> Int]
    <3>1. CASE verdict[h] = "completed"
      BY <1>1, <1>3, <3>1, BookingTypes DEF MoneyInv
    <3>2. CASE verdict[h] # "completed"
      BY <1>3, <3>2 DEF MoneyInv, TypeOK, books
    <3> QED  BY <3>1, <3>2
  <2>2. stale' \in [Handlers -> BOOLEAN]
    BY DEF Commit
  <2>3. /\ status' \in [Txns -> Final \cup {"none", "processing"}]
        /\ uuid' \in [Txns -> BOOLEAN]
        /\ marz' \in [Txns -> Final \cup {"unknown", "processing"}]
        /\ call' \in [Txns -> {"idle", "calling", "accepted", "over"}]
    BY <1>1, <1>2 DEF MoneyInv, TypeOK
  <2>4. /\ phase' \in [Handlers -> {"idle", "asking", "booking"}]
        /\ channel' \in [Handlers -> {"webhook", "poll"}]
        /\ on' \in [Handlers -> Txns \cup {NoTxn}] /\ asked' \in [Handlers -> Txns \cup {NoTxn}]
        /\ verdict' \in [Handlers -> Final]
        /\ view' \in [Handlers -> [balance : Int, loan : LoanStates, owed : Int]]
    BY <1>2 DEF End, MoneyInv, TypeOK, Unseen, LoanStates, Final
  <2> QED  BY <2>1, <2>2, <2>3, <2>4 DEF TypeOK
<1>5. booked' = booked \/ (marz[asked[h]] = "completed" /\ booked' = [booked EXCEPT ![t] = @ + 1])
  BY <1>1, <1>3 DEF books, BookSavings, BookRepayment, BookDisbursement, Enter
<1>6. LedgerFollowsMarzPay'
  BY <1>1, <1>2, <1>5 DEF MoneyInv, TypeOK, LedgerFollowsMarzPay
<1>7. RowsComeLast' /\ Unsent'
  <2>1. call[t] = "over"
    BY <1>1 DEF MoneyInv, Sessions, RowsComeLast
  <2> QED  BY <1>2, <2>1 DEF MoneyInv, RowsComeLast, Unsent, TypeOK
<1>8. Sessions'
  <2>1. "other_uuid" \notin Faults => verdict[h] = marz[t]
    BY <1>1, AskableOwn
  <2> QED  BY <1>1, <1>2, <2>1 DEF End, MoneyInv, Sessions, TypeOK, Final
<1> QED  BY <1>4, <1>6, <1>7, <1>8 DEF MoneyInv

\* The invariant survives every step.
LEMMA MoneyStep == MoneyInv /\ [Next]_vars => MoneyInv'
<1> SUFFICES ASSUME MoneyInv, [Next]_vars
             PROVE  MoneyInv'
  OBVIOUS
<1> USE DEF MoneyInv
<1>1. ASSUME NEW t \in Txns, Initiate(t)
      PROVE  MoneyInv'
  BY <1>1 DEF Initiate, TypeOK, Sessions, RowsComeLast, Unsent, LedgerFollowsMarzPay,
              books, rows, handlers
<1>2. ASSUME NEW t \in Txns, Recorded(t)
      PROVE  MoneyInv'
  <2>1. status[t] = "none" \/ status[t] # "none"
    OBVIOUS
  <2>2. \A h \in Handlers : phase[h] # "idle" => on[h] # t
    BY <1>2 DEF Recorded, Sessions, RowsComeLast
  <2>3. TypeOK' /\ RowsComeLast' /\ Unsent' /\ LedgerFollowsMarzPay'
    BY <1>2 DEF Recorded, TypeOK, RowsComeLast, Unsent, LedgerFollowsMarzPay, books, handlers
  <2>4. Sessions'
    BY <1>2, <2>2 DEF Recorded, Sessions, TypeOK, handlers
  <2> QED  BY <2>3, <2>4
<1>3. ASSUME NEW t \in Txns, PayoutFails(t)
      PROVE  MoneyInv'
  <2>1. call[t] # "over"
    BY <1>3 DEF PayoutFails, NoAnswer
  <2>2. \A h \in Handlers : phase[h] # "idle" => on[h] # t
    BY <2>1 DEF Sessions, RowsComeLast
  <2>3. TypeOK'
    BY <1>3 DEF PayoutFails, TypeOK, books, handlers, Final
  <2>5. RowsComeLast' /\ Unsent'
    BY <1>3 DEF PayoutFails, TypeOK, RowsComeLast, Unsent
  <2>6. LedgerFollowsMarzPay'
    BY <1>3 DEF PayoutFails, TypeOK, LedgerFollowsMarzPay, books
  <2>4. Sessions'
    BY <1>3, <2>2 DEF PayoutFails, Sessions, TypeOK, handlers
  <2> QED  BY <2>3, <2>4, <2>5, <2>6
<1>4. ASSUME NEW t \in Txns, CollectionFails(t) \/ InitiatorDies(t)
      PROVE  MoneyInv'
  <2>1. /\ call' = [call EXCEPT ![t] = "over"]
        /\ UNCHANGED <<books, rows, marz, handlers>>
    BY <1>4 DEF CollectionFails, InitiatorDies
  <2> QED  BY <2>1 DEF TypeOK, Sessions, RowsComeLast, Unsent, LedgerFollowsMarzPay,
                       books, rows, handlers
<1>5. ASSUME NEW t \in Txns, Accept(t)
      PROVE  MoneyInv'
  <2>1. \A h \in Handlers : phase[h] # "idle" => on[h] # t
    BY <1>5 DEF Accept, Sessions, RowsComeLast
  <2>2. marz[t] = "unknown" /\ status[t] = "none"
    BY <1>5 DEF Accept, Unsent, RowsComeLast, TypeOK
  <2>3. TypeOK' /\ RowsComeLast' /\ Unsent' /\ LedgerFollowsMarzPay'
    BY <1>5, <2>2 DEF Accept, TypeOK, RowsComeLast, Unsent, LedgerFollowsMarzPay, books, rows, handlers
  <2>4. \A h \in Handlers : phase[h] = "booking" => asked[h] # t
    BY <2>2 DEF Sessions, Final
  <2>5. Sessions'
    BY <1>5, <2>1, <2>4, AskableOwn DEF Accept, Sessions, TypeOK, rows, handlers
  <2> QED  BY <2>3, <2>5
<1>6. ASSUME NEW t \in Txns, NEW s \in Final, Settle(t, s)
      PROVE  MoneyInv'
  <2>1. TypeOK' /\ RowsComeLast' /\ Unsent' /\ LedgerFollowsMarzPay'
    BY <1>6 DEF Settle, TypeOK, RowsComeLast, Unsent, LedgerFollowsMarzPay, books, rows, handlers
  <2>2. Sessions'
    BY <1>6 DEF Settle, Sessions, TypeOK, books, rows, handlers, Final
  <2> QED  BY <2>1, <2>2
<1>7. ASSUME NEW h \in Handlers, NEW t \in Txns, Webhook(h, t) \/ Poll(h, t)
      PROVE  MoneyInv'
  <2>1. status[t] = "processing"
    BY <1>7 DEF Webhook, Poll
  <2>2. PICK c \in {"webhook", "poll"}, u \in Askable(t) : Begin(h, t, c, u)
    BY <1>7, AskableOwn DEF Webhook, Poll
  <2>0. u \in Txns
    BY AskableOwn
  <2>3. TypeOK' /\ RowsComeLast' /\ Unsent' /\ LedgerFollowsMarzPay'
    BY <2>0, <2>2 DEF Begin, TypeOK, RowsComeLast, Unsent, LedgerFollowsMarzPay, books, rows, outside
  <2>4. Sessions'
    BY <2>1, <2>2 DEF Begin, Sessions, TypeOK, books, rows, outside, Final
  <2> QED  BY <2>3, <2>4
<1>8. ASSUME NEW h \in Handlers, Verify(h)
      PROVE  MoneyInv'
  <2>1. on[h] \in Txns /\ marz[asked[h]] \in Final
    BY <1>8 DEF Verify, Sessions
  <2>2. view' \in [Handlers -> [balance : Int, loan : LoanStates, owed : Int]]
    BY <1>8, <2>1, TargetTypes DEF Verify, TypeOK, Unseen, LoanStates
  <2>3. TypeOK'
    BY <1>8, <2>1, <2>2 DEF Verify, TypeOK, books, rows, outside
  <2>4. RowsComeLast' /\ Unsent' /\ LedgerFollowsMarzPay'
    BY <1>8 DEF Verify, RowsComeLast, Unsent, LedgerFollowsMarzPay, books, rows, outside
  <2>5. Sessions'
    BY <1>8, <2>1 DEF Verify, Sessions, TypeOK, rows, outside
  <2> QED  BY <2>3, <2>4, <2>5
<1>9. ASSUME NEW h \in Handlers, Commit(h)
      PROVE  MoneyInv'
  BY <1>9, CommitKeeps
<1>10. ASSUME NEW h \in Handlers, GiveUp(h)
       PROVE  MoneyInv'
  BY <1>10 DEF GiveUp, End, TypeOK, Sessions, RowsComeLast, Unsent, LedgerFollowsMarzPay,
               books, rows, outside, Unseen, LoanStates, Final
<1>11. CASE Staff
  <2>1. TypeOK' /\ UNCHANGED <<rows, outside, booked, cleared, phase, channel, on, asked, verdict, view>>
    BY <1>11, StaffTypes
  <2> QED  BY <2>1 DEF Sessions, RowsComeLast, Unsent, LedgerFollowsMarzPay, rows, outside
<1>12. CASE UNCHANGED vars
  BY <1>12 DEF TypeOK, Sessions, RowsComeLast, Unsent, LedgerFollowsMarzPay,
               vars, books, rows, outside, handlers
<1>13. ASSUME NEW t \in Txns, Request(t)
       PROVE  MoneyInv'
  <2>1. \/ Initiate(t) \/ Recorded(t) \/ PayoutFails(t)
        \/ CollectionFails(t) \/ InitiatorDies(t)
    BY <1>13 DEF Request, RequestDeposit, RequestWithdrawal, RequestRepayment, RequestDisbursement
  <2> QED  BY <2>1, <1>1, <1>2, <1>3, <1>4
<1>14. ASSUME NEW t \in Txns, MarzPay(t)
       PROVE  MoneyInv'
  BY <1>14, <1>5, <1>6 DEF MarzPay
<1>15. ASSUME NEW h \in Handlers, Learn(h)
       PROVE  MoneyInv'
  BY <1>15, <1>7, <1>8, <1>9, <1>10 DEF Learn
<1> QED  BY <1>11, <1>12, <1>13, <1>14, <1>15 DEF Next

\* The mobile money invariant always holds.
THEOREM MoneyInvariant == Spec => []MoneyInv
BY MoneyInit, MoneyStep, PTL DEF Spec

\* Type correctness: every variable stays in the set TypeOK names for it.
THEOREM MoneyTypes == Spec => []TypeOK
<1>1. MoneyInv => TypeOK
  BY DEF MoneyInv
<1> QED  BY <1>1, MoneyInvariant, PTL

\* Under either isolation level, whatever is lost, repeated or overlaps:
\* nothing is booked before MarzPay has answered that the transaction it was
\* asked about is completed. Where callbacks carry their own uuid, that is the
\* transaction of the row (the header of mobile_money.py).
THEOREM BookedAfterMarzPay == Spec => []LedgerFollowsMarzPay
<1>1. MoneyInv => LedgerFollowsMarzPay
  BY DEF MoneyInv
<1> QED  BY <1>1, MoneyInvariant, PTL

-----------------------------------------------------------------------------
(* A serializable database                                                 *)

\* What serializability adds: a session whose reads are still current works
\* on a transaction that is not final, and what is booked is completed.
Fresh ==
    \A h \in Handlers :
        phase[h] # "idle" /\ ~ stale[h] => status[on[h]] = "processing"

Accounted ==
    \A t \in Txns : booked[t] <= 1 /\ (booked[t] > 0 => status[t] = "completed")

OnceInv == MoneyInv /\ Fresh /\ Accounted

\* A commit that is not refused books a transaction that was not booked.
LEMMA FirstBooking ==
    ASSUME Isolation = "serializable", OnceInv, NEW h \in Handlers, Commit(h)
    PROVE  /\ on[h] \in Txns /\ status[on[h]] = "processing" /\ booked[on[h]] = 0
           /\ \/ booked' = booked
              \/ /\ verdict[h] = "completed" /\ marz[asked[h]] = "completed"
                 /\ asked[h] \in Askable(on[h])
                 /\ booked' = [booked EXCEPT ![on[h]] = 1]
<1>1. /\ on[h] \in Txns /\ phase[h] = "booking" /\ ~ stale[h]
      /\ verdict[h] = marz[asked[h]] /\ asked[h] \in Askable(on[h])
  BY DEF Commit, OnceInv, MoneyInv, Sessions
<1>2. status[on[h]] = "processing" /\ booked[on[h]] = 0
  BY <1>1 DEF OnceInv, Fresh, Accounted, MoneyInv, TypeOK
<1>3. \/ booked' = booked
      \/ verdict[h] = "completed" /\ booked' = [booked EXCEPT ![on[h]] = @ + 1]
  BY DEF Commit, books, BookSavings, BookRepayment, BookDisbursement, Enter
<1> QED  BY <1>1, <1>2, <1>3 DEF OnceInv, MoneyInv, TypeOK

\* Fresh sessions see their transaction in processing, and what is booked
\* has a final status.
LEMMA OnceStep ==
    ASSUME Isolation = "serializable"
    PROVE  OnceInv /\ [Next]_vars => OnceInv'
<1> SUFFICES ASSUME OnceInv, [Next]_vars
             PROVE  Fresh' /\ Accounted'
  BY MoneyStep DEF OnceInv
<1> USE DEF OnceInv
<1>1. ASSUME NEW t \in Txns, Request(t)
      PROVE  Fresh' /\ Accounted'
  <2>1. CASE Initiate(t) \/ CollectionFails(t) \/ InitiatorDies(t)
    BY <2>1 DEF Initiate, CollectionFails, InitiatorDies, Fresh, Accounted, books, rows, handlers
  <2>2. CASE Recorded(t) \/ PayoutFails(t)
    <3>1. status[t] = "none"
      BY <2>2 DEF Recorded, PayoutFails, NoAnswer, MoneyInv, RowsComeLast
    <3>2. UNCHANGED <<books, handlers>> /\ \A u \in Txns \ {t} : status'[u] = status[u]
      BY <2>2 DEF Recorded, PayoutFails, MoneyInv, TypeOK
    <3>3. Fresh'
      BY <3>1, <3>2 DEF Fresh, handlers, MoneyInv, Sessions
    <3>4. Accounted'
      BY <3>1, <3>2 DEF Accounted, books, MoneyInv, TypeOK
    <3> QED  BY <3>3, <3>4
  <2> QED  BY <1>1, <2>1, <2>2 DEF Request, RequestDeposit, RequestWithdrawal,
                                   RequestRepayment, RequestDisbursement
<1>2. ASSUME NEW t \in Txns, MarzPay(t)
      PROVE  Fresh' /\ Accounted'
  BY <1>2 DEF MarzPay, Accept, Settle, Fresh, Accounted, books, rows, handlers
<1>3. ASSUME NEW h \in Handlers, Commit(h)
      PROVE  Fresh' /\ Accounted'
  <2>1. /\ status' = [status EXCEPT ![on[h]] = verdict[h]]
        /\ phase' = [phase EXCEPT ![h] = "idle"]
        /\ on' = [on EXCEPT ![h] = NoTxn]
        /\ \A g \in Handlers \ {h} :
              ~ stale'[g] /\ phase[g] # "idle" => ~ stale[g] /\ on[g] # on[h]
    BY <1>3 DEF Commit, End, Disturbed
  <2>2. Fresh'
    BY <2>1 DEF Fresh, MoneyInv, TypeOK, Sessions
  <2>3. Accounted'
    BY <1>3, <2>1, FirstBooking DEF Accounted, MoneyInv, TypeOK
  <2> QED  BY <2>2, <2>3
<1>4. ASSUME NEW h \in Handlers, NEW t \in Txns, Webhook(h, t) \/ Poll(h, t)
      PROVE  Fresh' /\ Accounted'
  <2>1. PICK c \in {"webhook", "poll"}, u \in Txns : Begin(h, t, c, u)
    BY <1>4, AskableOwn DEF Webhook, Poll
  <2>2. status[t] = "processing"
    BY <1>4 DEF Webhook, Poll
  <2> QED  BY <2>1, <2>2 DEF Begin, Fresh, Accounted, MoneyInv, TypeOK, books, rows
<1>5. ASSUME NEW h \in Handlers, Verify(h)
      PROVE  Fresh' /\ Accounted'
  BY <1>5 DEF Verify, Fresh, Accounted, MoneyInv, TypeOK, books, rows, outside
<1>6. ASSUME NEW h \in Handlers, GiveUp(h)
      PROVE  Fresh' /\ Accounted'
  BY <1>6 DEF GiveUp, End, Fresh, Accounted, MoneyInv, TypeOK, books, rows, outside
<1>7. CASE Staff
  <2>1. UNCHANGED <<rows, booked, phase, on>>
    BY <1>7, StaffTypes DEF MoneyInv
  <2>2. \A g \in Handlers : ~ stale'[g] => ~ stale[g]
    BY <1>7 DEF Staff, CounterWithdrawal, CashDisbursement, CounterRepayment, WriteOff, Disturb
  <2> QED  BY <2>1, <2>2 DEF Fresh, Accounted, rows
<1>8. CASE UNCHANGED vars
  BY <1>8 DEF Fresh, Accounted, vars, books, rows, outside, handlers
<1> QED  BY <1>1, <1>2, <1>3, <1>4, <1>5, <1>6, <1>7, <1>8 DEF Next, Learn

\* With a serializable database no payment is booked twice, however many
\* webhooks and polls overlap.
THEOREM NeverBookedTwice ==
    ASSUME Isolation = "serializable"
    PROVE  Spec => []BookedOnce
<1>1. Init => OnceInv
  BY MoneyInit DEF Init, OnceInv, Fresh, Accounted
<1>2. OnceInv => BookedOnce
  BY DEF OnceInv, Accounted, BookedOnce
<1> QED  BY <1>1, <1>2, OnceStep, PTL DEF Spec

\* A step that is not a commit leaves a final status alone.
LEMMA OnlyCommitsFinish ==
    ASSUME MoneyInv, [Next]_vars, NEW t \in Txns, status[t] \in Final,
           \A h \in Handlers : Commit(h) => status'[t] = status[t]
    PROVE  status'[t] = status[t]
<1>0. call[t] = "over" /\ status[t] # "none"
  BY DEF MoneyInv, RowsComeLast, Final
<1>1. ASSUME NEW u \in Txns, Request(u)
      PROVE  status'[t] = status[t]
  BY <1>0, <1>1 DEF Request, RequestDeposit, RequestWithdrawal,
                    RequestRepayment, RequestDisbursement, Initiate, Recorded,
                    PayoutFails, CollectionFails, NoAnswer, InitiatorDies,
                    rows, MoneyInv, TypeOK
<1>2. ASSUME NEW u \in Txns, MarzPay(u)
      PROVE  status'[t] = status[t]
  BY <1>2 DEF MarzPay, Accept, Settle, rows
<1>3. ASSUME NEW h \in Handlers, Learn(h)
      PROVE  status'[t] = status[t]
  BY <1>3 DEF Learn, Webhook, Poll, Begin, Verify, GiveUp, rows
<1>4. CASE Staff
  BY <1>4, StaffTypes DEF MoneyInv, rows
<1>5. CASE UNCHANGED vars
  BY <1>5 DEF vars, rows
<1> QED  BY <1>1, <1>2, <1>3, <1>4, <1>5 DEF Next

\* A final status never changes again, whatever callbacks and polls arrive: on
\* a serializable database whatever uuid a callback carries, and at any
\* isolation where it carries its own.
THEOREM FinalForGood ==
    ASSUME Isolation = "serializable" \/ "other_uuid" \notin Faults
    PROVE  Spec => FinalStatusStays
<1> DEFINE Stays == \A t \in Txns : status[t] \in Final => status'[t] = status[t]
<1>1. CASE Isolation = "serializable"
  <2>1. Init => OnceInv
    BY MoneyInit DEF Init, OnceInv, Fresh, Accounted
  <2>2. OnceInv /\ [Next]_vars => [Stays]_vars
    <3> SUFFICES ASSUME OnceInv, [Next]_vars, NEW t \in Txns, status[t] \in Final
                 PROVE  status'[t] = status[t]
      OBVIOUS
    <3>1. ASSUME NEW h \in Handlers, Commit(h)
          PROVE  status'[t] = status[t]
      <4>1. on[h] \in Txns /\ on[h] # t
        BY <1>1, <3>1, FirstBooking DEF Final
      <4> QED  BY <3>1, <4>1 DEF Commit, OnceInv, MoneyInv, TypeOK
    <3> QED  BY <3>1, OnlyCommitsFinish DEF OnceInv
  <2>3. OnceInv /\ [Next]_vars => OnceInv'
    BY <1>1, OnceStep
  <2> QED  BY <2>1, <2>2, <2>3, PTL DEF Spec, FinalStatusStays
<1>2. CASE "other_uuid" \notin Faults
  <2>1. MoneyInv /\ [Next]_vars => [Stays]_vars
    <3> SUFFICES ASSUME MoneyInv, [Next]_vars, NEW t \in Txns, status[t] \in Final
                 PROVE  status'[t] = status[t]
      OBVIOUS
    <3>1. ASSUME NEW h \in Handlers, Commit(h)
          PROVE  status'[t] = status[t]
      <4>1. /\ on[h] \in Txns /\ asked[h] \in Askable(on[h]) /\ verdict[h] = marz[asked[h]]
            /\ status[on[h]] \in Final => status[on[h]] = marz[on[h]]
        BY <1>2, <3>1 DEF Commit, MoneyInv, Sessions
      <4>2. verdict[h] = marz[on[h]]
        BY <1>2, <4>1, AskableOwn
      <4> QED  BY <3>1, <4>1, <4>2 DEF Commit, MoneyInv, TypeOK
    <3> QED  BY <3>1, OnlyCommitsFinish
  <2> QED  BY <2>1, MoneyInvariant, PTL DEF Spec, FinalStatusStays
<1> QED  BY <1>1, <1>2

\* With a serializable database, and callbacks that carry the uuid of the
\* transaction they name, the module implements ConfirmedPayments: what enters
\* the books is the row's own payment, after MarzPay moved it, and once.
THEOREM ImplementsPayments ==
    ASSUME Isolation = "serializable", "other_uuid" \notin Faults
    PROVE  Spec => PaymentsSpec
<1> DEFINE moved == {t \in Txns : marz[t] = "completed"}
<1>1. Init => OnceInv
  BY MoneyInit DEF Init, OnceInv, Fresh, Accounted
<1>2. Init => Payments!Init
  BY DEF Init, Payments!Init
<1>3. ASSUME OnceInv, [Next]_vars
      PROVE  [Payments!Next]_<<moved, booked>>
  <2> USE <1>3 DEF OnceInv
  <2>1. ASSUME NEW t \in Txns, Request(t)
        PROVE  UNCHANGED <<moved, booked>>
    BY <2>1 DEF Request, RequestDeposit, RequestWithdrawal, RequestRepayment,
                RequestDisbursement, Initiate, Recorded, PayoutFails, CollectionFails,
                InitiatorDies, books
  <2>2. ASSUME NEW t \in Txns, Accept(t)
        PROVE  UNCHANGED <<moved, booked>>
    <3>1. marz[t] = "unknown"
      BY <2>2 DEF Accept, MoneyInv, Unsent
    <3> QED  BY <2>2, <3>1 DEF Accept, MoneyInv, TypeOK, books
  <2>3. ASSUME NEW t \in Txns, NEW s \in Final, Settle(t, s)
        PROVE  [Payments!Next]_<<moved, booked>>
    <3>1. CASE s = "completed"
      <4>1. moved' = moved \cup {t}
        BY <2>3, <3>1 DEF Settle, MoneyInv, TypeOK
      <4>2. booked' = booked
        BY <2>3 DEF Settle, books
      <4> QED  BY <4>1, <4>2 DEF Payments!Next, Payments!Move
    <3>2. CASE s # "completed"
      BY <2>3, <3>2 DEF Settle, MoneyInv, TypeOK, books
    <3> QED  BY <3>1, <3>2
  <2>4. ASSUME NEW h \in Handlers, Commit(h)
        PROVE  [Payments!Next]_<<moved, booked>>
    <3>1. moved' = moved
      BY <2>4 DEF Commit, outside
    <3>2. CASE booked' = booked
      BY <3>1, <3>2
    <3>3. CASE booked' # booked
      <4>1. on[h] \in Txns /\ on[h] \in moved /\ booked[on[h]] = 0
            /\ booked' = [booked EXCEPT ![on[h]] = 1]
        BY <2>4, <3>3, FirstBooking, AskableOwn
      <4> QED  BY <3>1, <4>1 DEF Payments!Next, Payments!Book
    <3> QED  BY <3>2, <3>3
  <2>5. ASSUME NEW h \in Handlers, Learn(h), ~ Commit(h)
        PROVE  UNCHANGED <<moved, booked>>
    BY <2>5 DEF Learn, Webhook, Poll, Begin, Verify, GiveUp, books, outside
  <2>6. CASE Staff
    BY <2>6, StaffTypes DEF MoneyInv, outside
  <2>7. CASE UNCHANGED vars
    BY <2>7 DEF vars, books, outside
  <2> QED  BY <2>1, <2>2, <2>3, <2>4, <2>5, <2>6, <2>7 DEF Next, MarzPay
<1> QED  BY <1>1, <1>2, <1>3, OnceStep, PTL DEF Spec, PaymentsSpec, Payments!Spec

-----------------------------------------------------------------------------
(* What the sessions have read                                             *)

\* A session that is about to book, and from whose reads nothing has changed,
\* holds what the account or the loan says now.
Current ==
    \A h \in Handlers :
        phase[h] = "booking" /\ verdict[h] = "completed" /\ ~ stale[h] =>
            IF OnSavings(on[h])
            THEN view[h].balance = balance[Target(on[h])]
            ELSE view[h].loan = loan[Target(on[h])] /\ view[h].owed = owed[Target(on[h])]

\* A commit changes no account and no loan but the one it declares written.
LEMMA CommitWrites ==
    ASSUME MoneyInv, NEW h \in Handlers, Commit(h)
    PROVE  /\ \A a \in Accounts : a \notin Written(h) => balance'[a] = balance[a]
           /\ \A l \in Loans : l \notin Written(h) => loan'[l] = loan[l] /\ owed'[l] = owed[l]
<1> DEFINE t == on[h]
<1>1. /\ t \in Txns /\ Purpose(t) \in Purposes
      /\ OnSavings(t) => Target(t) \in Accounts
      /\ ~ OnSavings(t) => Target(t) \in Loans
  BY TargetTypes DEF Commit, MoneyInv, Sessions
<1>2. CASE verdict[h] # "completed"
  BY <1>2 DEF Commit, books
<1>3. CASE verdict[h] = "completed" /\ BookSavings(h, t)
  <2>1. Purpose(t) \notin {"repayment", "disbursement"} /\ OnSavings(t)
    BY <1>3 DEF BookSavings, OnSavings, SavingsPurposes
  <2>2. Written(h) = {Target(t)}
    BY <1>3, <2>1 DEF Written
  <2> QED  BY <1>1, <1>3, <2>1, <2>2 DEF BookSavings, MoneyInv, TypeOK
<1>4. CASE verdict[h] = "completed" /\ BookRepayment(h, t)
  <2>1. ~ OnSavings(t) /\ Purpose(t) = "repayment"
    BY <1>4 DEF BookRepayment, OnSavings, SavingsPurposes
  <2>2. Written(h) = IF view[h].loan = "active" THEN {Target(t)} ELSE {}
    BY <1>4, <2>1 DEF Written
  <2> QED  BY <1>1, <1>4, <2>1, <2>2 DEF BookRepayment, Repay, MoneyInv, TypeOK
<1>5. CASE verdict[h] = "completed" /\ BookDisbursement(h, t)
  <2>1. ~ OnSavings(t) /\ Purpose(t) = "disbursement"
    BY <1>5 DEF BookDisbursement, OnSavings, SavingsPurposes
  <2>2. Written(h) = IF Waiting(view[h].loan) THEN {Target(t)} ELSE {}
    BY <1>5, <2>1 DEF Written
  <2> QED  BY <1>1, <1>5, <2>1, <2>2 DEF BookDisbursement, Activate, MoneyInv, TypeOK
<1> QED  BY <1>2, <1>3, <1>4, <1>5 DEF Commit

\* A step that is neither a commit nor staff's leaves the books alone.
LEMMA OnlyCommitsBook ==
    ASSUME [Next]_vars, ~ Staff, \A h \in Handlers : ~ Commit(h)
    PROVE  UNCHANGED books
<1>1. ASSUME NEW t \in Txns, Request(t) \/ MarzPay(t)
      PROVE  UNCHANGED books
  BY <1>1 DEF Request, MarzPay, RequestDeposit, RequestWithdrawal, RequestRepayment,
              RequestDisbursement, Initiate, Recorded, PayoutFails, CollectionFails,
              InitiatorDies, Accept, Settle, books
<1>2. ASSUME NEW h \in Handlers, Learn(h), ~ Commit(h)
      PROVE  UNCHANGED books
  BY <1>2 DEF Learn, Webhook, Poll, Begin, Verify, GiveUp, books
<1>3. CASE UNCHANGED vars
  BY <1>3 DEF vars, books
<1> QED  BY <1>1, <1>2, <1>3 DEF Next

\* Sessions never read behind a change without being marked as stale.
LEMMA CurrentStep ==
    ASSUME MoneyInv, Current, [Next]_vars
    PROVE  Current'
<1>1. ASSUME NEW t \in Txns, Request(t) \/ MarzPay(t)
      PROVE  Current'
  <2>1. ASSUME Initiate(t) \/ Recorded(t) \/ PayoutFails(t)
        PROVE  UNCHANGED <<books, handlers>>
    BY <2>1 DEF Initiate, Recorded, PayoutFails
  <2>2. ASSUME CollectionFails(t) \/ InitiatorDies(t) \/ MarzPay(t)
        PROVE  UNCHANGED <<books, handlers>>
    BY <2>2 DEF CollectionFails, InitiatorDies, MarzPay, Accept, Settle
  <2>3. UNCHANGED <<books, handlers>>
    BY <1>1, <2>1, <2>2 DEF Request, RequestDeposit, RequestWithdrawal, RequestRepayment,
                            RequestDisbursement
  <2> QED  BY <2>3 DEF Current, books, handlers
<1>2. ASSUME NEW h \in Handlers, NEW t \in Txns, Webhook(h, t) \/ Poll(h, t)
      PROVE  Current'
  BY <1>2 DEF Webhook, Poll, Begin, Current, MoneyInv, TypeOK, books
<1>3. ASSUME NEW h \in Handlers, Verify(h)
      PROVE  Current'
  <2>1. /\ UNCHANGED <<books, on, stale>>
        /\ \A g \in Handlers \ {h} :
              phase'[g] = phase[g] /\ verdict'[g] = verdict[g] /\ view'[g] = view[g]
    BY <1>3 DEF Verify, MoneyInv, TypeOK
  <2>2. view'[h] = IF OnSavings(on[h]) THEN [Unseen EXCEPT !.balance = balance[Target(on[h])]]
                   ELSE [balance |-> 0, loan |-> loan[Target(on[h])], owed |-> owed[Target(on[h])]]
    BY <1>3 DEF Verify, MoneyInv, TypeOK
  <2>3. /\ OnSavings(on[h]) => view'[h].balance = balance[Target(on[h])]
        /\ ~ OnSavings(on[h]) => /\ view'[h].loan = loan[Target(on[h])]
                                 /\ view'[h].owed = owed[Target(on[h])]
    BY <2>2 DEF Unseen
  <2> QED  BY <2>1, <2>3 DEF Current, books
<1>4. ASSUME NEW h \in Handlers, GiveUp(h)
      PROVE  Current'
  BY <1>4 DEF GiveUp, End, Current, MoneyInv, TypeOK, books
<1>5. ASSUME NEW h \in Handlers, Commit(h)
      PROVE  Current'
  <2> SUFFICES ASSUME NEW g \in Handlers, phase'[g] = "booking", verdict'[g] = "completed",
                      ~ stale'[g]
               PROVE  (IF OnSavings(on[g])
                       THEN view[g].balance = balance[Target(on[g])]
                       ELSE view[g].loan = loan[Target(on[g])] /\ view[g].owed = owed[Target(on[g])])'
    BY DEF Current
  <2>1. /\ g # h /\ phase[g] = "booking" /\ verdict[g] = "completed"
        /\ on'[g] = on[g] /\ view'[g] = view[g] /\ on[g] \in Txns
    BY <1>5 DEF Commit, End, MoneyInv, TypeOK, Sessions
  <2>2. ~ stale[g] /\ g \notin Disturbed({on[h]}, Written(h))
    BY <1>5, <2>1 DEF Commit
  <2>3. Target(on[g]) \notin Written(h)
    BY <2>1, <2>2 DEF Disturbed
  <2>4. /\ OnSavings(on[g]) => Target(on[g]) \in Accounts
        /\ ~ OnSavings(on[g]) => Target(on[g]) \in Loans
    BY <2>1, TargetTypes
  <2> QED  BY <1>5, <2>1, <2>2, <2>3, <2>4, CommitWrites DEF Current
<1>6. CASE Staff
  <2> SUFFICES ASSUME NEW g \in Handlers, phase[g] = "booking", verdict[g] = "completed",
                      ~ stale'[g]
               PROVE  (IF OnSavings(on[g])
                       THEN view[g].balance = balance[Target(on[g])]
                       ELSE view[g].loan = loan[Target(on[g])] /\ view[g].owed = owed[Target(on[g])])'
    BY <1>6, StaffTypes DEF Current, MoneyInv
  <2>1. /\ UNCHANGED <<on, view>> /\ on[g] \in Txns
        /\ OnSavings(on[g]) => Target(on[g]) \in Accounts
        /\ ~ OnSavings(on[g]) => Target(on[g]) \in Loans
    BY <1>6, StaffTypes, TargetTypes DEF MoneyInv, Sessions
  <2>2. ASSUME NEW x, Disturb(x)
        PROVE  ~ stale[g] /\ Target(on[g]) # x
    BY <2>2 DEF Disturb, Disturbed
  <2>3. ASSUME NEW a \in Accounts, NEW x \in CounterAmounts, CounterWithdrawal(a, x)
        PROVE  OnSavings(on[g]) => ~ stale[g] /\ UNCHANGED balance[Target(on[g])]
    BY <2>1, <2>2, <2>3 DEF CounterWithdrawal, MoneyInv, TypeOK
  <2>4. ASSUME NEW l \in Loans,
               \/ CashDisbursement(l)
               \/ WriteOff(l)
               \/ \E x \in CounterAmounts : CounterRepayment(l, x)
        PROVE  /\ ~ stale[g] /\ UNCHANGED balance
               /\ ~ OnSavings(on[g]) => UNCHANGED <<loan[Target(on[g])], owed[Target(on[g])]>>
    <3>1. Disturb(l) /\ UNCHANGED balance
      BY <2>4 DEF CashDisbursement, WriteOff, CounterRepayment
    <3>2. \A m \in Loans \ {l} : loan'[m] = loan[m] /\ owed'[m] = owed[m]
      BY <2>4 DEF CashDisbursement, WriteOff, CounterRepayment, Repay, Activate, MoneyInv, TypeOK
    <3> QED  BY <2>1, <2>2, <3>1, <3>2
  <2>5. ASSUME NEW a \in Accounts, NEW x \in CounterAmounts, CounterWithdrawal(a, x)
        PROVE  ~ stale[g] /\ UNCHANGED <<loan, owed>>
    BY <2>2, <2>5 DEF CounterWithdrawal
  <2> QED  BY <1>6, <2>1, <2>3, <2>4, <2>5 DEF Staff, Current
<1>7. CASE UNCHANGED vars
  BY <1>7 DEF Current, vars, books, handlers
<1> QED  BY <1>1, <1>2, <1>3, <1>4, <1>5, <1>6, <1>7 DEF Next, Learn

\* Every booking of a serializable database starts from what the account or
\* the loan says now.
LEMMA BookedAsRead ==
    ASSUME Isolation = "serializable", OnceInv, Current, NEW h \in Handlers, Commit(h),
           verdict[h] = "completed"
    PROVE  /\ OnSavings(on[h]) => view[h].balance = balance[Target(on[h])]
           /\ ~ OnSavings(on[h]) => /\ view[h].loan = loan[Target(on[h])]
                                    /\ view[h].owed = owed[Target(on[h])]
BY DEF Commit, Current

\* The balance and the sum of the rows move together.
LEMMA BalanceStep ==
    ASSUME Isolation = "serializable", OnceInv, Current, BalanceMatchesRows, [Next]_vars
    PROVE  BalanceMatchesRows'
<1> USE DEF BalanceMatchesRows
<1>1. ASSUME NEW h \in Handlers, Commit(h)
      PROVE  BalanceMatchesRows'
  <2>1. /\ on[h] \in Txns /\ OnSavings(on[h]) => Target(on[h]) \in Accounts
        /\ Signed(on[h], Amount(on[h])) \in Int
    BY <1>1, TargetTypes, AmountIsNat, SignedIsInt DEF Commit, OnceInv, MoneyInv, Sessions
  <2>2. CASE verdict[h] = "completed" /\ BookSavings(h, on[h])
    <3>1. view[h].balance = balance[Target(on[h])] /\ OnSavings(on[h])
      BY <1>1, <2>2, BookedAsRead DEF BookSavings
    <3> QED  BY <2>1, <2>2, <3>1 DEF BookSavings, OnceInv, MoneyInv, TypeOK
  <2>3. CASE ~ (verdict[h] = "completed" /\ BookSavings(h, on[h]))
    BY <1>1, <2>3 DEF Commit, books, BookRepayment, BookDisbursement
  <2> QED  BY <2>2, <2>3
<1>2. CASE Staff
  <2>1. ASSUME NEW a \in Accounts, NEW x \in CounterAmounts, CounterWithdrawal(a, x)
        PROVE  BalanceMatchesRows'
    BY <2>1 DEF CounterWithdrawal, OnceInv, MoneyInv, TypeOK
  <2> QED  BY <1>2, <2>1 DEF Staff, CashDisbursement, CounterRepayment, WriteOff
<1>3. CASE ~ Staff /\ \A h \in Handlers : ~ Commit(h)
  BY <1>3, OnlyCommitsBook DEF books
<1> QED  BY <1>1, <1>2, <1>3

\* What every step of a serializable database preserves about the savings.
BalanceInv == OnceInv /\ Current /\ BalanceMatchesRows

\* On a serializable database the balances are the sums of their rows.
LEMMA BalanceInvariant ==
    ASSUME Isolation = "serializable"
    PROVE  Spec => []BalanceInv
<1>1. Init => BalanceInv
  BY MoneyInit DEF Init, BalanceInv, OnceInv, Fresh, Accounted, Current, BalanceMatchesRows
<1>2. BalanceInv /\ [Next]_vars => BalanceInv'
  BY OnceStep, CurrentStep, BalanceStep DEF BalanceInv, OnceInv
<1> QED  BY <1>1, <1>2, PTL DEF Spec

\* With a serializable database a savings balance is at every moment the sum
\* of its transaction rows, whichever of the counter, the webhook and the poll
\* wrote them last.
THEOREM BalancesAreTheirRows ==
    ASSUME Isolation = "serializable"
    PROVE  Spec => []BalanceMatchesRows
<1>1. BalanceInv => BalanceMatchesRows
  BY DEF BalanceInv
<1> QED  BY <1>1, BalanceInvariant, PTL

-----------------------------------------------------------------------------
(* What a final status tells                                               *)

\* A failed transaction is not under way any more.
Dead == \A t \in Txns : status[t] \in {"failed", "cancelled"} =>
                         marz[t] \in {"unknown", "failed", "cancelled"}

\* As long as no answer of MarzPay is lost and callbacks carry their own uuid, a
\* transaction reported failed or cancelled has not moved money, whatever the
\* isolation level.
THEOREM FailuresAreTrue ==
    ASSUME "reply_lost" \notin Faults, "other_uuid" \notin Faults
    PROVE  Spec => []FailedMeansNotMoved
<1>1. Init => MoneyInv /\ Dead
  BY MoneyInit DEF Init, Dead
<1>2. MoneyInv /\ Dead /\ [Next]_vars => (MoneyInv /\ Dead)'
  <2> SUFFICES ASSUME MoneyInv, Dead, [Next]_vars
               PROVE  Dead'
    BY MoneyStep
  <2>1. ASSUME NEW t \in Txns, Request(t)
        PROVE  Dead'
    <3>1. CASE PayoutFails(t)
      <4>1. marz[t] = "unknown"
        BY <3>1 DEF PayoutFails, NoAnswer, MoneyInv, Unsent
      <4> QED  BY <3>1, <4>1 DEF PayoutFails, Dead, MoneyInv, TypeOK
    <3>2. CASE Recorded(t)
      BY <3>2 DEF Recorded, Dead, MoneyInv, TypeOK
    <3> QED  BY <2>1, <3>1, <3>2 DEF Request, RequestDeposit, RequestWithdrawal,
                  RequestRepayment, RequestDisbursement, Initiate, CollectionFails,
                  InitiatorDies, rows, Dead
  <2>2. ASSUME NEW t \in Txns, MarzPay(t)
        PROVE  Dead'
    <3>1. CASE Accept(t)
      <4>1. status[t] = "none"
        BY <3>1 DEF Accept, MoneyInv, RowsComeLast, TypeOK
      <4> QED  BY <3>1, <4>1 DEF Accept, Dead, rows, MoneyInv, TypeOK
    <3>2. ASSUME NEW s \in Final, Settle(t, s)
          PROVE  Dead'
      BY <3>2 DEF Settle, Dead, rows, MoneyInv, TypeOK
    <3> QED  BY <2>2, <3>1, <3>2 DEF MarzPay
  <2>3. ASSUME NEW h \in Handlers, Commit(h)
        PROVE  Dead'
    <3>1. on[h] \in Txns /\ verdict[h] = marz[on[h]]
      BY <2>3, AskableOwn DEF Commit, MoneyInv, Sessions
    <3> QED  BY <2>3, <3>1 DEF Commit, outside, Dead, MoneyInv, TypeOK
  <2>4. ASSUME NEW h \in Handlers, Learn(h), ~ Commit(h)
        PROVE  Dead'
    BY <2>4 DEF Learn, Webhook, Poll, Begin, Verify, GiveUp, rows, outside, Dead
  <2>5. CASE Staff
    BY <2>5, StaffTypes DEF MoneyInv, rows, outside, Dead
  <2>6. CASE UNCHANGED vars
    BY <2>6 DEF vars, rows, outside, Dead
  <2> QED  BY <2>1, <2>2, <2>3, <2>4, <2>5, <2>6 DEF Next
<1>3. Dead => FailedMeansNotMoved
  BY DEF Dead, FailedMeansNotMoved
<1> QED  BY <1>1, <1>2, <1>3, PTL DEF Spec

\* A loan whose repayment was asked for has been paid out.
RepaymentAsked ==
    \A t \in Txns : Purpose(t) = "repayment" /\ call[t] # "idle" => loan[Target(t)] # "approved"

\* A loan that is not approved any more has had a schedule.
Lent == \A l \in Loans : loan[l] # "approved" => lent[l] >= 1

\* What is completed and not in the books is a repayment that came too late.
OnlyLateUnbooked ==
    \A t \in Txns : status[t] = "completed" /\ booked[t] = 0 =>
        /\ Purpose(t) = "repayment"
        /\ loan[Target(t)] \in {"closed", "defaulted"} \/ lent[Target(t)] > 1

\* The calls of mobile money requests start where the request is made.
LEMMA CallsBegin ==
    ASSUME MoneyInv, [Next]_vars, NEW t \in Txns, call[t] = "idle", call'[t] # "idle"
    PROVE  UNCHANGED <<books, status>> /\ Request(t)
<1>1. ASSUME NEW u \in Txns, Request(u)
      PROVE  UNCHANGED <<books, status>> /\ u = t
  BY <1>1 DEF Request, RequestDeposit, RequestWithdrawal, RequestRepayment,
              RequestDisbursement, Initiate, Recorded, PayoutFails, CollectionFails,
              InitiatorDies, NoAnswer, rows, MoneyInv, TypeOK
<1>2. ASSUME NEW u \in Txns, MarzPay(u)
      PROVE  FALSE
  BY <1>2 DEF MarzPay, Accept, Settle, MoneyInv, TypeOK
<1>3. ASSUME NEW h \in Handlers, Learn(h)
      PROVE  FALSE
  BY <1>3 DEF Learn, Webhook, Poll, Begin, Verify, GiveUp, Commit, outside
<1>4. CASE Staff
  BY <1>4, StaffTypes DEF MoneyInv, outside
<1>5. CASE UNCHANGED vars
  BY <1>5 DEF vars, outside
<1> QED  BY <1>1, <1>2, <1>3, <1>4, <1>5 DEF Next

\* What a request for a transaction asks of its loan.
LEMMA RequestsAsk ==
    ASSUME MoneyInv, NEW t \in Txns, call[t] = "idle", Request(t)
    PROVE  /\ Purpose(t) = "repayment" => loan[Target(t)] = "active"
           /\ Purpose(t) = "disbursement" => loan[Target(t)] = "approved"
BY DEF Request, RequestDeposit, RequestWithdrawal, RequestRepayment, RequestDisbursement,
       Recorded, PayoutFails, CollectionFails, InitiatorDies, NoAnswer

\* No call goes back to where it started.
LEMMA CallsStay ==
    ASSUME MoneyInv, [Next]_vars, NEW t \in Txns, call[t] # "idle"
    PROVE  call'[t] # "idle"
<1>1. ASSUME NEW u \in Txns, Request(u)
      PROVE  call'[t] # "idle"
  BY <1>1 DEF Request, RequestDeposit, RequestWithdrawal, RequestRepayment,
              RequestDisbursement, Initiate, Recorded, PayoutFails, CollectionFails,
              InitiatorDies, MoneyInv, TypeOK
<1>2. ASSUME NEW u \in Txns, MarzPay(u)
      PROVE  call'[t] # "idle"
  BY <1>2 DEF MarzPay, Accept, Settle, MoneyInv, TypeOK
<1>3. ASSUME NEW h \in Handlers, Learn(h)
      PROVE  call' = call
  BY <1>3 DEF Learn, Webhook, Poll, Begin, Verify, GiveUp, Commit, outside
<1>4. CASE Staff
  BY <1>4, StaffTypes DEF MoneyInv, outside
<1>5. CASE UNCHANGED vars
  BY <1>5 DEF vars, outside
<1> QED  BY <1>1, <1>2, <1>3, <1>4, <1>5 DEF Next

\* Only a commit makes a row COMPLETED.
LEMMA OnlyCommitsComplete ==
    ASSUME MoneyInv, [Next]_vars, NEW t \in Txns, status'[t] = "completed",
           \A h \in Handlers : ~ Commit(h)
    PROVE  status[t] = "completed"
<1>1. ASSUME NEW u \in Txns, Request(u)
      PROVE  status[t] = "completed"
  BY <1>1 DEF Request, RequestDeposit, RequestWithdrawal, RequestRepayment,
              RequestDisbursement, Initiate, Recorded, PayoutFails, CollectionFails,
              InitiatorDies, rows, MoneyInv, TypeOK
<1>2. ASSUME NEW u \in Txns, MarzPay(u)
      PROVE  status' = status
  BY <1>2 DEF MarzPay, Accept, Settle, rows
<1>3. ASSUME NEW h \in Handlers, Learn(h)
      PROVE  status' = status
  BY <1>3 DEF Learn, Webhook, Poll, Begin, Verify, GiveUp, rows
<1>4. CASE Staff
  BY <1>4, StaffTypes DEF MoneyInv, rows
<1>5. CASE UNCHANGED vars
  BY <1>5 DEF vars, rows
<1> QED  BY <1>1, <1>2, <1>3, <1>4, <1>5 DEF Next

\* A commit with its evidence: it writes the row, and books once when the
\* payment is completed, a repayment only if it found its loan active.
LEMMA CommitBooks ==
    ASSUME Isolation = "serializable", OnceInv, NEW h \in Handlers, Commit(h)
    PROVE  /\ on[h] \in Txns /\ booked[on[h]] = 0 /\ call[on[h]] = "over" /\ call' = call
           /\ status' = [status EXCEPT ![on[h]] = verdict[h]]
           /\ \/ verdict[h] # "completed" /\ UNCHANGED books
              \/ /\ verdict[h] = "completed"
                 /\ Purpose(on[h]) = "repayment" /\ view[h].loan # "active" /\ UNCHANGED books
              \/ /\ verdict[h] = "completed" /\ booked' = [booked EXCEPT ![on[h]] = 1]
                 /\ \/ BookSavings(h, on[h])
                    \/ BookRepayment(h, on[h]) /\ view[h].loan = "active"
                    \/ BookDisbursement(h, on[h])
<1>1. on[h] \in Txns /\ booked[on[h]] = 0 /\ status[on[h]] = "processing"
  BY FirstBooking
<1>2. call[on[h]] = "over" /\ call' = call
  BY <1>1 DEF OnceInv, MoneyInv, RowsComeLast, Commit, outside
<1>3. ASSUME NEW x, Enter(on[h], x)
      PROVE  booked' = [booked EXCEPT ![on[h]] = 1]
  BY <1>1, <1>3 DEF Enter, OnceInv, MoneyInv, TypeOK
<1>4. BookSavings(h, on[h]) => booked' = [booked EXCEPT ![on[h]] = 1]
  BY <1>3 DEF BookSavings
<1>5. BookDisbursement(h, on[h]) => booked' = [booked EXCEPT ![on[h]] = 1]
  BY <1>3 DEF BookDisbursement
<1>6. BookRepayment(h, on[h]) =>
          \/ view[h].loan = "active" /\ booked' = [booked EXCEPT ![on[h]] = 1]
          \/ Purpose(on[h]) = "repayment" /\ view[h].loan # "active" /\ UNCHANGED books
  BY <1>3 DEF BookRepayment, books
<1> QED  BY <1>1, <1>2, <1>4, <1>5, <1>6 DEF Commit

\* What a step may do to a loan: it does not go back to approved, and it
\* becomes active only with a schedule that is counted.
LoanMoves(l) ==
    /\ loan[l] # "approved" => loan'[l] # "approved"
    /\ lent'[l] >= lent[l]
    /\ loan[l] # "active" => loan'[l] = loan[l] \/ lent'[l] > lent[l] \/ loan'[l] \in {"closed", "defaulted"}
    /\ loan[l] = "approved" /\ loan'[l] # "approved" => lent'[l] > lent[l]

\* activate_disbursed_loan counts the schedule it makes.
LEMMA ActivateMoves ==
    ASSUME MoneyInv, NEW m \in Loans, Activate(m, loan[m], owed[m]), NEW l \in Loans
    PROVE  LoanMoves(l)
<1>1. lent \in [Loans -> Nat] /\ loan \in [Loans -> LoanStates]
  BY DEF MoneyInv, TypeOK
<1> QED  BY <1>1 DEF Activate, Waiting, LoanMoves

\* Every step on a serializable database moves loans like that.
LEMMA LoansMove ==
    ASSUME Isolation = "serializable", OnceInv, Current, [Next]_vars, NEW l \in Loans
    PROVE  LoanMoves(l)
<1>1. lent \in [Loans -> Nat] /\ loan \in [Loans -> LoanStates] /\ MoneyInv
  BY DEF OnceInv, MoneyInv, TypeOK
<1>2. UNCHANGED <<loan, lent>> => LoanMoves(l)
  BY <1>1 DEF LoanMoves
<1>3. ASSUME NEW m \in Loans, NEW seen, NEW x, loan[m] = "active", Repay(m, seen, x), lent' = lent
      PROVE  LoanMoves(l)
  BY <1>1, <1>3 DEF Repay, LoanMoves
<1>4. ASSUME NEW h \in Handlers, Commit(h)
      PROVE  LoanMoves(l)
  <2>1. on[h] \in Txns
    BY <1>4, FirstBooking
  <2>2. CASE verdict[h] = "completed" /\ BookSavings(h, on[h])
    BY <1>2, <2>2 DEF BookSavings
  <2>3. CASE verdict[h] = "completed" /\ BookRepayment(h, on[h])
    <3>1. ~ OnSavings(on[h]) /\ Target(on[h]) \in Loans
      BY <2>1, <2>3, TargetTypes DEF BookRepayment, OnSavings, SavingsPurposes
    <3>2. view[h].loan = loan[Target(on[h])]
      BY <1>4, <2>3, <3>1, BookedAsRead
    <3> QED  BY <1>2, <1>3, <2>3, <3>1, <3>2 DEF BookRepayment
  <2>4. CASE verdict[h] = "completed" /\ BookDisbursement(h, on[h])
    <3>1. ~ OnSavings(on[h]) /\ Target(on[h]) \in Loans
      BY <2>1, <2>4, TargetTypes DEF BookDisbursement, OnSavings, SavingsPurposes
    <3>2. view[h].loan = loan[Target(on[h])] /\ view[h].owed = owed[Target(on[h])]
      BY <1>4, <2>4, <3>1, BookedAsRead
    <3>3. Activate(Target(on[h]), loan[Target(on[h])], owed[Target(on[h])])
      BY <2>4, <3>2 DEF BookDisbursement
    <3> QED  BY <1>1, <3>1, <3>3, ActivateMoves
  <2> QED  BY <1>2, <1>4, <2>2, <2>3, <2>4 DEF Commit, books
<1>5. CASE Staff
  <2>1. ASSUME NEW a \in Accounts, NEW x \in CounterAmounts, CounterWithdrawal(a, x)
        PROVE  LoanMoves(l)
    BY <1>2, <2>1 DEF CounterWithdrawal
  <2>2. ASSUME NEW m \in Loans, CashDisbursement(m)
        PROVE  LoanMoves(l)
    BY <1>1, <2>2, ActivateMoves DEF CashDisbursement
  <2>3. ASSUME NEW m \in Loans, NEW x \in CounterAmounts, CounterRepayment(m, x)
        PROVE  LoanMoves(l)
    BY <1>3, <2>3 DEF CounterRepayment
  <2>4. ASSUME NEW m \in Loans, WriteOff(m)
        PROVE  LoanMoves(l)
    BY <1>1, <2>4 DEF WriteOff, LoanMoves
  <2> QED  BY <1>5, <2>1, <2>2, <2>3, <2>4 DEF Staff
<1>6. CASE ~ Staff /\ \A h \in Handlers : ~ Commit(h)
  BY <1>2, <1>6, OnlyCommitsBook DEF books
<1> QED  BY <1>4, <1>5, <1>6

\* Only a repayment that finds its loan closed or written off is completed
\* without being booked.
LEMMA UnbookedStep ==
    ASSUME Isolation = "serializable",
           OnceInv, Current, RepaymentAsked, Lent, OnlyLateUnbooked, [Next]_vars
    PROVE  RepaymentAsked' /\ Lent' /\ OnlyLateUnbooked'
<1>1. \A u \in Txns : Purpose(u) = "repayment" => Target(u) \in Loans
  BY TargetTypes DEF OnSavings, SavingsPurposes
<1>2. \A l \in Loans : LoanMoves(l) /\ lent[l] \in Nat /\ loan[l] \in LoanStates
  BY LoansMove DEF OnceInv, MoneyInv, TypeOK
<1>3. \A l \in Loans : lent'[l] \in Nat /\ loan'[l] \in LoanStates
  BY MoneyStep DEF OnceInv, MoneyInv, TypeOK
<1>4. RepaymentAsked'
  <2> SUFFICES ASSUME NEW t \in Txns, Purpose(t) = "repayment", call'[t] # "idle"
               PROVE  loan'[Target(t)] # "approved"
    BY DEF RepaymentAsked
  <2>1. CASE call[t] # "idle"
    BY <1>1, <1>2, <2>1 DEF RepaymentAsked, LoanMoves
  <2>2. CASE call[t] = "idle"
    BY <1>1, <1>2, <2>2, CallsBegin, RequestsAsk DEF LoanMoves, OnceInv
  <2> QED  BY <2>1, <2>2
<1>5. Lent'
  <2> SUFFICES ASSUME NEW l \in Loans, loan'[l] # "approved"
               PROVE  lent'[l] >= 1
    BY DEF Lent
  <2> QED  BY <1>2, <1>3 DEF Lent, LoanMoves
<1>6. ASSUME NEW t \in Txns, Purpose(t) = "repayment",
             loan[Target(t)] \in {"closed", "defaulted"} \/ lent[Target(t)] > 1
      PROVE  loan'[Target(t)] \in {"closed", "defaulted"} \/ lent'[Target(t)] > 1
  <2>1. Target(t) \in Loans
    BY <1>1, <1>6
  <2> QED  BY <1>2, <1>3, <1>6, <2>1 DEF Lent, LoanMoves
<1>7. OnlyLateUnbooked'
  <2> SUFFICES ASSUME NEW t \in Txns, status'[t] = "completed", booked'[t] = 0
               PROVE  /\ Purpose(t) = "repayment"
                      /\ loan'[Target(t)] \in {"closed", "defaulted"} \/ lent'[Target(t)] > 1
    BY DEF OnlyLateUnbooked
  <2>1. CASE \A h \in Handlers : ~ Commit(h)
    <3>1. booked' = booked
      BY <2>1, OnlyCommitsBook, StaffTypes DEF books, OnceInv, MoneyInv
    <3> QED  BY <1>6, <2>1, <3>1, OnlyCommitsComplete DEF OnlyLateUnbooked, OnceInv
  <2>2. ASSUME NEW h \in Handlers, Commit(h)
        PROVE  /\ Purpose(t) = "repayment"
               /\ loan'[Target(t)] \in {"closed", "defaulted"} \/ lent'[Target(t)] > 1
    <3>1. /\ on[h] \in Txns /\ booked[on[h]] = 0 /\ call[on[h]] = "over" /\ call' = call
          /\ status' = [status EXCEPT ![on[h]] = verdict[h]]
      BY <2>2, CommitBooks
    <3>2. booked' = booked \/ booked' = [booked EXCEPT ![on[h]] = 1]
      BY <2>2, CommitBooks DEF books
    <3>3. CASE t # on[h]
      <4>1. status[t] = "completed" /\ booked[t] = 0
        BY <3>1, <3>2, <3>3 DEF OnceInv, MoneyInv, TypeOK
      <4> QED  BY <1>6, <4>1 DEF OnlyLateUnbooked
    <3>4. CASE t = on[h]
      <4>1. verdict[h] = "completed" /\ booked' # [booked EXCEPT ![t] = 1]
        BY <3>1, <3>4 DEF OnceInv, MoneyInv, TypeOK
      <4>2. Purpose(t) = "repayment" /\ view[h].loan # "active"
        BY <2>2, <3>4, <4>1, CommitBooks
      <4>3. view[h].loan = loan[Target(t)]
        BY <2>2, <3>4, <4>1, <4>2, BookedAsRead DEF OnSavings, SavingsPurposes
      <4>4. loan[Target(t)] \in {"closed", "defaulted"}
        BY <1>1, <1>2, <3>1, <3>4, <4>2, <4>3 DEF RepaymentAsked, LoanStates
      <4> QED  BY <1>6, <4>2, <4>4
    <3> QED  BY <3>3, <3>4
  <2> QED  BY <2>1, <2>2
<1> QED  BY <1>4, <1>5, <1>7

\* The rows a member sees are true. With a serializable database, no lost
\* answer and callbacks that carry their own uuid, COMPLETED was booked, unless
\* it is a repayment whose loan was closed or written off meanwhile, FAILED and
\* CANCELLED moved nothing, and the balance is the sum of its rows.
THEOREM RowsStayTrue ==
    ASSUME Isolation = "serializable", "reply_lost" \notin Faults, "other_uuid" \notin Faults
    PROVE  Spec => []RowsAreTrue
<1> DEFINE Inv == OnceInv /\ Current /\ RepaymentAsked /\ Lent /\ OnlyLateUnbooked
<1>1. Init => Inv
  BY MoneyInit DEF Init, OnceInv, Fresh, Accounted, Current, RepaymentAsked, Lent, OnlyLateUnbooked
<1>2. Inv /\ [Next]_vars => Inv'
  BY OnceStep, CurrentStep, UnbookedStep DEF OnceInv
<1>3. Inv => CompletedIsBooked
  BY DEF OnceInv, Accounted, OnlyLateUnbooked, CompletedIsBooked
<1>4. Inv /\ FailedMeansNotMoved /\ BalanceMatchesRows => RowsAreTrue
  BY <1>3 DEF RowsAreTrue
<1> QED  BY <1>1, <1>2, <1>4, FailuresAreTrue, BalancesAreTheirRows, PTL DEF Spec

-----------------------------------------------------------------------------
(* What a loan still owes                                                  *)

\* Only an active loan has a schedule with something due on it.
OwedWhileActive == \A l \in Loans : loan[l] # "active" => owed[l] = 0

OwedInv == OwedWhileActive /\ OwedAddsUp

\* apply_loan_repayment on an active loan takes off the schedule what is
\* posted, and closes the loan when nothing is left.
LEMMA RepayAddsUp ==
    ASSUME MoneyInv, OwedInv, NEW l \in Loans, loan[l] = "active", NEW x \in Nat,
           Repay(l, owed[l], x), lent' = lent
    PROVE  OwedInv'
<1> DEFINE paid == Applied(x, owed[l])
<1>1. paid \in Int /\ owed[l] \in Int /\ recovered[l] \in Int
  BY DEF Applied, MoneyInv, TypeOK
<1>2. /\ owed' = [owed EXCEPT ![l] = owed[l] - paid]
      /\ loan' = IF owed[l] - paid = 0 THEN [loan EXCEPT ![l] = "closed"] ELSE loan
      /\ recovered' = [recovered EXCEPT ![l] = @ + Posted(paid)]
  BY DEF Repay
<1> HIDE DEF paid
<1>3. OwedWhileActive'
  BY <1>1, <1>2 DEF OwedInv, OwedWhileActive, MoneyInv, TypeOK
<1>4. ASSUME GlConfigured, NEW m \in Loans
      PROVE  owed'[m] + recovered'[m] = owed[m] + recovered[m]
  BY <1>1, <1>2, <1>4 DEF Posted, MoneyInv, TypeOK
<1>5. OwedAddsUp'
  BY <1>4 DEF OwedInv, OwedAddsUp
<1> QED  BY <1>3, <1>5 DEF OwedInv

\* A write-off posts all that the schedule still asks for.
LEMMA WriteOffAddsUp ==
    ASSUME MoneyInv, OwedInv, NEW l \in Loans, WriteOff(l)
    PROVE  OwedInv'
<1>1. /\ owed' = [owed EXCEPT ![l] = 0] /\ loan' = [loan EXCEPT ![l] = "defaulted"]
      /\ recovered' = [recovered EXCEPT ![l] = @ + Posted(owed[l])] /\ lent' = lent
  BY DEF WriteOff
<1>2. OwedWhileActive'
  BY <1>1 DEF OwedInv, OwedWhileActive, MoneyInv, TypeOK
<1>3. ASSUME GlConfigured, NEW m \in Loans
      PROVE  owed'[m] + recovered'[m] = owed[m] + recovered[m]
  <2>1. owed[l] \in Int /\ recovered[l] \in Int /\ recovered[m] \in Int
    BY DEF MoneyInv, TypeOK
  <2> QED  BY <1>1, <1>3, <2>1 DEF Posted, MoneyInv, TypeOK
<1>4. OwedAddsUp'
  BY <1>1, <1>3 DEF OwedInv, OwedAddsUp
<1> QED  BY <1>2, <1>4 DEF OwedInv

\* activate_disbursed_loan makes a schedule only for a loan that has none left.
LEMMA ActivateAddsUp ==
    ASSUME MoneyInv, OwedInv, NEW l \in Loans, Activate(l, loan[l], owed[l]),
           recovered' = recovered
    PROVE  OwedInv'
<1>1. CASE ~ Waiting(loan[l])
  BY <1>1 DEF Activate, OwedInv, OwedWhileActive, OwedAddsUp
<1>2. CASE Waiting(loan[l])
  <2>1. owed[l] = 0 /\ lent[l] \in Nat /\ Due[l] \in Nat /\ recovered[l] \in Int
    BY <1>2, MoneyAssumption DEF Waiting, OwedInv, OwedWhileActive, MoneyInv, TypeOK
  <2>2. /\ loan' = [loan EXCEPT ![l] = "active"]
        /\ owed' = [owed EXCEPT ![l] = Due[l]]
        /\ lent' = [lent EXCEPT ![l] = lent[l] + 1]
    BY <1>2, <2>1 DEF Activate, MoneyInv, TypeOK
  <2>3. (lent[l] + 1) * Due[l] = lent[l] * Due[l] + Due[l]
    BY <2>1
  <2>4. OwedWhileActive'
    BY <2>2 DEF OwedInv, OwedWhileActive, MoneyInv, TypeOK
  <2>5. ASSUME GlConfigured, NEW m \in Loans
        PROVE  owed'[m] + recovered'[m] = lent'[m] * Due[m]
    <3>1. CASE m # l
      BY <2>2, <2>5, <3>1 DEF OwedInv, OwedAddsUp, MoneyInv, TypeOK
    <3>2. CASE m = l
      <4>1. recovered[l] = lent[l] * Due[l]
        BY <2>1, <2>5 DEF OwedInv, OwedAddsUp
      <4>2. owed'[l] = Due[l] /\ lent'[l] = lent[l] + 1 /\ recovered'[l] = recovered[l]
        BY <2>2 DEF MoneyInv, TypeOK
      <4> QED  BY <2>1, <2>3, <3>2, <4>1, <4>2
    <3> QED  BY <3>1, <3>2
  <2>6. OwedAddsUp'
    BY <2>5 DEF OwedAddsUp
  <2> QED  BY <2>4, <2>6 DEF OwedInv
<1> QED  BY <1>1, <1>2

\* Every step of a serializable database adds up.
LEMMA OwedStep ==
    ASSUME Isolation = "serializable", OnceInv, Current, OwedInv, [Next]_vars
    PROVE  OwedInv'
<1>1. MoneyInv
  BY DEF OnceInv
<1>2. UNCHANGED <<loan, owed, lent, recovered>> => OwedInv'
  BY DEF OwedInv, OwedWhileActive, OwedAddsUp
<1>3. ASSUME NEW h \in Handlers, Commit(h)
      PROVE  OwedInv'
  <2>1. on[h] \in Txns
    BY <1>3, FirstBooking
  <2>2. CASE verdict[h] = "completed" /\ BookSavings(h, on[h])
    BY <1>2, <2>2 DEF BookSavings
  <2>3. CASE verdict[h] = "completed" /\ BookRepayment(h, on[h])
    <3>1. ~ OnSavings(on[h]) /\ Target(on[h]) \in Loans
      BY <2>1, <2>3, TargetTypes DEF BookRepayment, OnSavings, SavingsPurposes
    <3>2. view[h].loan = loan[Target(on[h])] /\ view[h].owed = owed[Target(on[h])]
      BY <1>3, <2>3, <3>1, BookedAsRead
    <3>3. CASE view[h].loan = "active"
      BY <1>1, <2>1, <2>3, <3>1, <3>2, <3>3, AmountIsNat, RepayAddsUp DEF BookRepayment
    <3>4. CASE view[h].loan # "active"
      BY <1>2, <2>3, <3>4 DEF BookRepayment
    <3> QED  BY <3>3, <3>4
  <2>4. CASE verdict[h] = "completed" /\ BookDisbursement(h, on[h])
    <3>1. ~ OnSavings(on[h]) /\ Target(on[h]) \in Loans
      BY <2>1, <2>4, TargetTypes DEF BookDisbursement, OnSavings, SavingsPurposes
    <3>2. view[h].loan = loan[Target(on[h])] /\ view[h].owed = owed[Target(on[h])]
      BY <1>3, <2>4, <3>1, BookedAsRead
    <3>3. Activate(Target(on[h]), loan[Target(on[h])], owed[Target(on[h])]) /\ recovered' = recovered
      BY <2>4, <3>2 DEF BookDisbursement
    <3> QED  BY <1>1, <3>1, <3>3, ActivateAddsUp
  <2> QED  BY <1>2, <1>3, <2>2, <2>3, <2>4 DEF Commit, books
<1>4. CASE Staff
  <2>1. ASSUME NEW a \in Accounts, NEW x \in CounterAmounts, CounterWithdrawal(a, x)
        PROVE  OwedInv'
    BY <1>2, <2>1 DEF CounterWithdrawal
  <2>2. ASSUME NEW l \in Loans, CashDisbursement(l)
        PROVE  OwedInv'
    BY <1>1, <2>2, ActivateAddsUp DEF CashDisbursement
  <2>3. ASSUME NEW l \in Loans, NEW x \in CounterAmounts, CounterRepayment(l, x)
        PROVE  OwedInv'
    BY <1>1, <2>3, RepayAddsUp, MoneyAssumption DEF CounterRepayment
  <2>4. ASSUME NEW l \in Loans, WriteOff(l)
        PROVE  OwedInv'
    BY <1>1, <2>4, WriteOffAddsUp
  <2> QED  BY <1>4, <2>1, <2>2, <2>3, <2>4 DEF Staff
<1>5. CASE ~ Staff /\ \A h \in Handlers : ~ Commit(h)
  BY <1>2, <1>5, OnlyCommitsBook DEF books
<1> QED  BY <1>3, <1>4, <1>5

\* With a serializable database, what a loan's schedule still asks for and what
\* was collected or written off add up to what its payouts asked for, whatever
\* MarzPay loses, repeats or confuses, and however the counter, the webhook and
\* the poll overlap.
THEOREM OwedAlwaysAddsUp ==
    ASSUME Isolation = "serializable"
    PROVE  Spec => []OwedAddsUp
<1> DEFINE Inv == OnceInv /\ Current /\ OwedInv
<1>1. Init => OwedInv
  <2> SUFFICES ASSUME Init
               PROVE  OwedInv
    OBVIOUS
  <2>1. OwedWhileActive
    BY DEF Init, OwedWhileActive
  <2>2. ASSUME NEW l \in Loans
        PROVE  owed[l] + recovered[l] = lent[l] * Due[l]
    BY MoneyAssumption DEF Init
  <2> QED  BY <2>1, <2>2 DEF OwedInv, OwedAddsUp
<1>2. Init => Inv
  BY <1>1, MoneyInit DEF Init, OnceInv, Fresh, Accounted, Current
<1>3. Inv /\ [Next]_vars => Inv'
  BY OnceStep, CurrentStep, OwedStep DEF OnceInv
<1>4. Inv => OwedAddsUp
  BY DEF OwedInv
<1> QED  BY <1>2, <1>3, <1>4, PTL DEF Spec
=============================================================================

----------------------------- MODULE MobileMoney -----------------------------
(***************************************************************************)
(* Mobile money: a request is sent to MarzPay, MarzPay moves the money at  *)
(* a time of its own, and the SACCO learns of it from a webhook or from a  *)
(* status poll, either of which enters the payment in the books.           *)
(*                                                                         *)
(* MarzPay is the environment: it may accept a request whose reply is then *)
(* lost, call back early, several times or never.  A handler reads the     *)
(* transaction's row, asks MarzPay, and only then books and commits.  The  *)
(* webhook asks about the uuid of the callback's body and compares nothing *)
(* of the answer with the row: what a callback that carries the uuid of    *)
(* another transaction leads to is modelled as a fault of the environment. *)
(* A savings account is its balance, a loan's schedule is the total still  *)
(* due on it, interest included; how a repayment is split into principal   *)
(* and interest, and Loans Receivable with it, is LoanBook's.  PENDING is  *)
(* never committed, so no other session sees it.                           *)
(***************************************************************************)
EXTENDS Integers

CONSTANTS Txns,           \* mobile money transactions, each requested once
          JobOf,          \* [Txns -> [purpose, target, amount]]
          Accounts,       \* savings accounts
          Minimum,        \* [Accounts -> Nat], the product's minimum balance
          Opening,        \* [Accounts -> Nat], balances at the start
          Loans,          \* loan applications, all approved at the start
          Principal,      \* [Loans -> Nat], LoanApplication.amount_approved
          Due,            \* [Loans -> Nat], what the schedule asks for in all
          Unit,           \* MarzPay moves whole shillings: multiples of Unit
          GlConfigured,   \* whether the products' and the clearing account are set up
          Handlers,       \* sessions that serve webhooks and polls
          Counter,        \* operations of staff enabled in this instance
          CounterAmounts, \* amounts such an operation may carry
          Faults,         \* subset of {"reply_lost", "crash", "other_uuid"}
          Isolation,      \* "read_committed" or "serializable"
          SingleWorker    \* one uvicorn process: the webhook handler blocks its event loop

Purposes == {"deposit", "withdrawal", "repayment", "disbursement"}
SavingsPurposes == {"deposit", "withdrawal"}
Final == {"completed", "failed", "cancelled"}
LoanStates == {"approved", "active", "closed", "defaulted"}

Purpose(t) == JobOf[t].purpose
Target(t)  == JobOf[t].target
OnSavings(t) == Purpose(t) \in SavingsPurposes

ASSUME JobsAssumption ==
    \A t \in Txns :
        /\ JobOf[t] \in [purpose : Purposes, target : Accounts \cup Loans, amount : Nat \ {0}]
        /\ IF OnSavings(t) THEN Target(t) \in Accounts ELSE Target(t) \in Loans
ASSUME TargetsAssumption == Accounts \cap Loans = {}
ASSUME MoneyAssumption ==
    /\ Minimum \in [Accounts -> Nat] /\ Opening \in [Accounts -> Nat]
    /\ Principal \in [Loans -> Nat \ {0}]
    /\ Due \in [Loans -> Nat] /\ \A l \in Loans : Due[l] >= Principal[l]
    /\ Unit \in Nat \ {0} /\ CounterAmounts \subseteq Nat \ {0}
ASSUME SettingsAssumption ==
    /\ GlConfigured \in BOOLEAN /\ SingleWorker \in BOOLEAN
    /\ Isolation \in {"read_committed", "serializable"}

VARIABLES
    \* committed tables
    status,     \* MobileMoneyTransaction.status, "none" when there is no row
    uuid,       \* whether the row has a marzpay_transaction_uuid
    balance,    \* SavingsAccount.balance
    rowSum,     \* signed sum of the account's SavingsTransaction rows
    loan,       \* LoanApplication.status
    owed,       \* what the loan's schedule still asks for
    lent,       \* how often a schedule was made: its "disbursement" LoanTransactions
    recovered,  \* what the ledger shows as collected or written off of the loan
    booked,     \* how often _finalize_success entered the transaction
    cleared,    \* net debit of the transaction on the mobile money clearing account
    \* MarzPay and the endpoints that call it
    marz,       \* what MarzPay did with the request, "unknown" before it arrives
    call,       \* "idle", "calling", "accepted" or "over"
    \* sessions that learn of the outcome
    phase,      \* "idle", "asking" or "booking"
    channel,    \* "webhook" or "poll"
    on,         \* the transaction the session works on
    asked,      \* the transaction it asks MarzPay about
    verdict,    \* the final status MarzPay answered
    view,       \* the account or loan as the session read it
    stale       \* whether a row it read has changed since

books    == <<balance, rowSum, loan, owed, lent, recovered, booked, cleared>>
rows     == <<status, uuid>>
outside  == <<marz, call>>
handlers == <<phase, channel, on, asked, verdict, view, stale>>
vars     == <<books, rows, outside, handlers>>

NoTxn == "none"
Unseen == [balance |-> 0, loan |-> "approved", owed |-> 0]

TypeOK ==
    /\ status \in [Txns -> Final \cup {"none", "processing"}]
    /\ uuid \in [Txns -> BOOLEAN]
    /\ balance \in [Accounts -> Int] /\ rowSum \in [Accounts -> Int]
    /\ loan \in [Loans -> LoanStates]
    /\ owed \in [Loans -> Int] /\ lent \in [Loans -> Nat] /\ recovered \in [Loans -> Int]
    /\ booked \in [Txns -> Nat] /\ cleared \in [Txns -> Int]
    /\ marz \in [Txns -> Final \cup {"unknown", "processing"}]
    /\ call \in [Txns -> {"idle", "calling", "accepted", "over"}]
    /\ phase \in [Handlers -> {"idle", "asking", "booking"}]
    /\ channel \in [Handlers -> {"webhook", "poll"}]
    /\ on \in [Handlers -> Txns \cup {NoTxn}]
    /\ asked \in [Handlers -> Txns \cup {NoTxn}]
    /\ verdict \in [Handlers -> Final]
    /\ view \in [Handlers -> [balance : Int, loan : LoanStates, owed : Int]]
    /\ stale \in [Handlers -> BOOLEAN]

Init ==
    /\ status = [t \in Txns |-> "none"]
    /\ uuid = [t \in Txns |-> FALSE]
    /\ balance = Opening
    /\ rowSum = Opening
    /\ loan = [l \in Loans |-> "approved"]
    /\ owed = [l \in Loans |-> 0]
    /\ lent = [l \in Loans |-> 0]
    /\ recovered = [l \in Loans |-> 0]
    /\ booked = [t \in Txns |-> 0]
    /\ cleared = [t \in Txns |-> 0]
    /\ marz = [t \in Txns |-> "unknown"]
    /\ call = [t \in Txns |-> "idle"]
    /\ phase = [h \in Handlers |-> "idle"]
    /\ channel = [h \in Handlers |-> "poll"]
    /\ on = [h \in Handlers |-> NoTxn]
    /\ asked = [h \in Handlers |-> NoTxn]
    /\ verdict = [h \in Handlers |-> "failed"]
    /\ view = [h \in Handlers |-> Unseen]
    /\ stale = [h \in Handlers |-> FALSE]

-----------------------------------------------------------------------------
(* Amounts                                                                 *)

\* a disbursement carries the amount that was approved
Amount(t) == IF Purpose(t) = "disbursement" THEN Principal[Target(t)] ELSE JobOf[t].amount

\* the client sends int(amount)
Collected(t) == (Amount(t) \div Unit) * Unit

\* signed from the SACCO's side: collections bring money in
Signed(t, x) == IF Purpose(t) \in {"deposit", "repayment"} THEN x ELSE -x

Posted(x) == IF GlConfigured THEN x ELSE 0

Applied(x, due) == IF x <= due THEN x ELSE due

-----------------------------------------------------------------------------
(* Requests                                                                *)

Initiate(t) ==
    /\ call[t] = "idle"
    /\ call' = [call EXCEPT ![t] = "calling"]
    /\ UNCHANGED <<books, rows, marz, handlers>>

RequestDeposit(t) ==
    /\ Purpose(t) = "deposit"
    /\ Initiate(t)

\* the balance is checked now, and not again when the payout is booked
RequestWithdrawal(t) ==
    /\ Purpose(t) = "withdrawal"
    /\ balance[Target(t)] - Amount(t) >= Minimum[Target(t)]
    /\ Initiate(t)

RequestRepayment(t) ==
    /\ Purpose(t) = "repayment"
    /\ loan[Target(t)] = "active"
    /\ Initiate(t)

\* the loan stays approved until the payout is booked
RequestDisbursement(t) ==
    /\ Purpose(t) = "disbursement"
    /\ loan[Target(t)] = "approved"
    /\ Initiate(t)

\* the answer is 2xx; it may lack the transaction's uuid
Recorded(t) ==
    /\ call[t] = "accepted"
    /\ call' = [call EXCEPT ![t] = "over"]
    /\ status' = [status EXCEPT ![t] = "processing"]
    /\ \E u \in BOOLEAN : uuid' = [uuid EXCEPT ![t] = u]
    /\ UNCHANGED <<books, marz, handlers>>

\* MarzPayError: the request is refused, times out, or its answer is lost
NoAnswer(t) ==
    \/ call[t] = "calling"
    \/ call[t] = "accepted" /\ "reply_lost" \in Faults

\* Mutant: a payout without an answer is taken for done
PayoutAssumed(t) ==
    /\ Purpose(t) \in {"withdrawal", "disbursement"}
    /\ NoAnswer(t)
    /\ call' = [call EXCEPT ![t] = "over"]
    /\ status' = [status EXCEPT ![t] = "completed"]
    /\ UNCHANGED <<books, uuid, marz, handlers>>

\* a payout is committed as FAILED
PayoutFails(t) ==
    /\ Purpose(t) \in {"withdrawal", "disbursement"}
    /\ NoAnswer(t)
    /\ call' = [call EXCEPT ![t] = "over"]
    /\ status' = [status EXCEPT ![t] = "failed"]
    /\ UNCHANGED <<books, uuid, marz, handlers>>

\* _dispatch_collection raises before anything is committed, and get_db
\* rolls the row back
CollectionFails(t) ==
    /\ Purpose(t) \in {"deposit", "repayment"}
    /\ NoAnswer(t)
    /\ call' = [call EXCEPT ![t] = "over"]
    /\ UNCHANGED <<books, rows, marz, handlers>>

\* the process or the commit fails between the call and the commit
InitiatorDies(t) ==
    /\ "crash" \in Faults
    /\ call[t] \in {"calling", "accepted"}
    /\ call' = [call EXCEPT ![t] = "over"]
    /\ UNCHANGED <<books, rows, marz, handlers>>

(* MarzPay                                                                 *)

Accept(t) ==
    /\ call[t] = "calling"
    /\ call' = [call EXCEPT ![t] = "accepted"]
    /\ marz' = [marz EXCEPT ![t] = "processing"]
    /\ UNCHANGED <<books, rows, handlers>>

Settle(t, s) ==
    /\ marz[t] = "processing"
    /\ marz' = [marz EXCEPT ![t] = s]
    /\ UNCHANGED <<books, rows, call, handlers>>

-----------------------------------------------------------------------------
(* Learning the outcome                                                    *)

\* marzpay_webhook is async and calls blocking code: nothing else starts on
\* the event loop of its process while it runs
LoopFree ==
    SingleWorker => \A g \in Handlers : phase[g] # "idle" => channel[g] = "poll"

Begin(h, t, c, u) ==
    /\ phase[h] = "idle"
    /\ LoopFree
    /\ phase' = [phase EXCEPT ![h] = "asking"]
    /\ channel' = [channel EXCEPT ![h] = c]
    /\ on' = [on EXCEPT ![h] = t]
    /\ asked' = [asked EXCEPT ![h] = u]
    /\ UNCHANGED <<books, rows, outside, verdict, view, stale>>

Collection(t) == Purpose(t) \in {"deposit", "repayment"}

\* What the webhook may ask about for t: the uuid the callback carries, or the
\* row's own when it carries none.  get_collection knows no disbursement and
\* the other way round.
Askable(t) ==
    {u \in Txns : \/ u = t
                  \/ "other_uuid" \in Faults /\ Collection(u) = Collection(t)}

\* Mutant: callbacks are taken for transactions whose status is final
WebhookAgain(h, t) ==
    /\ marz[t] # "unknown"
    /\ status[t] # "none"
    /\ \E u \in Askable(t) : Begin(h, t, "webhook", u)

\* A callback is answered "unknown_reference" when the row is not there yet
\* and "already_processed" when its status is final; neither changes anything.
Webhook(h, t) ==
    /\ marz[t] # "unknown"
    /\ status[t] = "processing"
    /\ \E u \in Askable(t) : Begin(h, t, "webhook", u)

\* Mutant: every status is asked for as that of a collection
PollCollection(h, t) ==
    /\ status[t] = "processing" /\ uuid[t]
    /\ Collection(t)
    /\ Begin(h, t, "poll", t)

Poll(h, t) ==
    /\ status[t] = "processing"
    /\ uuid[t]
    /\ Begin(h, t, "poll", t)

End(h) ==
    /\ phase' = [phase EXCEPT ![h] = "idle"]
    /\ channel' = [channel EXCEPT ![h] = "poll"]
    /\ on' = [on EXCEPT ![h] = NoTxn]
    /\ asked' = [asked EXCEPT ![h] = NoTxn]
    /\ verdict' = [verdict EXCEPT ![h] = "failed"]
    /\ view' = [view EXCEPT ![h] = Unseen]

\* MarzPay has no final status, cannot be reached, or the commit is refused
\* or fails: the session changes nothing
GiveUp(h) ==
    /\ phase[h] # "idle"
    /\ End(h)
    /\ stale' = [stale EXCEPT ![h] = FALSE]
    /\ UNCHANGED <<books, rows, outside>>

\* Mutant: the status is the one the callback claims
VerifyNothing(h) ==
    LET t == on[h] IN
    /\ phase[h] = "asking"
    /\ phase' = [phase EXCEPT ![h] = "booking"]
    /\ \E s \in Final \cup {"processing"} : verdict' = [verdict EXCEPT ![h] = s]
    /\ view' = [view EXCEPT ![h] =
          IF OnSavings(t) THEN [Unseen EXCEPT !.balance = balance[Target(t)]]
          ELSE [balance |-> 0, loan |-> loan[Target(t)], owed |-> owed[Target(t)]]]
    /\ UNCHANGED <<books, rows, outside, channel, on, asked, stale>>

\* MarzPay answers a final status of the transaction it was asked about, and
\* _finalize_success reads what it changes
Verify(h) ==
    LET t == on[h] IN
    /\ phase[h] = "asking"
    /\ marz[asked[h]] \in Final
    /\ phase' = [phase EXCEPT ![h] = "booking"]
    /\ verdict' = [verdict EXCEPT ![h] = marz[asked[h]]]
    /\ view' = [view EXCEPT ![h] =
          IF OnSavings(t) THEN [Unseen EXCEPT !.balance = balance[Target(t)]]
          ELSE [balance |-> 0, loan |-> loan[Target(t)], owed |-> owed[Target(t)]]]
    /\ UNCHANGED <<books, rows, outside, channel, on, asked, stale>>

(* _finalize_success, one definition per purpose                           *)

Enter(t, x) ==
    /\ booked' = [booked EXCEPT ![t] = @ + 1]
    /\ cleared' = [cleared EXCEPT ![t] = @ + Posted(Signed(t, x))]

\* the balance is written as it was read plus or minus the amount
BookSavings(h, t) ==
    /\ OnSavings(t)
    /\ balance' = [balance EXCEPT ![Target(t)] = view[h].balance + Signed(t, Amount(t))]
    /\ rowSum' = [rowSum EXCEPT ![Target(t)] = @ + Signed(t, Amount(t))]
    /\ Enter(t, Amount(t))
    /\ UNCHANGED <<loan, owed, lent, recovered>>

\* apply_loan_repayment and post_loan_repayment_gl: what exceeds the schedule
\* is applied to nothing and posted nowhere
Repay(l, seen, x) ==
    LET paid == Applied(x, seen) IN
    /\ owed' = [owed EXCEPT ![l] = seen - paid]
    /\ loan' = IF seen - paid = 0 THEN [loan EXCEPT ![l] = "closed"] ELSE loan
    /\ recovered' = [recovered EXCEPT ![l] = @ + Posted(paid)]

BookRepayment(h, t) ==
    /\ Purpose(t) = "repayment"
    /\ IF view[h].loan = "active"
       THEN /\ Repay(Target(t), view[h].owed, Amount(t))
            /\ Enter(t, Applied(Amount(t), view[h].owed))
       ELSE UNCHANGED <<loan, owed, recovered, booked, cleared>>
    /\ UNCHANGED <<balance, rowSum, lent>>

\* Mutant: a schedule is made for a loan that is active already
AlwaysWaiting(state) == state # "closed"

\* activate_disbursed_loan: no-op unless the loan waits for its money; the
\* schedule rows the session read are replaced by new ones
Waiting(state) == state \notin {"active", "closed"}

Activate(l, state, seen) ==
    IF Waiting(state)
    THEN /\ loan' = [loan EXCEPT ![l] = "active"]
         /\ owed' = [owed EXCEPT ![l] = (@ - seen) + Due[l]]
         /\ lent' = [lent EXCEPT ![l] = @ + 1]
    ELSE UNCHANGED <<loan, owed, lent>>

\* the journal entry is posted whether or not the loan was activated
BookDisbursement(h, t) ==
    LET l == Target(t) IN
    /\ Purpose(t) = "disbursement"
    /\ Activate(l, view[h].loan, view[h].owed)
    /\ Enter(t, Amount(t))
    /\ UNCHANGED <<balance, rowSum, recovered>>

\* rows of savings_accounts or loan_applications that the session updates
Written(h) ==
    LET t == on[h] IN
    CASE verdict[h] # "completed"     -> {}
      [] OnSavings(t)                 -> {Target(t)}
      [] Purpose(t) = "repayment"     -> IF view[h].loan = "active" THEN {Target(t)} ELSE {}
      [] Purpose(t) = "disbursement"  -> IF Waiting(view[h].loan) THEN {Target(t)} ELSE {}

\* sessions that have read a row of T or of S
Disturbed(T, S) ==
    {g \in Handlers : /\ phase[g] # "idle"
                      /\ \/ on[g] \in T
                         \/ /\ phase[g] = "booking" /\ verdict[g] = "completed"
                            /\ Target(on[g]) \in S}

Commit(h) ==
    LET t == on[h] IN
    /\ phase[h] = "booking"
    /\ Isolation = "serializable" => ~ stale[h]
    /\ status' = [status EXCEPT ![t] = verdict[h]]
    /\ IF verdict[h] = "completed"
       THEN BookSavings(h, t) \/ BookRepayment(h, t) \/ BookDisbursement(h, t)
       ELSE UNCHANGED books
    /\ stale' = [g \in Handlers |->
                     g # h /\ (stale[g] \/ g \in Disturbed({t}, Written(h)))]
    /\ End(h)
    /\ UNCHANGED <<uuid, outside>>

-----------------------------------------------------------------------------
(* What staff do meanwhile, each one transaction that conflicts with nothing *)

Disturb(x) == stale' = [g \in Handlers |-> stale[g] \/ g \in Disturbed({}, {x})]

\* post_savings_transaction
CounterWithdrawal(a, x) ==
    /\ "withdrawal" \in Counter
    /\ balance[a] - x >= Minimum[a]
    /\ balance' = [balance EXCEPT ![a] = @ - x]
    /\ rowSum' = [rowSum EXCEPT ![a] = @ - x]
    /\ Disturb(a)
    /\ UNCHANGED <<rows, outside, loan, owed, lent, recovered, booked, cleared,
                   phase, channel, on, asked, verdict, view>>

\* disburse_loan in cash: the cash account is not the clearing account
CashDisbursement(l) ==
    /\ "disbursement" \in Counter
    /\ loan[l] = "approved"
    /\ Activate(l, loan[l], owed[l])
    /\ Disturb(l)
    /\ UNCHANGED <<rows, outside, balance, rowSum, recovered, booked, cleared,
                   phase, channel, on, asked, verdict, view>>

\* record_loan_repayment
CounterRepayment(l, x) ==
    /\ "repayment" \in Counter
    /\ loan[l] = "active"
    /\ Repay(l, owed[l], x)
    /\ Disturb(l)
    /\ UNCHANGED <<rows, outside, balance, rowSum, lent, booked, cleared,
                   phase, channel, on, asked, verdict, view>>

\* Mutant: all that was lent is written off, whatever was repaid of it
WriteOffAll(l) ==
    /\ "write_off" \in Counter
    /\ loan[l] \in {"active", "defaulted"}
    /\ owed[l] > 0
    /\ loan' = [loan EXCEPT ![l] = "defaulted"]
    /\ owed' = [owed EXCEPT ![l] = 0]
    /\ recovered' = [recovered EXCEPT ![l] = @ + Posted(Due[l])]
    /\ Disturb(l)
    /\ UNCHANGED <<rows, outside, balance, rowSum, lent, booked, cleared,
                   phase, channel, on, asked, verdict, view>>

\* write_off_loan
WriteOff(l) ==
    /\ "write_off" \in Counter
    /\ loan[l] \in {"active", "defaulted"}
    /\ owed[l] > 0
    /\ loan' = [loan EXCEPT ![l] = "defaulted"]
    /\ owed' = [owed EXCEPT ![l] = 0]
    /\ recovered' = [recovered EXCEPT ![l] = @ + Posted(owed[l])]
    /\ Disturb(l)
    /\ UNCHANGED <<rows, outside, balance, rowSum, lent, booked, cleared,
                   phase, channel, on, asked, verdict, view>>

-----------------------------------------------------------------------------
Request(t) ==
    \/ RequestDeposit(t) \/ RequestWithdrawal(t)
    \/ RequestRepayment(t) \/ RequestDisbursement(t)
    \/ Recorded(t) \/ PayoutFails(t) \/ CollectionFails(t) \/ InitiatorDies(t)

MarzPay(t) == Accept(t) \/ \E s \in Final : Settle(t, s)

Learn(h) ==
    \/ \E t \in Txns : Webhook(h, t) \/ Poll(h, t)
    \/ Verify(h) \/ Commit(h) \/ GiveUp(h)

Staff ==
    \/ \E a \in Accounts, x \in CounterAmounts : CounterWithdrawal(a, x)
    \/ \E l \in Loans : CashDisbursement(l) \/ WriteOff(l)
    \/ \E l \in Loans, x \in CounterAmounts : CounterRepayment(l, x)

Next ==
    \/ \E t \in Txns : Request(t) \/ MarzPay(t)
    \/ \E h \in Handlers : Learn(h)
    \/ Staff

Spec == Init /\ [][Next]_vars

\* Somebody keeps asking for the status of a transaction that is not final,
\* every session ends (the calls time out after 30 seconds), MarzPay answers
\* now and then, and a commit is not refused for ever.  Nothing obliges
\* MarzPay to settle or to call back.
FairSpec ==
    /\ Spec
    /\ \A t \in Txns : SF_vars(\E h \in Handlers : Poll(h, t))
    /\ \A h \in Handlers : WF_vars(GiveUp(h)) /\ SF_vars(Verify(h)) /\ SF_vars(Commit(h))

-----------------------------------------------------------------------------
(* Properties                                                              *)

\* However many webhooks and polls learn of a payment, it enters the books once.
BookedOnce == \A t \in Txns : booked[t] <= 1

\* Nothing is booked or called completed on the word of a callback: MarzPay
\* itself has completed the transaction it was asked about, which is the
\* row's own wherever callbacks carry the uuid of the transaction they name.
LedgerFollowsMarzPay ==
    \A t \in Txns :
        booked[t] > 0 \/ status[t] = "completed" =>
            \E u \in Askable(t) : marz[u] = "completed"

\* What is booked is reported completed, and the other way round; only a
\* repayment is left out of the books, when its loan has been closed or
\* written off since it was asked for.
CompletedIsBooked ==
    \A t \in Txns :
        /\ booked[t] > 0 => status[t] = "completed"
        /\ status[t] = "completed" /\ booked[t] = 0 =>
              /\ Purpose(t) = "repayment"
              /\ loan[Target(t)] \in {"closed", "defaulted"} \/ lent[Target(t)] > 1

\* A transaction reported failed or cancelled has not moved any money.
FailedMeansNotMoved ==
    \A t \in Txns : status[t] \in {"failed", "cancelled"} => marz[t] # "completed"

\* A request that MarzPay has accepted has a row, once its endpoint is done.
EveryRequestTracked ==
    \A t \in Txns : call[t] = "over" /\ marz[t] # "unknown" => status[t] # "none"

\* Bookings of mobile money and counter withdrawals do not overwrite each
\* other's balance.
BalanceMatchesRows == \A a \in Accounts : balance[a] = rowSum[a]

\* The rows a member sees are true: COMPLETED was booked, unless it came too
\* late for the loan it repays; FAILED and CANCELLED moved nothing; and the
\* balance is what the transaction rows add up to, whichever of the counter,
\* the webhook and the poll wrote it.
RowsAreTrue == CompletedIsBooked /\ FailedMeansNotMoved /\ BalanceMatchesRows

\* No sequence of mobile money and counter withdrawals takes an account
\* below the minimum balance that each of them was checked against.
MinimumBalanceKept ==
    \A a \in Accounts : Opening[a] >= Minimum[a] => balance[a] >= Minimum[a]

\* What a loan's schedule still asks for, with what was collected of it or
\* written off, is what the schedules that were made for it asked for: no
\* repayment or write-off of staff, webhook or poll is lost or posted twice,
\* and a payout that finds the loan active or closed makes no second schedule.
OwedAddsUp ==
    GlConfigured => \A l \in Loans : owed[l] + recovered[l] = lent[l] * Due[l]

\* The clearing account shows for a booked payment what MarzPay has moved.
ClearedWhatMoved ==
    GlConfigured =>
        \A t \in Txns : booked[t] = 1 => cleared[t] = Signed(t, Collected(t))

\* A final status is never changed, whatever callback or poll comes later.
FinalStatusStays ==
    [][\A t \in Txns : status[t] \in Final => status'[t] = status[t]]_vars

\* An outcome that MarzPay has reached is learned as long as somebody polls.
OutcomeIsLearned ==
    \A t \in Txns :
        (status[t] = "processing" /\ uuid[t] /\ marz[t] \in Final) ~> status[t] \in Final

\* The module implements ConfirmedPayments: every step books one payment
\* that MarzPay has moved and that was not booked, or none.
Payments == INSTANCE ConfirmedPayments WITH moved <- {t \in Txns : marz[t] = "completed"}
PaymentsSpec == Payments!Spec
=============================================================================

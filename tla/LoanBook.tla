------------------------------ MODULE LoanBook ------------------------------
(***************************************************************************)
(* One loan from its approval on: disbursement, repayments at the counter  *)
(* and from payroll, the daily penalty job, waivers, write-off and         *)
(* rescheduling.                                                           *)
(*                                                                         *)
(* Each request runs in a session: it reads the loan and its schedule,     *)
(* works on what it read, and its commit updates the columns it changed    *)
(* and no others.                                                          *)
(***************************************************************************)
EXTENDS LoanCalculator, FiniteSets, SequencesExt

CONSTANTS Principal,   \* LoanApplication.amount_approved, in cents
          Months,      \* LoanApplication.repayment_months
          Rate,        \* monthly rate, a fraction
          PenaltyPct,  \* LoanProduct.penalty_rate_pct
          Amounts,     \* amounts a repayment or deduction may carry
          Terms,       \* terms in months a rescheduling may ask for
          GlPosts,     \* journal entries whose GL accounts are all configured
          Sessions,
          Operations,  \* operations enabled in this instance
          Isolation,   \* "read_committed" or "serializable"
          MaxOps,      \* bound on requests
          MaxRows,     \* bound on schedule rows ever inserted
          LastMonth    \* bound on the calendar

Kinds == {"disburse", "repay", "payroll", "penalties", "waive", "write_off", "reschedule"}
Entries == {"disbursement", "repayment", "write_off"}
States == {"approved", "active", "closed", "defaulted"}

ASSUME TermsAssumption ==
    /\ Principal \in Nat \ {0} /\ Months \in Nat \ {0} /\ PenaltyPct \in Nat
    /\ Rate \in [num : Nat, den : Nat \ {0}]
    /\ Amounts \subseteq Nat \ {0} /\ Terms \subseteq Nat \ {0}
ASSUME InstanceAssumption ==
    /\ Operations \subseteq Kinds /\ GlPosts \subseteq Entries
    /\ Isolation \in {"read_committed", "serializable"}
    /\ MaxOps \in Nat /\ MaxRows \in Nat /\ LastMonth \in Nat

VARIABLES
    status,     \* LoanApplication.status
    rows,       \* LoanRepaymentSchedule rows by id, Blank before and after they exist
    used,       \* ids handed out
    receivable, \* net debit of the loan on Loans Receivable
    taken,      \* sum of what repayments were applied to the schedule
    dropped,    \* what had been paid on rows that a rescheduling deleted
    repayments, \* number of repayments and reschedulings committed
    waived,     \* rows whose penalty was waived
    writtenOff, \* whether the loan was written off
    month,      \* the month of date.today()
    phase,      \* "idle" or "working", for each session
    job,        \* what the session does
    view,       \* status and rows as the session read them
    stale,      \* whether they have changed since
    ops         \* requests so far

books    == <<status, rows, used, receivable, taken, dropped, repayments, waived, writtenOff>>
sessions == <<phase, job, view, stale, ops>>
vars     == <<books, month, sessions>>

Ids   == 1 .. MaxRows
Row   == [live : BOOLEAN, number : Nat, due : Nat, principal : Int, interest : Int,
          penalty : Nat, paid : Nat, isPaid : BOOLEAN]
Blank == [live |-> FALSE, number |-> 0, due |-> 0, principal |-> 0, interest |-> 0,
          penalty |-> 0, paid |-> 0, isPaid |-> FALSE]
NoRows == [i \in Ids |-> Blank]
NoJob  == [kind |-> "repay", amount |-> 0, month |-> 0]
Unread == [status |-> "approved", rows |-> NoRows]

TypeOK ==
    /\ status \in States
    /\ rows \in [Ids -> Row]
    /\ used \in 0 .. MaxRows
    /\ receivable \in Int /\ taken \in Int /\ dropped \in Int
    /\ repayments \in Nat
    /\ waived \subseteq Ids
    /\ writtenOff \in BOOLEAN
    /\ month \in 0 .. LastMonth
    /\ phase \in [Sessions -> {"idle", "working"}]
    /\ job \in [Sessions -> [kind : Kinds, amount : Nat, month : 0 .. LastMonth]]
    /\ view \in [Sessions -> [status : States, rows : [Ids -> Row]]]
    /\ stale \in [Sessions -> BOOLEAN]
    /\ ops \in 0 .. MaxOps

Init ==
    /\ status = "approved"
    /\ rows = NoRows
    /\ used = 0
    /\ receivable = 0 /\ taken = 0 /\ dropped = 0 /\ repayments = 0
    /\ waived = {}
    /\ writtenOff = FALSE
    /\ month = 0
    /\ phase = [s \in Sessions |-> "idle"]
    /\ job = [s \in Sessions |-> NoJob]
    /\ view = [s \in Sessions |-> Unread]
    /\ stale = [s \in Sessions |-> FALSE]
    /\ ops = 0

-----------------------------------------------------------------------------
(* Reading a schedule                                                      *)

Live(rs)   == {i \in Ids : rs[i].live}
Unpaid(rs) == {i \in Live(rs) : ~ rs[i].isPaid}

\* LoanApplication.schedule is ordered by installment_number: the last of S
Latest(rs, S) ==
    LET number == Max({rs[i].number : i \in S})
    IN  Max({i \in S : rs[i].number = number})

Due(row)         == row.principal + row.interest + row.penalty
Outstanding(row) == Due(row) - row.paid

PaidOn(rs, S) == SumFunctionOnSet([i \in Ids |-> rs[i].paid], S)

\* the principal that partial payments have not covered, a fraction
Uncovered(row) ==
    IF Due(row) = 0 THEN Whole(row.principal)
    ELSE Ratio(row.principal * Outstanding(row), Due(row))

PrincipalLeft(rs) ==
    FoldSet(LAMBDA i, sum : Plus(sum, Uncovered(rs[i])), Whole(0), Unpaid(rs))

-----------------------------------------------------------------------------
(* What each request makes of what it read.  rows: its updates; added: the *)
(* rows it inserts; debit: the change of Loans Receivable; took: what it   *)
(* applied to the schedule                                                 *)

Nothing(v) == [status |-> v.status, rows |-> v.rows, added |-> << >>, debit |-> 0, took |-> 0]

\* rows of a new schedule that starts today after installment n
NewRows(principal, m, n, today) ==
    LET built == BuildSchedule(principal, Rate, m)
    IN  [i \in 1 .. m |-> [live |-> TRUE, number |-> n + i, due |-> today + i,
                           principal |-> built[i].principal, interest |-> built[i].interest,
                           penalty |-> 0, paid |-> 0, isPaid |-> FALSE]]

\* post_loan_disbursement_gl, post_loan_repayment_gl, post_loan_writeoff_gl:
\* what they debit Loans Receivable with; an entry with an account that is
\* not configured is skipped with a warning
DisbursementGl == IF "disbursement" \in GlPosts THEN Principal ELSE 0
RepaymentGl(principal) == IF "repayment" \in GlPosts THEN - Cents(principal) ELSE 0
WriteOffGl(amount) == IF "write_off" \in GlPosts THEN - amount ELSE 0

\* Mutant: the loan waits for somebody to activate it
DisburseOnly(v, today) ==
    [Nothing(v) EXCEPT !.status = "disbursed", !.debit = DisbursementGl]

\* disburse_loan in cash, activate_disbursed_loan included
Disburse(v, today) ==
    [status |-> "active", rows |-> NoRows,
     added |-> NewRows(Whole(Principal), Months, 0, today),
     debit |-> DisbursementGl, took |-> 0]

\* Mutant: an installment has to be overpaid
CoveredAndMore(row, applied) == row.paid + applied > Due(row)

Covered(row, applied) == row.paid + applied >= Due(row)

\* Mutant: all of a payment is principal
AllPrincipal(row, applied) == Whole(applied)

\* a payment covers principal, interest and penalty in proportion
PrincipalShare(row, applied) == Frac(applied * row.principal, Due(row))

\* Mutant: a part payment replaces the one before
PayRowAnew(acc, i) ==
    LET row == acc.rows[i]
        applied == IF acc.left <= Outstanding(row) THEN acc.left ELSE Outstanding(row)
    IN  IF row.isPaid \/ acc.left <= 0 \/ Outstanding(row) <= 0 THEN acc
        ELSE [left |-> acc.left - applied,
              rows |-> [acc.rows EXCEPT ![i].paid = applied,
                                        ![i].isPaid = Covered(row, applied)],
              principal |-> Plus(acc.principal, PrincipalShare(row, applied))]

\* one installment's turn in apply_loan_repayment
PayRow(acc, i) ==
    LET row == acc.rows[i]
        applied == IF acc.left <= Outstanding(row) THEN acc.left ELSE Outstanding(row)
    IN  IF row.isPaid \/ acc.left <= 0 \/ Outstanding(row) <= 0 THEN acc
        ELSE [left |-> acc.left - applied,
              rows |-> [acc.rows EXCEPT ![i].paid = @ + applied,
                                        ![i].isPaid = Covered(row, applied)],
              principal |-> Plus(acc.principal, PrincipalShare(row, applied))]

\* apply_loan_repayment: the schedule is paid oldest first, principal's share
\* of it comes off Loans Receivable, and a schedule that is all paid closes
\* the loan
Repay(v, x) ==
    LET paid == MapThenFoldSet(LAMBDA i, acc : PayRow(acc, i),
                               [left |-> x, rows |-> v.rows, principal |-> Whole(0)],
                               LAMBDA i : i, LAMBDA S : Latest(v.rows, S), Live(v.rows))
    IN  [status |-> IF Live(v.rows) # {} /\ Unpaid(paid.rows) = {} THEN "closed" ELSE v.status,
         rows |-> paid.rows, added |-> << >>,
         debit |-> RepaymentGl(paid.principal), took |-> x - paid.left]

\* apply_overdue_penalties, for this loan
Penalty(row) ==
    Cents(Frac((row.principal + row.interest - row.paid) * PenaltyPct, 100))

\* Mutant: installments with a penalty get another one
AllOverdue(rs, today) == {i \in Unpaid(rs) : rs[i].due < today /\ Penalty(rs[i]) > 0}

Overdue(rs, today) ==
    {i \in Unpaid(rs) : rs[i].due < today /\ rs[i].penalty = 0 /\ Penalty(rs[i]) > 0}

Penalize(v, today) ==
    LET overdue == Overdue(v.rows, today)
    IN  IF v.status # "active" THEN Nothing(v)
        ELSE [Nothing(v) EXCEPT !.rows = [i \in Ids |->
                 IF i \in overdue THEN [v.rows[i] EXCEPT !.penalty = Penalty(v.rows[i])]
                 ELSE v.rows[i]]]

\* waive_loan_penalties
Penalized(rs) == {i \in Unpaid(rs) : rs[i].penalty > 0}

Waive(v) ==
    [Nothing(v) EXCEPT !.rows = [i \in Ids |->
        IF i \in Penalized(v.rows) THEN [v.rows[i] EXCEPT !.penalty = 0] ELSE v.rows[i]]]

\* write_off_loan: all that is due is credited
WriteOffAmount(rs) ==
    SumFunctionOnSet([i \in Ids |-> IF Outstanding(rs[i]) > 0 THEN Outstanding(rs[i]) ELSE 0],
                     Unpaid(rs))

WriteOff(v) ==
    [status |-> "defaulted",
     rows |-> [i \in Ids |-> IF i \in Live(v.rows) THEN [v.rows[i] EXCEPT !.isPaid = TRUE]
                             ELSE Blank],
     added |-> << >>, debit |-> WriteOffGl(WriteOffAmount(v.rows)), took |-> 0]

\* reschedule_loan of loans.py, which is registered before the one of
\* loan_actions.py: unpaid rows are deleted and built anew
LastPaid(rs) ==
    LET numbers == {rs[i].number : i \in Live(rs) \ Unpaid(rs)} \cup {0}
    IN  CHOOSE n \in numbers : \A k \in numbers : k <= n

Reschedule(v, m, today) ==
    [status |-> v.status,
     rows |-> [i \in Ids |-> IF i \in Unpaid(v.rows) THEN Blank ELSE v.rows[i]],
     added |-> NewRows(PrincipalLeft(v.rows), m, LastPaid(v.rows), today),
     debit |-> 0, took |-> 0]

After(j, v) ==
    CASE j.kind = "disburse"            -> Disburse(v, j.month)
      [] j.kind \in {"repay", "payroll"} -> Repay(v, j.amount)
      [] j.kind = "penalties"           -> Penalize(v, j.month)
      [] j.kind = "waive"               -> Waive(v)
      [] j.kind = "write_off"           -> WriteOff(v)
      [] j.kind = "reschedule"          -> Reschedule(v, j.amount, j.month)

\* The handlers' guards.  A payroll deduction, a waiver and the penalty job
\* have none: _reconcile_deduction does not look at the loan's status.
Accepts(k, v) ==
    CASE k = "disburse"   -> v.status = "approved"
      [] k = "repay"      -> v.status = "active"
      [] k = "write_off"  -> v.status \in {"active", "defaulted"} /\ WriteOffAmount(v.rows) > 0
      [] k = "reschedule" -> v.status = "active" /\ PrincipalLeft(v.rows).num > 0
      [] OTHER            -> TRUE

Inputs(k) ==
    CASE k \in {"repay", "payroll"} -> Amounts
      [] k = "reschedule"           -> Terms
      [] OTHER                      -> {0}

-----------------------------------------------------------------------------
(* Sessions                                                                *)

Current == [status |-> status, rows |-> rows]

Begin(s, k, x) ==
    /\ phase[s] = "idle"
    /\ ops < MaxOps
    /\ Accepts(k, Current)
    /\ k = "reschedule" => used + x <= MaxRows
    /\ phase' = [phase EXCEPT ![s] = "working"]
    /\ job' = [job EXCEPT ![s] = [kind |-> k, amount |-> x, month |-> month]]
    /\ view' = [view EXCEPT ![s] = Current]
    /\ ops' = ops + 1
    /\ UNCHANGED <<books, month, stale>>

End(s) ==
    /\ phase' = [phase EXCEPT ![s] = "idle"]
    /\ job' = [job EXCEPT ![s] = NoJob]
    /\ view' = [view EXCEPT ![s] = Unread]

\* the columns that differ from what was read are written, the others stay
Merge(read, new, current) ==
    [c \in DOMAIN current |-> IF new[c] # read[c] THEN new[c] ELSE current[c]]

\* an UPDATE of a row that another session deleted matches nothing and fails
Vanished(read, new) ==
    \E i \in Ids : /\ read[i].live /\ new[i].live /\ new[i] # read[i]
                   /\ ~ rows[i].live

MayCommit(s) ==
    /\ phase[s] = "working"
    /\ Isolation = "serializable" => ~ stale[s]

Commit(s) ==
    LET j   == job[s]
        v   == view[s]
        new == After(j, v)
        deleted == {i \in Live(v.rows) : ~ new.rows[i].live}
    IN  /\ MayCommit(s)
        /\ ~ Vanished(v.rows, new.rows)
        /\ used + Len(new.added) <= MaxRows
        /\ status' = IF new.status # v.status THEN new.status ELSE status
        /\ rows' = [i \in Ids |->
              IF i \in deleted THEN Blank
              ELSE IF i > used /\ i <= used + Len(new.added) THEN new.added[i - used]
              ELSE Merge(v.rows[i], new.rows[i], rows[i])]
        /\ used' = used + Len(new.added)
        /\ receivable' = receivable + new.debit
        /\ taken' = taken + new.took
        /\ dropped' = dropped + PaidOn(v.rows, deleted)
        /\ repayments' = IF j.kind \in {"repay", "payroll", "reschedule"} THEN repayments + 1
                         ELSE repayments
        /\ waived' = IF j.kind = "waive" THEN waived \cup Penalized(v.rows) ELSE waived
        /\ writtenOff' = (writtenOff \/ j.kind = "write_off")
        /\ stale' = [q \in Sessions |->
              /\ q # s
              /\ \/ stale[q]
                 \/ phase[q] = "working" /\ (status' # status \/ rows' # rows)]
        /\ End(s)
        /\ UNCHANGED <<month, ops>>

\* the commit is refused or fails, or the process dies: nothing is written
Fail(s) ==
    /\ phase[s] = "working"
    /\ End(s)
    /\ stale' = [stale EXCEPT ![s] = FALSE]
    /\ UNCHANGED <<books, month, ops>>

MonthPasses ==
    /\ month < LastMonth
    /\ month' = month + 1
    /\ UNCHANGED <<books, sessions>>

Next ==
    \/ \E s \in Sessions, k \in Operations : \E x \in Inputs(k) : Begin(s, k, x)
    \/ \E s \in Sessions : Commit(s) \/ Fail(s)
    \/ MonthPasses

Spec == Init /\ [][Next]_vars

-----------------------------------------------------------------------------
(* Properties                                                              *)

\* An installment that is marked paid has been paid in full, unless the loan
\* was written off: no penalty lands on an installment after its payment.
PaidMeansCovered ==
    writtenOff \/ \A i \in Live(rows) : rows[i].isPaid => Outstanding(rows[i]) <= 0

\* Every cent that repayments were booked for is on the schedule, or was on
\* a row that a rescheduling took over: concurrent repayments do not
\* overwrite each other's amount_paid.
NoRepaymentLost ==
    taken = dropped + PaidOn(rows, Live(rows))

\* A loan whose repayments have settled its schedule is not active any more,
\* as long as no waiver or rescheduling had a part in settling it.
SettledIsClosed ==
    status = "active" /\ waived = {} /\ used = Months =>
        \E i \in Unpaid(rows) : Outstanding(rows[i]) > 0

\* Loans Receivable carries the principal that is still to be repaid, to
\* within the half cent that each repayment or rescheduling may round, when
\* every entry is posted.
ReceivableIsPrincipal ==
    GlPosts = Entries =>
    LET left == PrincipalLeft(rows)
        drift == 2 * (receivable * left.den - left.num)
    IN  /\ drift <= repayments * left.den
        /\ - drift <= repayments * left.den

\* Loans Receivable never credits more than it debited, beyond rounding.
ReceivableNotOvercredited == 2 * receivable >= - repayments

\* A penalty that staff waived is not charged again.
WaivedStaysWaived == \A i \in waived : rows[i].penalty = 0

\* A loan that was written off stays a defaulted one.
WrittenOffStays == writtenOff => status = "defaulted"

\* What members paid stays paid: no repayment overwrites another one's amount,
\* and no penalty reopens a row that was settled.
PaymentsStay == PaidMeansCovered /\ NoRepaymentLost

\* The status of a loan follows its schedule: whoever settles the last row
\* closes the loan, and a write-off is final.
StatusFollowsSchedule == SettledIsClosed /\ WrittenOffStays

\* A penalty is charged once: it does not change until it is waived or its
\* row is replaced.
PenaltyChargedOnce ==
    [][\A i \in Ids :
          rows[i].penalty > 0 => rows'[i].penalty \in {rows[i].penalty, 0}]_vars
=============================================================================

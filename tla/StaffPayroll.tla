---------------------------- MODULE StaffPayroll ----------------------------
(***************************************************************************)
(* The payroll of the staff: runs with one payslip for each employee       *)
(* listed, processed once into taxes, deductions and ledger entries, and   *)
(* payslips marked paid one by one.                                        *)
(*                                                                         *)
(*   db.salary[e]   gross_pay of employee e                                *)
(*   db.owed[e]     what the next unpaid installment of the employee's own *)
(*                  loan still asks for, 0 without such a loan             *)
(*   db.runs        the payroll runs, in the order they are created        *)
(*                                                                         *)
(* The deduction of a payslip is credited to the loan account and applied  *)
(* to no installment: nothing here changes db.owed.                        *)
(***************************************************************************)
EXTENDS Ledger, UgandaTax, SequencesExt

CONSTANTS Employees,
          Salaries,      \* gross pays in cents: what update_employee takes has no bound
          OwedBy,        \* [Employees -> Nat]
          LoanAccountOf, \* gl_asset_account_id of the product of an employee's loan
          Periods,
          Staffings,     \* sequences of employees a run may be created for
          Overrides      \* deductions asked for in mills, by employee, for some of them

ASSUME StaffPayrollAssumption ==
    /\ Salaries \subseteq Int /\ \E g \in Salaries : g > 0
    /\ OwedBy \in [Employees -> Nat]
    /\ LoanAccountOf \in [Employees -> OpeningChart \cup {NoAccount}]
    /\ Staffings \subseteq Seq(Employees)
    /\ \A asked \in Overrides : \A e \in DOMAIN asked : asked[e] \in Int

StaffTables == [salary |-> [e \in Employees |-> CHOOSE g \in Salaries : g > 0],
                owed   |-> OwedBy,
                runs   |-> <<>>]

\* No column has deducts: the deduction was more than nothing before it was
\* rounded to cents.
Slips == [employee : Employees, gross : Int, paye : Nat, nssf_employee : Int,
          nssf_employer : Int, deduction : Int, deducts : BOOLEAN, loan : BOOLEAN,
          net : Int, paid : BOOLEAN]

Columns == {"gross", "paye", "nssf_employee", "nssf_employer", "deduction", "net"}

StaffTypeOK ==
    /\ db.salary \in [Employees -> Salaries]
    /\ db.owed = OwedBy
    /\ \A r \in DOMAIN db.runs :
          /\ DOMAIN db.runs[r] = {"period", "status", "slips", "totals"}
          /\ db.runs[r].period \in Periods
          /\ db.runs[r].status \in {"draft", "processed"}
          /\ \A k \in DOMAIN db.runs[r].slips : db.runs[r].slips[k] \in Slips
          /\ db.runs[r].totals \in [Columns -> Int]

-----------------------------------------------------------------------------
EmployeeJobs == [employee : Employees, gross : Salaries]

NothingRead(j, d) == TRUE

AlwaysAccepted(j, v) == TRUE

SalarySet(j, v, d) == [d EXCEPT !.salary[j.employee] = j.gross]

\* update_employee
UpdateEmployee(s) ==
    Serves(s, "employee", EmployeeJobs, NothingRead, AlwaysAccepted, SalarySet)

-----------------------------------------------------------------------------
RunJobs == [period : Periods, staff : Staffings]

RunRead(j, d) ==
    [taken |-> \E r \in DOMAIN d.runs : d.runs[r].period = j.period, salary |-> d.salary]

PeriodIsFree(j, v) == ~v.taken

\* a draft promises the gross pay; an employee listed twice has two payslips
DraftSlip(e, salary) ==
    [employee |-> e, gross |-> salary[e], paye |-> 0, nssf_employee |-> 0, nssf_employer |-> 0,
     deduction |-> 0, deducts |-> FALSE, loan |-> FALSE, net |-> salary[e], paid |-> FALSE]

\* nothing in the table keeps a period unique
RunCreated(j, v, d) ==
    [d EXCEPT !.runs = Append(@, [period |-> j.period, status |-> "draft",
                                  slips  |-> [k \in DOMAIN j.staff |-> DraftSlip(j.staff[k], v.salary)],
                                  totals |-> [c \in Columns |-> 0]])]

\* Two requests for a period each look for the run that the other one writes.
\* The salaries are only read.
SamePeriod(j, v, rows) == rows.taken = v.taken

\* create_payroll_run
CreatePayrollRun(s) ==
    ServesWhile(s, "run", RunJobs, RunRead, PeriodIsFree, SamePeriod, RunCreated)

-----------------------------------------------------------------------------
ProcessJobs == [run : 1 .. MaxRequests, override : Overrides, at : {now}]

\* the run with its payslips, the employees and their loans, the GL settings
ProcessRead(j, d) ==
    IF j.run \in DOMAIN d.runs
    THEN [run |-> <<d.runs[j.run]>>, salary |-> d.salary, owed |-> d.owed, gl |-> d.gl,
          chart |-> d.chart]
    ELSE [run |-> <<>>]

\* Mutant: the deduction may exceed what is left of the pay
Unlimited(asked, left) == asked

\* no more is deducted than taxes leave of the pay, and nothing is added to it,
\* unless the pay is negative
Deductible(asked, left) == LET wanted == IF asked < 0 THEN 0 ELSE asked
                           IN IF wanted > left THEN left ELSE wanted

\* the payslip of slip's employee, with the amounts of now: the deduction and
\* the net pay in mills
Computed(slip, j, v) ==
    LET e         == slip.employee
        gross     == v.salary[e]
        left      == 10 * (gross - Paye(gross) - NssfEmployee(gross))
        asked     == IF e \in DOMAIN j.override THEN j.override[e] ELSE 10 * v.owed[e]
        deduction == Deductible(asked, left)
    IN [slip EXCEPT !.gross = gross, !.paye = Paye(gross),
                    !.nssf_employee = NssfEmployee(gross), !.nssf_employer = NssfEmployer(gross),
                    !.deduction = deduction, !.deducts = deduction > 0,
                    !.loan = deduction > 0 /\ v.owed[e] > 0, !.net = left - deduction]

\* the columns of the payslip
InCents(slip) == [slip EXCEPT !.deduction = Cents(@), !.net = Cents(@)]

\* the lines of its entry, in mills
PayrollLines(slip, gl) ==
    <<Line(gl["salaries"], 10 * slip.gross, 0),
      Line(gl["nssf_expense"], 10 * slip.nssf_employer, 0),
      Line(gl["paye_payable"], 0, 10 * slip.paye),
      Line(gl["nssf_payable"], 0, 10 * (slip.nssf_employee + slip.nssf_employer)),
      Line(gl["cash"], 0, slip.net)>>
      \o (IF slip.deducts THEN <<Line(LoanAccountOf[slip.employee], 0, slip.deduction)>> ELSE <<>>)

\* post_payroll_gl skips a deduction that belongs to no loan, or to a loan whose
\* product has no account
HasEntry(slip) == slip.deducts => slip.loan /\ LoanAccountOf[slip.employee] # NoAccount

\* ... and everything while one of the configured accounts is missing
Posts(slip, gl) == HasEntry(slip) /\ NoAccount \notin {gl[f] : f \in GLFields}

PayrollEntries(run, slips, v, at) ==
    LET Post(k) == IF Posts(slips[k], v.gl)
                   THEN <<Entry("hr_payroll", <<run.period, slips[k].employee>>, at,
                                PayrollLines(slips[k], v.gl))>>
                   ELSE <<>>
    IN FlattenSeq([k \in DOMAIN slips |-> Post(k)])

TotalOfColumn(slips, c) == SumFunction([k \in DOMAIN slips |-> slips[k][c]])

\* the totals of what was computed
TotalsOf(slips) ==
    [c \in Columns |-> IF c \in {"deduction", "net"} THEN Cents(TotalOfColumn(slips, c))
                       ELSE TotalOfColumn(slips, c)]

Computeds(j, v) == [k \in DOMAIN v.run[1].slips |-> Computed(v.run[1].slips[k], j, v)]

\* Mutant: a run may be processed again
RunExists(j, v) == v.run # <<>>

\* a draft, none of whose entries post_journal_entry refuses
IsDraft(j, v) ==
    /\ v.run # <<>>
    /\ v.run[1].status = "draft"
    /\ LET slips == Computeds(j, v) IN
       \A k \in DOMAIN slips :
          Posts(slips[k], v.gl) => Postable(PayrollLines(slips[k], v.gl), v.chart)

\* only the columns that are computed are written: a payslip that was marked
\* paid meanwhile stays so
RunProcessed(j, v, d) ==
    LET slips   == Computeds(j, v)
        Kept(k) == [InCents(slips[k]) EXCEPT !.paid = d.runs[j.run].slips[k].paid]
    IN [d EXCEPT !.runs[j.run].status = "processed",
                 !.runs[j.run].slips = [k \in DOMAIN slips |-> Kept(k)],
                 !.runs[j.run].totals = TotalsOf(slips),
                 !.entries = @ \o PayrollEntries(v.run[1], slips, v, j.at)]

\* The run and its payslips are written.  Salaries, loans and settings are only
\* read, by a handler that writes nothing their writers look at.
SameRun(j, v, rows) == rows.run = v.run

\* process_payroll_run
ProcessPayrollRun(s) ==
    ServesWhile(s, "process", ProcessJobs, ProcessRead, IsDraft, SameRun, RunProcessed)

-----------------------------------------------------------------------------
PayJobs == [run : 1 .. MaxRequests, slip : 1 .. 2]

\* whether the payslip is there, and paid
SlipRead(j, d) ==
    IF j.run \in DOMAIN d.runs /\ j.slip \in DOMAIN d.runs[j.run].slips
    THEN IF d.runs[j.run].slips[j.slip].paid THEN "paid" ELSE "pending"
    ELSE "none"

IsPending(j, v) == v = "pending"

SlipPaid(j, v, d) == [d EXCEPT !.runs[j.run].slips[j.slip].paid = TRUE]

\* mark_payslip_paid, whatever the status of the run
MarkPayslipPaid(s) == Serves(s, "pay", PayJobs, SlipRead, IsPending, SlipPaid)

-----------------------------------------------------------------------------
Processed == {r \in DOMAIN db.runs : db.runs[r].status = "processed"}

\* A processed payslip adds up but for the cent that the deduction and the net
\* pay may both be rounded up, leaves nobody with less than nothing whatever
\* deduction was asked for, and the totals of its run are those of the payslips
\* but for their rounding, whoever changed a salary meanwhile.
PayslipsAddUp ==
    \A r \in Processed :
        LET run == db.runs[r] IN
        /\ \A k \in DOMAIN run.slips :
              LET slip == run.slips[k] IN
              /\ slip.net >= 0
              /\ slip.gross >= 0 => slip.deduction >= 0
              /\ slip.paye + slip.nssf_employee + slip.deduction + slip.net - slip.gross \in {0, 1}
        /\ \A c \in Columns :
              LET out == run.totals[c] - TotalOfColumn(run.slips, c) IN
              IF c \in {"deduction", "net"}
              THEN 2 * out \in -(Len(run.slips) + 1) .. Len(run.slips) + 1
              ELSE out = 0

EntriesAbout(period) ==
    {i \in DOMAIN db.entries :
        db.entries[i].by = "hr_payroll" /\ db.entries[i].about[1] = period}

\* Either nothing of the payroll of a period is in the ledger, or each payslip
\* is, once and with its own amounts, but for those whose deduction has no
\* account to go to: they are left out while the others of the run are posted.
PostedOnceAndWhole ==
    \A r \in Processed :
        LET run   == db.runs[r]
            slips == {k \in DOMAIN run.slips : HasEntry(run.slips[k])}
        IN EntriesAbout(run.period) # {} =>
              /\ Cardinality(EntriesAbout(run.period)) = Cardinality(slips)
              /\ \A k \in slips : \E i \in EntriesAbout(run.period) :
                    /\ db.entries[i].about[2] = run.slips[k].employee
                    /\ TotalDebit(db.entries[i].lines)
                          = run.slips[k].gross + run.slips[k].nssf_employer

\* There is one run for each period: two requests for the same month do not
\* both find it free.
OneRunPerPeriod ==
    \A r, q \in DOMAIN db.runs : db.runs[r].period = db.runs[q].period => r = q

\* The payroll adds up from the tax table to the ledger: taxes are those of the
\* bands, payslips and totals add up, there is one run a period, and it is
\* posted once and whole.
PayrollAddsUp == TaxIsMarginal /\ PayslipsAddUp /\ OneRunPerPeriod /\ PostedOnceAndWhole

\* "A processed run is immutable": its status, its totals and every amount of
\* its payslips stay as they are, and what is paid stays paid.
ProcessedIsImmutable ==
    [][\A r \in Processed :
          /\ db.runs'[r].status = "processed" /\ db.runs'[r].totals = db.runs[r].totals
          /\ \A k \in DOMAIN db.runs[r].slips :
                \/ db.runs'[r].slips[k] = db.runs[r].slips[k]
                \/ db.runs'[r].slips[k] = [db.runs[r].slips[k] EXCEPT !.paid = TRUE]]_db
=============================================================================

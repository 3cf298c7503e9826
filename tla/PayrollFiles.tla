---------------------------- MODULE PayrollFiles ----------------------------
(***************************************************************************)
(* Files of payroll deductions for savings accounts.  LoanBook models the  *)
(* lines that repay a loan.                                                *)
(*                                                                         *)
(*   db.files   one record for each PayrollFile: the targets of its lines  *)
(*              and the status of each PayrollDeduction                    *)
(***************************************************************************)
EXTENDS MemberSavings, SequencesExt

CONSTANTS MaxLines   \* bound on the lines of a file

\* a line names an account, names none, or names one that does not exist
Targets  == Savers \cup {"untargeted", "unknown"}
Statuses == {"reconciled", "exception"}

ASSUME FilesAssumption == Savers \cap {"untargeted", "unknown"} = {}

FileTables == [files |-> <<>>]

FilesTypeOK == db.files \in Seq([to : Seq(Targets), status : Seq(Statuses)])

FileJobs == [to : UNION {[1 .. n -> Targets] : n \in 1 .. MaxLines}]

\* how many lines name the account; every line is for the same amount
LinesFor(to, m) == Cardinality({i \in DOMAIN to : to[i] = m})

FileReads(j, d) == [m \in Members |-> IF LinesFor(j.to, m) > 0 THEN d.balance[m] ELSE 0]

\* A line for an account that does not exist is caught and becomes an
\* exception, but its row names the account: the insert fails, and with it
\* the file.
Insertable(j, v) == \A i \in DOMAIN j.to : j.to[i] # "unknown"

\* what _reconcile_deduction adds to each balance, line after line
LineGains(j) == [m \in Members |-> LinesFor(j.to, m)]

FileBooked(j, v, d) ==
    Credit([d EXCEPT !.files = Append(@, [to |-> j.to,
                status |-> [i \in DOMAIN j.to |->
                               IF j.to[i] = "untargeted" THEN "exception" ELSE "reconciled"]])],
           v, "payroll", LineGains(j))

\* upload_payroll_file
UploadPayrollFile(s) == Serves(s, "payroll_file", FileJobs, FileReads, Insertable, FileBooked)

\* how many lines of a file were credited to the account of m
Reconciled(file, m) ==
    Cardinality({i \in DOMAIN file.to : file.to[i] = m /\ file.status[i] = "reconciled"})

\* The payroll rows of an account are the reconciled lines of all files that
\* name it: no line is credited twice, credited as an exception, or recorded
\* as reconciled without the money, also when a file names an account twice.
FilesBookTheirLines ==
    \A m \in Savers :
        db.rows[m]["payroll"] =
            SumFunction([f \in DOMAIN db.files |-> Reconciled(db.files[f], m)])
=============================================================================

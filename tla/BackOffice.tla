----------------------------- MODULE BackOffice -----------------------------
(***************************************************************************)
(* The back office: ledger, staff payroll, users, notifications and        *)
(* registers.  They meet in the database and in the sessions that serve    *)
(* them; the payroll writes into the ledger.                               *)
(***************************************************************************)
EXTENDS StaffPayroll, UserAccounts, Notifications, Registers

vars == requests

Tables ==
    Beside(Beside(LedgerTables, StaffTables),
           Beside(UserTables, Beside(NoticeTables, RegisterTables)))

Init == RequestsInit /\ db = Tables

TypeOK ==
    /\ RequestsTypeOK
    /\ DOMAIN db = DOMAIN Tables
    /\ LedgerTypeOK /\ StaffTypeOK /\ UsersTypeOK /\ NoticesTypeOK /\ RegistersTypeOK

Request(s) ==
    \/ CreateAccount(s) \/ CreateJournalEntry(s) \/ UpdateGLSettings(s)
    \/ UploadBankStatement(s) \/ MatchBankTransaction(s)
    \/ UpdateEmployee(s) \/ CreatePayrollRun(s) \/ ProcessPayrollRun(s) \/ MarkPayslipPaid(s)
    \/ UpdateUser(s) \/ Login(s) \/ Refresh(s)
    \/ SetUpTwoFactor(s) \/ EnableTwoFactor(s) \/ DisableTwoFactor(s)
    \/ SendNotification(s) \/ SendAlert(s)
    \/ CreateComplianceReport(s) \/ SubmitComplianceReport(s)
    \/ RaiseRiskFlag(s) \/ ResolveRiskFlag(s)
    \/ ListNews(s) \/ CreateNews(s) \/ DeleteNews(s)

\* only the journal looks at a date
DatesMatter == "journal" \in desk

Next ==
    \/ \E s \in Sessions : Request(s) \/ Failed(s) \/ StartTask(s) \/ Dispatch(s) \/ FinishDispatch(s)
    \/ AccessExpires
    \/ ServerRestarts
    \/ DatesMatter /\ TimePasses

\* What a thread of the server has begun it goes on with: a service answers or
\* its call times out, a commit is answered or fails, and a session that is
\* free takes up a task that waits.
Fairness ==
    \A s \in Sessions :
        /\ WF_vars(Dispatch(s))
        /\ WF_vars(FinishDispatch(s) \/ Failed(s))
        /\ WF_vars(StartTask(s))

Spec == Init /\ [][Next]_vars /\ Fairness
=============================================================================

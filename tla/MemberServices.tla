--------------------------- MODULE MemberServices ---------------------------
(***************************************************************************)
(* The services around a member's account: shares and dividends, vaults,   *)
(* membership, referrals and payroll files.  They meet in the savings      *)
(* balances, in the share holdings and in the member's status.             *)
(***************************************************************************)
EXTENDS Members, Referrals, PayrollFiles, Vaults

vars == requests

AccountTables == Beside(SavingsTables, Beside(ShareTables, MemberTables))

Tables ==
    Beside(AccountTables, Beside(ReferralTables, Beside(FileTables, VaultTables)))

\* the sweeps look at the date of the last activity, and nothing else does
Init ==
    /\ RequestsInit
    /\ \E undated \in SUBSET IF desk \cap Sweeps # {} THEN Undated ELSE {} :
          db = [Tables EXCEPT !.since = SinceStart(undated)]

TypeOK ==
    /\ RequestsTypeOK
    /\ DOMAIN db = DOMAIN Tables
    /\ SavingsTypeOK /\ SharesTypeOK /\ MembersTypeOK
    /\ ReferralsTypeOK /\ FilesTypeOK /\ VaultsTypeOK

Request(s) ==
    \/ RecordShareTransaction(s) \/ DeclareDividend(s)
    \/ CreateMember(s) \/ UpdateMember(s) \/ ExitMember(s) \/ DisburseLoan(s)
    \/ TriggerSweep(s) \/ SendNotices(s) \/ FinishSweep(s)
    \/ RegisterUser(s) \/ Convert(s) \/ UpdateSystemSettings(s) \/ PayCommission(s)
    \/ UploadPayrollFile(s)
    \/ CreateTargetVault(s) \/ DepositIntoVault(s) \/ WithdrawFromVault(s)

\* the operations that look at a date; without them the clock may as well stand
Dated       == {"create_member", "sweep", "daily_sweep", "create_vault", "vault_withdraw"}
DatesMatter == desk \cap Dated # {}

Next ==
    \/ \E s \in Sessions \ {Scheduler} : Request(s)
    \/ \E s \in Sessions : Failed(s)
    \/ StartDailySweep \/ SendNotices(Scheduler) \/ FinishSweep(Scheduler)
    \/ DatesMatter /\ TimePasses

\* The scheduler runs the sweep every day, and a sweep ends: now and then it
\* gets through its notices and ends with its commit, as requests that it
\* conflicts with do not come for ever.
Fairness ==
    /\ WF_vars(StartDailySweep)
    /\ WF_vars(SendNotices(Scheduler) \/ FinishSweep(Scheduler) \/ Failed(Scheduler))
    /\ SF_vars(SendNotices(Scheduler)) /\ SF_vars(FinishSweep(Scheduler))

Spec == Init /\ [][Next]_vars /\ Fairness

-----------------------------------------------------------------------------
\* Every credit of a savings account is explained by the component that wrote
\* it, the dividend payouts and the lines of payroll files, and the balances
\* and the ledger are what all the rows add up to.
CreditsAreExplained == BalancesMatchRows /\ ReinvestedIsCredited /\ FilesBookTheirLines
=============================================================================

# TLA+ model of the SACCO system

A SACCO is a savings and credit cooperative. This directory holds TLA+ modules
that model the parts of its server (`src/app`, FastAPI and SQLAlchemy) that move
money, the TLC configurations that check them on small instances, and proofs of
their main properties for every instance. `PROJECT.json` says which definition
models which lines, which run checks which property, and which hazards of the
code the properties are for.

## 1. The system

Every request and every scheduled job runs in a database session of its own
(`core/database.py: get_db`). Synchronous endpoints run in FastAPI's thread
pool, several uvicorn workers may run side by side, and APScheduler runs the
interest and penalty jobs in the same process. The sessions share nothing but
the database. No handler locks a row (`with_for_update` occurs nowhere) and no
model has a version column: what happens between a read and the commit is
decided by the isolation level, which is READ COMMITTED for the PostgreSQL of
`docker-compose.yml` and SERIALIZABLE for the CockroachDB that `RetryingSession`
was written for.

| Component | State | Operations | What makes it hard | What makes it correct |
|---|---|---|---|---|
| Savings (`routers/savings.py`, `services/savings_interest_service.py`) | accounts with a balance, transaction rows, month of the last interest | teller transactions, internal transfers, monthly interest (job and manual trigger) | read, add in Python, write back; two runs at once; local date and UTC | balance is the sum of the rows, minimum balance, interest once a month |
| Database sessions (`core/database.py`) | what a session read and wrote | get_db, commit, rollback, retry of a refused commit | rollback empties the session that is committed again | what was acknowledged is durable |
| General ledger postings (`services/gl_posting_service.py`, `accounting_service.py`) | journal entries | one posting per kind of money movement, skipped when accounts are not configured | one movement of money, two books | ledger accounts agree with the sub-ledgers |
| Mobile money (`routers/mobile_money.py`, `integrations/marzpay.py`) | transactions with a status and a MarzPay uuid | four requests, webhook, status poll, `_finalize_success` | lost replies, early, repeated, missing or false callbacks, crash between call and commit | each payment is booked once, only on the word of MarzPay, and its status is final |
| Loan origination (`routers/loans.py`, `routers/loan_actions.py`) | application, guarantors, group guarantees | apply, answer, ask for and approve a group guarantee, return, approve, reject, disburse | answers and decisions overlap | decided once, guaranteed when approved, paid once |
| Loan servicing (`routers/loans.py`, `routers/loan_actions.py`, `services/loan_*.py`) | schedule rows, status, Loans Receivable | disburse, repay, penalties, waive, write off, reschedule | rounding, proportional split, jobs against repayments | every cent is on the schedule, a settled loan is closed, receivable is the principal left |
| Payroll deductions (`routers/payroll.py`) | files and lines | reconcile a file of deductions | a file sent twice, a line that fails | each line applied once |
| HR payroll (`routers/hr_payroll.py`, `services/uganda_tax_service.py`) | salaries, runs, payslips | change pay, create and process a run, pay a payslip | processed twice, salaries that change meanwhile | one posting per run, net pay is gross less deductions |
| Shares and dividends (`routers/shares.py`) | holdings, transactions, payouts | subscribe, redeem, transfer, declare a dividend | check then write, a dividend on holdings that move | no share sold twice, dividends credited as declared |
| Target vaults (`routers/vaults.py`) | balance, status, lock, maturity | create, deposit, withdraw | check then write; broken, refilled, emptied | the audit rows explain the balance and the status |
| Members, dormancy (`routers/members.py`, `services/risk_service.py`) | member status, stage of notice | register, update, exit, dormancy sweep | the checks of an exit read other components, the sweep writes what it read and has sent its notices before | nobody leaves with an active loan, no decision is undone |
| Referrals (`routers/referrals.py`, `routers/auth.py`) | users, rows of two tiers, commissions | register with a code, convert, pay a commission | webhooks repeated | the right referrers, each credited once |
| Ledger and bank reconciliation (`routers/accounting.py`, `services/financial_reports.py`) | chart, settings, journal, bank lines | manual entries, statements, matching, reports | written by every component, checked before it is rounded | entries balance but for their rounding, reports agree |
| Users (`routers/auth.py`, `routers/admin.py`) | role, active, two-factor secret; the tokens clients hold | login, refresh, role changes, set-up, enable, disable | what a token says is older than the role | users sign in to the portal of their role |
| Notifications (`services/notification_service.py`, `routers/notifications.py`) | message rows, background tasks | queue, send later, send inside a transaction | a task lives in memory, the message is out before the commit | no queued message goes out twice |
| Registers (`routers/risk_compliance.py`, `routers/news.py`) | reports, flags, news | submit, resolve, seed on first read | check then write | done once |
| Migrations (`alembic/`, `docker-compose.yml`) | tables | upgrade an empty database, start the API | a statement refused, the container restarted | the API starts |
| Groups, audit log, other reports, branches, e-mail and SMS | plain rows or nothing | single inserts, updates and queries | nothing that interleaves | |

How they interact: savings, mobile money, loans and payroll call the posting
functions of the general ledger inside their own transaction; mobile money,
payroll deductions and the counter share `apply_loan_repayment`, and mobile
money and the counter share `activate_disbursed_loan`; mobile money is the only
one that talks to the outside (MarzPay calls its webhook) before it commits.
Shares, payroll files and referrals credit savings accounts; the exit reads
savings, loans and shares; the sweep, the exit and staff write one status; HR
payroll posts into the ledger that the reports read.

## 2. The modules

| Module | Models | Uses |
|---|---|---|
| `AtomicSavings` | abstract: what the savings endpoints promise, each an atomic step | |
| `SavingsSessions` | savings requests as sessions, with row locks, the unit of work, the retry | instance of `AtomicSavings` |
| `ConfirmedPayments` | abstract: a payment MarzPay moved is booked, once | |
| `MobileMoney` | requests, MarzPay, webhooks, polls, booking, staff at the counter | instance of `ConfirmedPayments` |
| `LoanCalculator` | the amortization schedule, with its rounding | |
| `MCLoanCalculator` | queries of the calculator, one in each initial state, and what a schedule promises | extends `LoanCalculator` |
| `LoanBook` | one loan from its disbursement to its end | extends `LoanCalculator` |
| `LoanLifecycle` | abstract: the states of an application | |
| `LoanOrigination` | application, guarantors, decision, payout, as sessions | instance of `LoanLifecycle` |
| `Requests` | the life of a request: session, view, commit | |
| `MemberSavings` | what the member services do to savings accounts | extends `Requests` |
| `ShareRegister` | abstract: shares issued, redeemed, moved, one at a time | |
| `Shares` | holdings, share transactions, dividends | extends `MemberSavings`, instance of `ShareRegister` |
| `Members` | registration, status, exit, dormancy sweep | extends `Shares` |
| `Referrals` | registration with a code, conversion, commissions | extends `MemberSavings` |
| `PayrollFiles` | files of deductions | extends `MemberSavings` |
| `Vaults` | target vaults and their audit rows | extends `Requests` |
| `MemberServices` | the five above, composed, with the scheduler | extends them |
| `Ledger` | chart, GL settings, journal, reports, bank matching | extends `Requests` |
| `UgandaTax` | PAYE and NSSF of a gross pay | |
| `StaffPayroll` | runs, payslips, their postings | extends `Ledger`, `UgandaTax` |
| `UserAccounts` | sign-in, tokens, roles, two-factor authentication | extends `Requests` |
| `Notifications` | messages, background tasks, restarts | extends `Requests` |
| `Registers` | compliance reports, risk flags, news | extends `Requests` |
| `BackOffice` | the five above, composed | extends them |
| `Migrations` | `alembic upgrade head` on an empty database | |
| `...Proofs` | the theorems about `SavingsSessions`, `MobileMoney`, `LoanBook` and `MCLoanCalculator` (both in `LoanBookProofs`), `LoanOrigination`, `MemberServices` and `BackOffice`; `MemberAccountsProofs` are those about the accounts, shares, referrals and files of `MemberServices` | extend these |
| `SumTheorems` | lemmas about sums over finite sets, folds and recursive functions, sequences of sequences | used by the proofs |
| `MC...` | small instances of the above for TLC | |

### How a session is modelled

The same idea serves all modules but `Migrations`. A step of the model is what a
session does between two points at which others can interfere:

1. it starts: the handler's guards are evaluated on the committed rows, and what
   it has read is remembered (`view`);
2. it commits: the new values are computed from `view`, and the columns that
   changed are written over whatever is there now. In `SavingsSessions` the
   UPDATEs that lock rows come first, one at a time, in the order of the unit of
   work (`WriteRow`, `MayWriteNext`);
3. or it ends without a trace: an exception, a refused commit, a crash.

A *serializable* database refuses commits that would close a cycle: a row the
session read was written by a commit since, and that commit overwrote, or had
read, a row of the session. Nothing is refused because a row that was only read
is stale: the session then counts as the earlier one.

* In `SavingsSessions`, `MobileMoney`, `LoanBook` and `LoanOrigination` all
  sessions write the rows they read, or a row whose other writers read theirs.
  `stale` is history: it says that a row the session read was changed by a
  commit since. On READ COMMITTED nobody looks at it, a serializable database
  refuses a stale session.
* The modules on `Requests` have handlers that only read. Each says which of the
  rows it read are *guarded*, those it writes too and those whose writers read
  what it writes (`Same...`, next to the handler, with the reason). The others
  may change until the commit and do not stop it: the holdings a dividend is
  computed from, the balances and holdings an exit looks at, the user a token is
  refreshed for, the salaries, loans and settings of a payroll run, the members
  a sweep leaves alone.

A request whose guards refuse it changes nothing; it is no step, except in
`SavingsSessions` where requests are answered.

### SavingsSessions

`balance`, `rowSum`, `glCredit`, `lastInterest` and `interestRows` are the
committed tables: the balance column, the signed sum of `SavingsTransaction`
rows, the product's liability account, `last_interest_posted_at` and how often
the interest of a month was paid. A request is a teller transaction
(`PostLoad`, `PostRefused`), a transfer (`TransferLoadSender`,
`TransferLoadRecipient`, `TransferRefused`: its two SELECTs are two steps, and
the check uses the first), or an interest run (`InterestLoad`). All go through
`WriteRow`, then `Commit`, `RetriedCommit` (the retry of `RetryingSession`
after a refusal: rollback expunges what was pending, the second commit writes
nothing), `FlushRefused`, `Abort` or `DeadlockVictim`. `MonthTurns` moves the
local date and UTC, which a server east of Greenwich reaches later.
Refused transfers between an account and itself, unknown accounts and
the creation of accounts and products are left out; an account's product, rate
and minimum are constants.

### MobileMoney

The row of a transaction is its `status` and whether it has a `uuid`. PENDING is
never committed, so no session sees it. `marz` is what MarzPay did, `call` where
the requesting endpoint stands: the network call (`Initiate`, `Accept`) lies
between the read and the only commit (`Recorded`, `PayoutFails`), or there is no
commit (`CollectionFails`, `InitiatorDies`). A handler `h` is a webhook or a
poll; it reads the row of the transaction `on[h]`, asks MarzPay about `asked[h]`
(`Verify`), and books (`Commit`, with `BookSavings`, `BookRepayment`,
`BookDisbursement` for `_finalize_success`). The two transactions are the same
for a poll. The webhook asks about the uuid in the body of the callback and
compares nothing of the answer with the row it found by the reference: with the
fault `other_uuid`, `Askable` lets a callback carry the uuid of any other
transaction that the same MarzPay endpoint knows.

`Staff` are the operations at the counter that change the same rows. MarzPay is
external: it is modelled from the statuses the code distinguishes and the calls
it makes. A loan's schedule is the total it still asks for, interest included
(`owed`, out of `Due` for each of the `lent` schedules made), and `recovered` is
what postings took off it. How a payment is split into principal and interest,
and Loans Receivable with it, is left to `LoanBook`, which has the rows. With
`SingleWorker` the asynchronous webhook handler, which calls blocking code,
keeps other handlers of its process from starting.

### LoanCalculator and LoanBook

Money is in cents, and a value the code has not quantized is an exact fraction
(`Decimal` carries 28 digits; the amounts of a loan leave more than fifteen of
them behind the cents). `LoanBook` keeps the rows of one schedule by id.
An operation is a function from what the session read to what it writes
(`Repay`, `Penalize`, `Waive`, `WriteOff`, `Reschedule`, `Disburse`), `Commit`
merges that column by column. `Repay` is `apply_loan_repayment`, which the
counter, payroll and mobile money share; `payroll` is the deduction, which
checks no status. `loans.py` and `loan_actions.py` both define
`reschedule_loan`; the first is registered first and is the one modelled.
`top_up` and `release_collateral` of `loan_actions.py` fail on attributes that
do not exist before they change anything. The daily job is one session per loan
here; in the code it is one session for all loans.

### LoanOrigination

Statuses of the application, its guarantors and its group guarantees. Each
request has the guard of its handler (`Passes`), reads some rows (`Reads`) and
writes one (`After`). `respond_to_guarantee` checks nothing, so answers may come
late or change. Amounts, products, collateral and reminders are left out.

### Requests

`Requests` states that idea once for the modules written after the first four.
`db` is a record with one field per table, so that modules are composed by
putting their tables side by side (`Beside`). A handler is given to `Serves` by
four operators, named in each module after what the code does: its jobs (the
inputs), what it reads for a job, what it accepts, and what it writes, given the
job, what was read and the rows now. `Opened` is the first half, `Committed` the
second, `Failed` everything that ends in a rollback. `ServesWhile` takes a fifth
operator, which compares the guarded rows now with those that were read; `Serves`
is the case in which all of them are guarded (`SameRows`). `MayCommit` is the
isolation level: it looks at that comparison on a serializable database, and at
nothing otherwise. Rows are compared by value, where the first four modules
remember that something was written. The writes use what was read for every
value computed in Python and the rows now for columns that are not written, as
SQLAlchemy does.

A composed module has many operations that have nothing to do with each other.
`Desks` is a set of sets of operations; a behaviour offers one of them,
chosen at the start. Which operations belong together is said in the MC modules:
those that read or write a common column, plus those that must go before. The
theorems hold for every `Desks`, the set of all operations included.

### MemberSavings, Shares, Members, Referrals, PayrollFiles

`db.balance` and `db.rows` are an account's balance and the sums of its
transaction rows by narrative, `db.liability` the ledger account. `Credit` is
what five handlers do to an account: a row, the balance that was read plus the
amount, a posting.

`Shares`: `RecordShareTransaction` covers the four types; a member's first
purchase inserts a holding, and two of them at once insert two. `DeclareDividend`
computes payouts from the holdings it read, reinvested ones credit accounts. A
transfer that commits meanwhile reads nothing of that, so the dividend may pay
holdings that have moved; the accounts it credits are guarded. It checks nothing
about the year: the same dividend can be declared again.

`Members`: `ExitMember` has the checks of `exit_member`; any ACTIVE loan ends it
in an `AttributeError`, which the model counts as a refusal. It writes the row of
the member, which a disbursement reads for its notice; credits and share
transfers never look at that row, so an exited member may still receive one.
`DisburseLoan` is what origination does, seen from the member. The sweep
(`TriggerSweep` by staff, `StartDailySweep` by the scheduler) has the three
queries of `sweep_dormant_members`; `queue_notification` flushes, so that the
second and third query see the stage and status the first wrote. Its messages
leave the server before its only commit: `SendNotices` fills `db.sent`, which no
rollback takes back, and `FinishSweep` commits rows, stages and statuses, or the
sweep ends in `Failed` with its messages sent. `last_activity_at` is written by
the registration and by no transaction, which is why `db.since` never moves
afterwards; it may be empty (`Undated`, `Never`), and then no query finds the
member.

`Referrals`: `Convert` is the webhook with the task it starts. `create_referral`
leaves two columns empty that the table requires and always fails; older rows
are there from the start.

`PayrollFiles`: a line without an account becomes an exception and stays; a line
for an account that does not exist is caught too, but its row breaks a foreign
key and the whole file fails. A file sent again is another file.

### Vaults

A vault is its status, lock, balance and maturity; `db.moved` is what its audit
rows say. Reaching the target unlocks the vault before its maturity, and the
penalty of an early withdrawal is written to the audit row and nowhere else.

### Ledger, UgandaTax, StaffPayroll

`db.entries` is the journal, in the order it is written. An entry is asked for
in mills, tenths of a cent, which stand for all the decimals a request may
carry; `Postable` is `post_journal_entry`, which compares the sums of what was
asked for, and `Stored` what the columns keep of it, each amount rounded to
cents (`Cents`). `ManualEntries` are the entries staff may ask for, of two lines
or more with any amounts, negative ones and both sides of a line included. An
`account_type` is any string. `BalanceSheet` and `NetSurplus` compute what the
reports do; the flag `balances` of the balance sheet leaves out the surplus of
the year, so the property compares both reports, and counts what lies on
accounts of a type that neither asks for (`Unreported`). `UgandaTax` has the
bands as the code has them, in cents, and a second definition by marginal rates
to compare with.

A run is a draft with payslips at gross pay; `ProcessPayrollRun` computes taxes
and deductions from the salaries, loans and settings it read, posts entries, and
writes the columns it computed. A gross pay is any number of cents, negative
ones included, a deduction that was asked for any number of mills. There is one
entry for each payslip (`Posts`), but none at all while a configured account is
missing, and none for a payslip whose deduction belongs to no loan or to a loan
whose product has no account (`LoanAccountOf`), while the others of the run are
posted. The loan deduction is credited to the loan account and never applied to a
schedule. `MarkPayslipPaid` looks at no status: a payslip of a draft can be paid.

### UserAccounts, Notifications, Registers

`db.token` are the unexpired tokens in the hands of clients; nothing on the
server revokes one. `Refresh` and every signed-in request read the user again
(`MayStay`, `MaySetUp`, `CodeVerified`). `Refresh` writes nothing, so no database
refuses it: a promotion that commits while it runs leaves a token of the old
portal, which no later request accepts. Codes and hashes are library code: a code
is identified with the secret it comes from.

A message is queued by a committed request and sent by a task (`StartTask`,
`Dispatch`, `FinishDispatch`), or sent by a handler whose transaction is still
open (`SendAlert`, `Dispatch`, `FinishDispatch`). `Dispatch` chooses whether the
service took the message and whether the server learned it. If that handler then
fails its alert is out, about nothing, and the request that is made again sends
it again. `ServerRestarts` rolls everything back and forgets the tasks; what the
service took stays taken.

`Registers` are the checks before a one-way action: submitting a report,
resolving a flag, filling an empty news table.

### Migrations

`Start`, `Execute`, `Refused`, `Serve`: the container starts, the statements of
the first two revisions are executed in one transaction, a refused one undoes
all of them, and the server starts when there are none left. The revisions'
statements are listed by table and foreign keys.

## 3. What is checked

`tlc -config <run>.cfg <module>` runs one of them.

| Run | Module | What it shows |
|---|---|---|
| `savings_serializable` | `MCSavings` | `BalanceMatchesRows`, `InterestOncePerMonth` and the refinement of `AtomicSavings` with three requests of every kind |
| `savings_read_committed` | `MCSavings` | what holds without serializability: the minimum (a debit writes the value it checked), the liability account; only interest runs deadlock with others, and every request is answered (`RequestsGoOn`) |
| `momo_savings` | `MCMobileMoney` | a deposit, a withdrawal, a repayment and the counter over several workers: with callbacks that carry their own uuid, however often and whatever they claim, payments are booked once, the rows are true about the money (`RowsAreTrue`), the schedule adds up (`OwedAddsUp`), and the module refines `ConfirmedPayments` |
| `momo_loan` | `MCMobileMoney` | two payouts of one loan, staff who collect and write off, lost replies, crashes and callbacks with the uuid of the other payout: nothing is booked without MarzPay having completed what it was asked about, one schedule is made and adds up, a final status stays, outcomes are learned |
| `loan_calculator` | `MCLoanCalculator` | `ScheduleAddsUp`: for all small loans the schedule repays the principal to the cent, level but for the last row, which is off by no more than a cent a month compounded, and with falling interest |
| `loan_rescheduled` | `MCLoanBook` | the types, and Loans Receivable is the principal left, within half a cent per posting, through part payments and reschedulings |
| `loan_serializable` | `MCLoanBook` | two sessions of everything that happens to a loan: no payment is lost and no paid row charged (`PaymentsStay`), no row is charged twice, settled is closed and written off stays so (`StatusFollowsSchedule`) |
| `origination_serializable` | `MCLoanOrigination` | an approved loan is guaranteed, and the refinement of `LoanLifecycle` |
| `member_services` | `MCMemberServices` | two sessions and the scheduler: the refinement of `ShareRegister`, every credit explained by the component that wrote it, referrals, vaults, no exit with an active loan, sweeps that undo nothing and record what they sent, and that silent members fall dormant |
| `back_office` | `MCBackOffice` | two sessions: books and payroll add up but for rounding and the payslips that have no entry, one-way actions happen once, users sign in to their own portal, queued messages survive restarts without being sent twice, and tasks end |
| `savings_lost_commit` | `MCSavings` | violation of `AcknowledgedIsDurable` |
| `migrations_from_empty` | `Migrations` | violation of `ApiStarts` |

Several properties are conjunctions of parts that one story breaks and that are
named in the modules: `RequestsGoOn` (`NoLockCycle`, `EveryRequestAnswered`),
`RowsAreTrue` (`CompletedIsBooked`, `FailedMeansNotMoved`, `BalanceMatchesRows`),
`ScheduleAddsUp` (`PrincipalIsRepaid`, `InstallmentsAreLevel`, `BalanceReduces`),
`PaymentsStay` (`PaidMeansCovered`, `NoRepaymentLost`), `StatusFollowsSchedule`
(`SettledIsClosed`, `WrittenOffStays`), `CreditsAreExplained`
(`BalancesMatchRows`, `ReinvestedIsCredited`, `FilesBookTheirLines`),
`ReferralsAddUp` (`TiersFollowChain`, `ReferralsPaidOnce`), `VaultsAddUp`
(`VaultsMatchAudit`, `StatusTellsHistory`), `BooksAgree` (`TrialBalances`,
`ReportsAgree`), `PayrollAddsUp` (`TaxIsMarginal`, `PayslipsAddUp`,
`OneRunPerPeriod`, `PostedOnceAndWhole`) and `OnceOnly` (`SubmittedOnce`,
`SeededOnce`).

Each property of a passing run has a mutant in `PROJECT.json`: a changed
definition, as a plausible bug would have it, under which TLC finds the property
violated.

Types are an invariant of the runs of `LoanBook`, `MemberServices` and
`BackOffice`. Those of savings, mobile money and origination are proved for
every instance and not checked again.

### Where code and documentation disagree

* `savings_lost_commit`: `database.py` says it retries serializable failures.
  The retry commits a session that the rollback has emptied; the request is
  answered with success and nothing is stored.
* `migrations_from_empty`: the README of the repository starts the stack with
  `docker compose up`. The second revision alters `mobile_money_transactions`,
  which no revision creates; the transaction is rolled back and the container
  starts again to fail again.

Further configurations are kept beside the runs, each of which TLC refutes:

| Configuration | Property | What happens |
|---|---|---|
| `savings_transfer_gl` | `LiabilityMatchesRows` | a transfer between two products is not posted |
| `momo_failed_payout` | `FailedMeansNotMoved` | a payout whose call timed out is FAILED; MarzPay carried it out, and the webhook that says so is ignored because FAILED is final |
| `loan_penalty_split` | `ReceivableNotOvercredited` | part payments are split by what is due at that moment: a penalty between two of them makes the shares of principal exceed the principal |
| `loan_waived_again` | `WaivedStaysWaived` | a waived penalty is charged by the next run |
| `loan_writeoff_payroll` | `WrittenOffStays` | a deduction closes a defaulted loan |
| `momo_other_uuid` | `PaymentsSpec` | a callback names one payment and carries the uuid of another that was completed: the first is booked although MarzPay never moved it |

Three more properties of `MobileMoney` are refuted by small changes of its runs:
`MinimumBalanceKept` with two withdrawals in `momo_savings.cfg` (both are
checked before either is booked), `ClearedWhatMoved` in `momo_loan.cfg` with a
payout and a repayment and no faults (what a repayment has beyond the schedule is
in no account), and `EveryRequestTracked` there with a deposit alone and
`reply_lost` as the only fault (a collection whose reply is lost leaves no row
behind). `ApprovedIsAccepted` of `LoanOrigination`, as an invariant of
`origination_serializable.cfg`, is refuted too: the lifecycle asks for accepting
guarantors, a decision only refuses pending ones, and all may have declined.

With `Isolation = "read_committed"` in the serializable configurations TLC
refutes the properties that rest on it. `savings_serializable`: two requests
read one balance; the interest job and the manual trigger pay one month twice.
`momo_savings`: a webhook and a poll both book a payment.
`loan_serializable`: a penalty lands on a row paid meanwhile.
`origination_serializable`: a guarantee asked for during the decision, two
payouts. `member_services`: shares sold twice, a conversion credited twice, a
member who exits while a loan is paid out, a sweep that undoes an exit, two rows
for one notice. `back_office`: two
runs for one period, a run posted twice, a report submitted twice, seeds
inserted twice, a change by a user demoted meanwhile. READ COMMITTED is the
isolation of the PostgreSQL in `docker-compose.yml`, so these are what that
deployment is exposed to; serializability is what the code relies on.

Also met while modelling, without a configuration:

* with a server ahead of UTC (`ServerIsUtc = FALSE`) a run in the first local
  hours of a month is repeated;
* a repayment confirmed after its loan was closed is completed and booked
  nowhere; MarzPay may carry out two payouts of one approved loan, and both are
  posted; a write-off credits interest that was never debited;
* `accounting_service.py` calls an entry checked that balances to the last
  decimal; the columns then round each amount, so that three thirds against a
  whole are stored a cent apart. `TrialBalances` says by how much at most;
* an account whose type is spelled in any other way than the reports ask for is
  in none of them;
* a payslip whose deduction has no loan account is not posted, the others of the
  run are; a negative salary gives a payslip a negative deduction;
* a dividend may be paid on holdings that were transferred before it commits, an
  exited member may receive shares or a credit, a token refreshed during a
  demotion is for the old portal: nothing that only reads is ever refused;
* a sweep that is refused or fails has sent its notices, and the next one sends
  them again; the same is true of alerts;
* `routers/mobile_money.py` uses `Optional` (line 102) without importing it, so
  that importing the module, and `app.main` with it, raises a `NameError`. The
  model is of the code with that import. It is a second reason why the container
  of `migrations_from_empty` would not serve, which comes after the migrations.

`SettledIsClosed` leaves out loans with a waiver or a rescheduling, because
waiving the penalty of a row whose other parts are paid, or rescheduling a
fraction of a cent, leaves an active loan with nothing to pay.
`SilentFallDormant` leaves out members whose stage is ahead of their status and
those without a date of a last activity: no query of the sweep finds them. What
the code permits without any property against it: a dividend declared again for
the same year, a payroll file uploaded again, a payslip of a draft paid, and HR
deductions that never reach the loan's schedule.

### Bounds

* Savings: two accounts, three requests, amounts of 1 and 2. Two accounts
  are what a transfer and a lock cycle need. Two requests suffice for every race
  found; the third stands for one that interferes with both. Two months, for
  interest that crosses a month. The rate is 300 % so that a balance of 2 earns
  half a unit, which is where rounding shows.
* Mobile money: one account, one loan and two handlers, which is one webhook and
  one poll, or two of a kind. `momo_savings` has three transactions of different
  purpose, `momo_loan` two payouts of one loan, which is what a callback with the
  other's uuid and a second payout need. The loan of 4 asks for 5 in all and is
  repaid by 3, so that the second repayment exceeds it. MarzPay may settle either
  way, callbacks may come any number of times.
* Calculator: principals up to 60 cents, terms up to 5 months, four rates. Both
  sides of the condition on the last row occur: a cent over three months at a
  quarter a month has a negative last row.
* `LoanBook`: a principal of 9 cents over 2 months at a third per month makes
  every rounding occur. Up to six requests, two sessions, six row ids, two
  months: enough to miss an installment, be charged, waived and charged again.
* Origination: two guarantors of which one must accept, one group guarantee, two
  sessions, six requests: all answers, a correction, a decision and a payout.
* `MemberServices`: two members, one with an account; one vault with a target of
  2; three users, so that a chain of two tiers exists; one older referral; files
  of up to two lines; share transactions of up to 2. Four requests from two
  sessions and the scheduler, and a clock of 0 to 3 with the thresholds of the
  sweep at 1, 2 and 3: one more request than any of the races needs. The clock
  stands still for operations that look at no date. The member of the start may
  have no date of a last activity.
* `BackOffice`: two employees, two periods, three salaries (one that is rounded,
  one that is negative), staffings with an employee listed twice, deductions of
  less than nothing, of more than the pay, of a fraction of a cent, for no loan
  and for a loan whose product has no account; an account of a type that no
  report asks for; manual entries of a third three times against a whole, with
  both sides on one line, with a negative amount, for an account that may not
  exist yet, and two that are refused; two queued messages and an alert; one
  user, two secrets; one each of reports, flags and bank lines. The gross pays of
  `SampleGross` lie on both sides of every tax band. Amounts stay within the 32
  bits of TLC's integers, in mills. Four requests, two sessions, two days.
* `Migrations` has no bound: the statements are those of the revisions.

`CHECK_DEADLOCK FALSE` is set where requests are used up or the bound on them is
reached: the system then waits for input it does not get in the instance.

### Fairness

* `SavingsSessions!FairSpec`: weak fairness of `Proceed(r)`. A request that has
  started keeps running: its thread is scheduled and the database answers every
  statement, if need be by failing one of a cycle. Nothing obliges requests to
  arrive or to abort.
* `MobileMoney!FairSpec`: strong fairness of polling each transaction (somebody
  keeps asking; there is no poller in the server, so this is an assumption about
  its users), weak fairness of `GiveUp` (calls time out after 30 seconds), strong
  fairness of `Verify` and `Commit` (MarzPay answers now and then, commits are
  not refused for ever). Nothing obliges MarzPay to settle or to call back.
* `MemberServices`: the scheduler starts the sweep (weak), a sweep goes on, one
  way or another, until it ends (weak), and gets through its notices and to its
  commit now and then (strong, for each of the two: requests that conflict with
  it do not come without end). APScheduler runs the job daily.
* `BackOffice`: the call to the service ends (it has a timeout), a commit is
  answered or fails, and a free thread takes up a waiting background task, all
  weak, for each session. No fairness on requests or on restarts.
* `Migrations`: the container restarts `unless-stopped` and what runs goes on.

## 4. What is proved

TLAPS checks the proofs for all values of the constants that satisfy the named
assumptions of the modules: amounts, minimums and thresholds are natural
numbers, names do not clash, monthly rates are fractions of natural numbers, the
opening chart of accounts is finite, a manual entry is a sequence of at least
two lines of integers, salaries are integers of which one is positive (new
employees have it), a deduction asked for is an integer, and a desk that queues
notifications also delivers them. Any number of members, accounts, sessions and
requests is covered, the bounds of section 3 are not used. Theorems that need
more say so; where a hypothesis is there because the code needs it, a refuted
configuration of section 3 shows it.

**From sessions to requests.** All proofs about requests have the same three
steps. A first invariant says of every session that it works on a job its
handler accepted on what it read (`SessionInvariant` of the savings, `IInv` of
origination, `WorkIsAccepted` of the member services and of the back office,
`Typed` of the loan); it holds at any isolation. On a serializable database what
a session writes, and what its writers look at, is at the commit what it was
when it was read, so that each request acts on these rows as if it were alone
(`StepAlone`, `Commits`). What a handler of the `Requests` modules has only read
may have changed, and no theorem about it says otherwise. The invariants about
the rows are then inductive over whole requests. A table of what each operation
writes (`WrittenBy`, and `...Keeps`) leaves for every invariant only the
operations that touch its columns.

**SumTheorems.** The modules add with the folds of the community modules and
recurse with functions. A fold is a function *chosen* to satisfy a recursive
equation; the lemmas show, by induction over the subsets of a finite set, that
exactly one function does, and derive what is said of a sum: one term more, one
term changed, the sum of a sum, a sum by groups, a sum over renamed indices. The
induction is stated over a set of subsets and not over a predicate, because the
provers cannot instantiate an operator. `FoldStays` and `CountStays` do the same
for folds over sequences and functions that count down.

**SavingsSessionsProofs.** `TypeCorrect`: the types, with the calendar (UTC is
never ahead of the local month, and equal to it on a server in UTC).
`SessionInvariant`: `SessionInv`, which holds at any isolation: a session's
deltas are those of an operation of its kind, computed from what it read, and a
row that is not stale still has the value that was read. It is what makes a
commit's absolute balances mean something: `NoLostUpdate` (serializable: old
balance plus delta) and `MinimumNeverBreached` (any isolation: the written value
is the checked one) follow, and `SessionsAreAtomic`, the refinement of
`AtomicSavings` (a commit is the operation, every other step a stutter).
`InterestPaidOnce` needs a history: on a serializable database and a server in
UTC, an account whose month was paid has its stamp at that month or later, and a
running interest run that saw it unpaid is stale if somebody paid since.
`AcknowledgedStays`: where no commit is refused, or only tellers work (whose
handlers refresh the row, so that the emptied retry fails instead of answering),
what was acknowledged is stored; `savings_lost_commit` is the rest.
`LiabilityFollowsRows`, at any isolation: the liability accounts follow the
rows, if transfers stay within one product; `savings_transfer_gl` is the rest.
`LocksAreOrdered`: teller transactions and transfers take their row locks
upwards, therefore the session that holds the highest row can proceed; interest
runs take them in another order.

**MobileMoneyProofs.** `MoneyInvariant`: `MoneyInv`, that is the types, that a
booking session works on a transaction with a row and has a verdict that is
MarzPay's final status of the transaction it asked about, that rows come after
the call, and `LedgerFollowsMarzPay`. `MoneyTypes` and `BookedAfterMarzPay` are
read off it: they hold at any isolation and with all faults, and say for a
callback with another uuid only what is true of it, that MarzPay completed one
of the transactions it may have named. `NeverBookedTwice` uses `OnceInv`: on a
serializable database a session that is not stale still sees its transaction in
`processing`, and what is booked has a final status. `FinalForGood` (an action
property) follows from it with all faults; at READ COMMITTED it needs callbacks
that carry their own uuid, because two verdicts on one row then are the same.
`ImplementsPayments`, the refinement of `ConfirmedPayments`, needs a
serializable database and callbacks with their own uuid; `momo_other_uuid` is
what another's does. `BalancesAreTheirRows` adds to `OnceInv` that a session
that is not stale still sees the balance (`Current`). `FailuresAreTrue`: if no
reply of MarzPay is lost and callbacks carry their own uuid, a transaction
recorded as failed moved nothing, at any isolation; `momo_failed_payout` is what
a lost reply does. `RowsStayTrue` puts these together and adds that what is
completed is booked, but for a repayment whose loan was closed, written off or
lent again since it was asked for: the loan of a repayment has been paid out
when it is asked for (`RepaymentAsked`), and is then active, closed, written
off, or made active by one more schedule (`LoansMove`). `OwedAlwaysAddsUp`: what
the schedule asks for and what was recovered are what the schedules made asked
for, however payouts, repayments and write-offs of the counter, the webhook and
the poll are mixed, with all faults. Its strengthening (`OwedInv`) is that a
schedule asks for nothing while the loan is not active, so that a payout never
replaces rows that were still due.

**LoanBookProofs.** `SchedulesRepayPrincipal`, for every principal, rate and
term: the installments of a schedule sum to its principal within half a cent,
and to the cent for a principal in whole cents, because the last row clears what
rounding left. It goes by the invariant of `OneRowMore`: what the rows repay
plus the balance is the principal. `SchedulesReduce`: every row but the last
asks for the rounded installment, with a principal that is never negative, and
interest never rises. The annuity is more than the interest on the whole
principal, and the balance never rises above it; rounding half a cent away from
zero keeps the order (`CentsGrow`) and commutes with whole cents (`CentsLess`).
`SchedulesAddUp`: the invariant of `loan_calculator`, for any principal in whole
cents, any term and any rate. The installment is rounded the same way each
month, so the last row, which asks for the balance that is left, takes up what
has been rounded, compounded. The annuity would clear the balance
(`AnnuityClears`); each month rounds its interest and the installment by half a
cent each (`MonthRounds`), and what the balance is off grows with the rate
(`ErrorGrows`, `ErrorsCompound`), so that the last row is off by `months` cents
times the growth over the whole term at most (`LastIsNear`; `Drift` over
`Flat`). From it: the last principal is not negative if the installment is at
least that (`LastRepays`). The condition is needed: 16.42 at 1% a month over 60
months leaves a last row of -0.04, where the installment is 0.37 and rounding
may come to 1.09. `TypesHold`: at any isolation all columns and sessions keep
their types, with penalties and payments never negative. On a serializable
database `Sound` is inductive: a session that is not stale sees the current rows
(`Fresh`), ids are given in order and rows that do not exist are blank
(`InTurn`), everything collected is on a row or went with the rows a
rescheduling replaced (`AllKept`), and a row marked paid asks for nothing unless
the loan was written off. `Effect` says for each of the six operations what it
does to a row; it follows from the definition of the operation, and `Sound` from
it. `PaymentsAreKept` and `PenaltiesAreChargedOnce` come from `Sound`.
`StatusIsTrue` is proved for loans without payroll deductions, which look at no
status (`loan_writeoff_payroll`), and for schedules that ask for something every
month: a loan of fewer cents than months has rows that are settled before
anybody pays, and no payment to close it. `ReceivableFollowsPrincipal`: what a
repayment posts is a quotient, its share of the installment's principal, rounded
to cents. Over a common multiple of all that installments ask for (`Fits`) the
quotients become integers, and the principal left a sum of them (`LeftIsParts`).
Before rounding, the share that is posted is then exactly what goes from that
sum (`RepaySplits`), so that each repayment adds at most half a cent of
difference and, by `SchedulesRepayPrincipal`, so does each rescheduling. It is
proved without penalties, which change the shares between two part payments
(`loan_penalty_split`), and without write-offs, which credit what is due and not
the principal; payroll deductions may come at any time.

**LoanOriginationProofs.** `TypeCorrect`; `OriginationInvariant`: the inductive
`IInv`, which says of a running session that it passed its handler's checks on
what it read, that what it read is current unless it is stale, that an approved
loan is guaranteed and that only active loans were paid. From it on a
serializable database: `GuaranteesAnswered`, `OnePayout`, and
`ImplementsLifecycle`, the refinement of `LoanLifecycle`.

**MemberServicesProofs** (serializable). A running exit or vault session passed
its checks on what it read (`SessionsInvariant`). Because the commit finds what
is guarded unchanged, these rows pass at the commit the checks that were made
earlier: `ExitsAreCleared` (nobody exits with an active loan, the one thing an
exit looks at whose writer looks at the member's row) and `SweepsKeepDecisions`
(a sweep only takes active members to dormant), both action properties.
`NoticedOnce` strengthens "no stage is recorded twice, and none without its
message" to `NoticesInv`: every notice row that exists is of a stage up to the
recorded one, a sweep only writes rows of later ones (`SweepKeepsNotices`), and
a stage that has a row, or that a sweep which has sent its notices is about to
record, has left the server (`SentInv`, `HasSent`). `VaultsAlwaysAddUp`: the
balance is what was paid in less what was paid out, BROKEN is exactly an early
withdrawal in the audit rows, and an unlocked vault matured with its target paid
in.

**MemberAccountsProofs** (serializable). `OneHoldingEach`: a holding exists
once, is never negative and is what was bought and received less what was
redeemed and given. With it `SharesImplementRegister`, the refinement of
`ShareRegister`, in the presence of everything else that runs.
`AccountsInvariant`: `AccountsInv`, in four parts: a balance is the sum of its
rows and the liability the sum of the balances; the dividend rows are what the
declared dividends reinvested; tiers follow the chain of registrations and are
paid once; the payroll rows are what the processed lines say.
`CreditsAreAlwaysExplained` and `ReferralsAlwaysAddUp` are read off it.
`MemberServicesTypes`: the types.

**BackOfficeProofs.** At any isolation: `RowsAreWellFormed`, that rows are
added and never taken away and fit the work the sessions go on with;
`BackOfficeTypes`; `BooksAlwaysAgree`; `PayslipsAlwaysAddUp`;
`TaxTableIsMarginal` for every gross pay, where the run checks samples; and
`NobodyQueuedHearsTwice`, restarts included: by `MessagesInv` a queued message
waits as a task, is worked on by one session, or is done with, and what a session
knows of the outcome is what the service did.

`BooksAlwaysAgree` is about entries of any lines and accounts of any type. What
is posted balances in mills; each of the two columns of a line is rounded by half
a cent at most (`CentsNear`, `StoredColumn`), so that the stored entry is out by
a cent a line at most. The balance sheet, the surplus and the accounts of no
report are sums over the same entries by account type, and are out by the sum of
what the entries are. `PayslipsAlwaysAddUp`: deduction and net pay share one
amount, and rounding both adds a cent at most; the totals are rounded once, each
payslip too, so that they differ by half a cent for each; a processed payslip
leaves nobody with less than nothing, whatever salary and deduction were asked
for.

On a serializable database: `PayrollAlwaysAddsUp` (one run for a period, and each
payslip that has an entry posted once and with its amounts, or none of them),
`ProcessedStaysProcessed` (an action property), `OwnPortalOnly` (a login or a
change of the two-factor authentication is for the portal of the user's role at
the commit; a refresh is not spoken of), `SecretWhereTwoFactor` (two-factor
authentication is never on without a secret) and `DoneOnce` (reports are
submitted once, the news are seeded once).

**Only model-checked.** Liveness, because TLAPS does not reason about fairness
and ENABLED here: `EveryRequestAnswered` of `RequestsGoOn`, `OutcomeIsLearned`,
`TasksEnd`, `SilentFallDormant`. All other properties of the passing runs are
stated by a theorem.

## 5. What is not modelled

* Members: the statement, next of kin and trusted contacts, and the settlement
  of a deceased member. `loan_actions.py`: `top_up` and `release_collateral`
  fail on attributes that do not exist before they change anything.
* Reports that only read: cash flow, ratios, portfolio at risk, regulator
  returns (`sasra_reports`), credit scores, statistics of referrals.
* Plain rows: group meetings, contributions and membership, branches, updates of
  news, employers, products, the creation of savings accounts, new employees;
  the audit log except where a property compares it with rows.
* Authentication: changes of password and logout, which revoke nothing; hashing,
  tokens and one-time codes are library code. Authorization is otherwise checked
  before a handler reads anything it changes and is left out.
* Ledger: numbers of journal entries, penalty and interest income.
* Migrations: the revisions after the second, which an empty database never
  reaches, and downgrades.
* E-mail and SMS are outbound; static pages hold no state of the server.

## 6. Plan

Done: savings and its sessions, because every other component has the same
shape; mobile money, the only one with an outside; the schedule and the loan;
origination; then the member services and the back office on a common module
for sessions, and the start of the container. Next:

1. The settlement of a deceased member, which composes savings, shares and
   loans as the exit does.
2. Proofs: whatever 1 and 3 add; the liveness properties stay with TLC.
3. An abstract journal that `Ledger`, savings and loans all implement, so that
   their postings are checked in one set of books.

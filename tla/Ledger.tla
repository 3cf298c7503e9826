------------------------------- MODULE Ledger -------------------------------
(***************************************************************************)
(* The general ledger: the chart of accounts, the accounts configured for  *)
(* automatic postings, the journal, the reports computed from it, and the  *)
(* matching of bank statements.                                            *)
(*                                                                         *)
(*   db.chart      the accounts that exist                                 *)
(*   db.gl[f]      the GLSettings row, NoAccount for an empty field        *)
(*   db.entries    the journal, in the order it is written: what wrote an  *)
(*                 entry, what it is about, its date and its lines         *)
(*   db.bank[t]    a line of a bank statement: the entry it is matched     *)
(*                 with, 0 before, -1 when it is not uploaded yet          *)
(***************************************************************************)
EXTENDS Requests, Integers, Sequences, Functions

CONSTANTS Accounts,      \* the codes an account may have
          NoAccount,
          TypeOf,        \* the account_type of each code, any string
          OpeningChart,  \* the accounts at the start
          OpeningGL,     \* GLSettings at the start
          Changes,       \* pairs of a GLSettings field and what it may be set to
          BankLines,
          ManualEntries  \* the lines that a manual entry may be asked to have

GLFields == {"cash", "salaries", "nssf_expense", "paye_payable", "nssf_payable"}

DebitNormal  == {"asset", "expense"}
CreditNormal == {"liability", "equity", "income"}

ASSUME LedgerAssumption ==
    /\ DOMAIN TypeOf = Accounts
    /\ OpeningChart \subseteq Accounts /\ IsFiniteSet(OpeningChart)
    /\ OpeningGL \in [GLFields -> OpeningChart \cup {NoAccount}]
    /\ NoAccount \notin Accounts
    /\ \A lines \in ManualEntries :
          /\ lines \in Seq([account : Accounts, debit : Int, credit : Int])
          /\ Len(lines) >= 2
    /\ Changes \subseteq GLFields \X (Accounts \cup {NoAccount})

LedgerTables == [chart   |-> OpeningChart,
                 gl      |-> OpeningGL,
                 entries |-> <<>>,
                 bank    |-> [t \in BankLines |-> -1]]

LedgerTypeOK ==
    /\ db.chart \subseteq Accounts
    /\ db.gl \in [GLFields -> db.chart \cup {NoAccount}]
    /\ \A i \in DOMAIN db.entries :
          /\ DOMAIN db.entries[i] = {"by", "about", "date", "lines"}
          /\ \A k \in DOMAIN db.entries[i].lines :
                db.entries[i].lines[k] \in [account : db.chart, debit : Int, credit : Int]
    /\ db.bank \in [BankLines -> -1 .. Len(db.entries)]

-----------------------------------------------------------------------------
Line(account, debit, credit) == [account |-> account, debit |-> debit, credit |-> credit]

TotalDebit(lines)  == SumFunction([i \in DOMAIN lines |-> lines[i].debit])
TotalCredit(lines) == SumFunction([i \in DOMAIN lines |-> lines[i].credit])

\* post_journal_entry refuses everything else, before anything is rounded
Postable(lines, chart) ==
    /\ TotalDebit(lines) = TotalCredit(lines)
    /\ TotalDebit(lines) # 0
    /\ \A i \in DOMAIN lines : lines[i].account \in chart

\* an amount in mills, tenths of a cent, as a column of cents keeps it: rounded
\* half away from zero
Cents(mills) == IF mills < 0 THEN -((5 - mills) \div 10) ELSE (mills + 5) \div 10

Stored(lines) ==
    [i \in DOMAIN lines |-> Line(lines[i].account, Cents(lines[i].debit), Cents(lines[i].credit))]

\* the row of an entry asked for in mills
Entry(by, about, date, lines) ==
    [by |-> by, about |-> about, date |-> date, lines |-> Stored(lines)]

-----------------------------------------------------------------------------
AccountJobs == [account : Accounts]

CodeRead(j, d) == j.account \in d.chart

CodeIsFree(j, v) == ~v

AccountCreated(j, v, d) == [d EXCEPT !.chart = @ \cup {j.account}]

\* create_account
CreateAccount(s) == Serves(s, "create_account", AccountJobs, CodeRead, CodeIsFree, AccountCreated)

-----------------------------------------------------------------------------
\* two lines or more, each with a debit, a credit or both, of any amounts
JournalJobs == [lines : ManualEntries, at : {now}]

\* the accounts its lines name, as far as they exist
AccountsRead(j, d) == {j.lines[i].account : i \in DOMAIN j.lines} \cap d.chart

IsPostable(j, v) == Postable(j.lines, v)

EntryPosted(j, v, d) ==
    [d EXCEPT !.entries = Append(@, Entry("manual", NoAccount, j.at, j.lines))]

\* create_journal_entry
CreateJournalEntry(s) ==
    Serves(s, "journal", JournalJobs, AccountsRead, IsPostable, EntryPosted)

-----------------------------------------------------------------------------
SettingsJobs == [change : Changes]

\* the row, and whether the account is there that it is to name
GLSettingsRead(j, d) == [row |-> d.gl, found |-> j.change[2] \in d.chart \cup {NoAccount}]

\* Mutant: the accounts are not looked up
AnyCode(j, v) == TRUE

IsAnAccount(j, v) == v.found

GLSettingsSet(j, v, d) == [d EXCEPT !.gl[j.change[1]] = j.change[2]]

\* update_gl_settings; the row exists from the start, empty
UpdateGLSettings(s) ==
    Serves(s, "gl_settings", SettingsJobs, GLSettingsRead, IsAnAccount, GLSettingsSet)

-----------------------------------------------------------------------------
UploadJobs == [lines : (SUBSET BankLines) \ {{}}]

NewLines(j, v) == v = {}

\* the lines of a statement are new rows
UploadedRead(j, d) == {t \in j.lines : d.bank[t] # -1}

StatementUploaded(j, v, d) ==
    [d EXCEPT !.bank = [t \in BankLines |-> IF t \in j.lines THEN 0 ELSE @[t]]]

\* upload_bank_statement
UploadBankStatement(s) ==
    Serves(s, "upload", UploadJobs, UploadedRead, NewLines, StatementUploaded)

MatchJobs == [line : BankLines, entry : 1 .. MaxRequests]

MatchRead(j, d) == [found |-> d.bank[j.line] # -1, posted |-> j.entry \in DOMAIN d.entries]

BothExist(j, v) == v.found /\ v.posted

\* a line that is matched already is matched again
LineMatched(j, v, d) == [d EXCEPT !.bank[j.line] = j.entry]

\* match_bank_transaction
MatchBankTransaction(s) ==
    Serves(s, "match", MatchJobs, MatchRead, BothExist, LineMatched)

-----------------------------------------------------------------------------
\* the lines of account a in the entries dated from first to last
LinesOf(a, first, last) ==
    {x \in UNION {{i} \X DOMAIN db.entries[i].lines : i \in DOMAIN db.entries} :
        /\ db.entries[x[1]].lines[x[2]].account = a
        /\ db.entries[x[1]].date \in first .. last}

\* Mutant: only an asset has its balance on the debit side
AssetsOnly(a, debit, credit) ==
    IF TypeOf[a] = "asset" THEN debit - credit ELSE credit - debit

Balance(a, debit, credit) ==
    IF TypeOf[a] \in DebitNormal THEN debit - credit ELSE credit - debit

\* _account_balances and totals_for, summed
TotalOf(type, first, last) ==
    LET debit(a)  == SumFunction([x \in LinesOf(a, first, last) |->
                                     db.entries[x[1]].lines[x[2]].debit])
        credit(a) == SumFunction([x \in LinesOf(a, first, last) |->
                                     db.entries[x[1]].lines[x[2]].credit])
    IN SumFunction([a \in {c \in db.chart : TypeOf[c] = type} |->
                       Balance(a, debit(a), credit(a))])

\* total_assets, total_liabilities and total_equity of get_balance_sheet
BalanceSheet(as_of) == [type \in {"asset", "liability", "equity"} |-> TotalOf(type, 0, as_of)]

\* net_surplus of get_income_statement
NetSurplus(first, last) == TotalOf("income", first, last) - TotalOf("expense", first, last)

-----------------------------------------------------------------------------
\* what an entry is out by, in cents
OutBy(lines) == TotalDebit(lines) - TotalCredit(lines)

\* Every entry balances as far as the columns of its lines can hold it,
\* whichever module wrote it and whatever was configured when it did: it is
\* checked to the last decimal and then rounded, each amount by half a cent at
\* most, and never by more.
TrialBalances ==
    \A i \in DOMAIN db.entries :
        LET lines == db.entries[i].lines IN
        OutBy(lines) \in -Len(lines) .. Len(lines)

ReportedTypes == DebitNormal \cup CreditNormal

\* what the accounts hold that are in no report, on the debit side
Unreported(day) ==
    SumFunction([a \in {c \in db.chart : TypeOf[c] \notin ReportedTypes} |->
                    SumFunction([x \in LinesOf(a, 0, day) |->
                        db.entries[x[1]].lines[x[2]].debit - db.entries[x[1]].lines[x[2]].credit])])

\* The reports agree with the journal on every day.  What the balance sheet
\* shows as owned differs from what it shows as owed, the equity, and the
\* surplus of the income statement up to that day, which the flag `balances`
\* leaves out, by what the entries up to then are out by, and by the accounts
\* whose type is spelled in a way that no report asks for; by nothing else.
ReportsAgree ==
    \A day \in 0 .. now :
        LET sheet   == BalanceSheet(day)
            entries == {i \in DOMAIN db.entries : db.entries[i].date \in 0 .. day}
        IN sheet["asset"] - sheet["liability"] - sheet["equity"] - NetSurplus(0, day)
              + Unreported(day)
           = SumFunction([i \in entries |-> OutBy(db.entries[i].lines)])

\* The books agree: each entry balances to the cent of each line, and the
\* reports computed from all of them are out by what the entries are.
BooksAgree == TrialBalances /\ ReportsAgree
=============================================================================

\* Ledger, staff payroll, users, notifications and registers
CONSTANTS
    cash = cash
    loans = loans
    salaries = salaries
    nssf = nssf
    payable = payable
    capital = capital
    fees = fees
    e1 = e1
    e2 = e2
    u1 = u1
    n1 = n1
    n2 = n2
    a1 = a1
    r1 = r1
    f1 = f1
    w1 = w1
    w2 = w2
    t1 = t1
    jan = jan
    feb = feb
    s1 = s1
    s2 = s2
    NoAccount = NoAccount
    Accounts = {cash, loans, salaries, nssf, payable, capital, fees}
    TypeOf <- TypeOfValue
    OpeningChart = {cash, loans, salaries, nssf, payable}
    OpeningGL <- OpeningGLValue
    BankLines = {t1}
    Changes <- ChangesValue
    ManualEntries <- ManualEntriesValue
    SampleGross <- SampleGrossValue
    Employees = {e1, e2}
    Salaries <- SalariesValue
    OwedBy <- OwedByValue
    LoanAccountOf <- LoanAccountOfValue
    Periods = {jan, feb}
    Staffings <- StaffingsValue
    Overrides <- OverridesValue
    Accountholders = {u1}
    Secrets = {1, 2}
    Notices = {n1, n2}
    Alerts = {a1}
    Reports = {r1}
    Flags = {f1}
    SeedNews = {w1}
    StaffNews = {w2}
    Sessions = {s1, s2}
    Isolation = "serializable"
    Desks <- DesksValue
    MaxRequests = 4
    MaxTime = 1
SPECIFICATION Spec
INVARIANTS TypeOK BooksAgree PayrollAddsUp OnceOnly SentOnce
PROPERTIES ProcessedIsImmutable ActsInOwnPortal TasksEnd
CHECK_DEADLOCK FALSE

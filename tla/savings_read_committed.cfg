\* PostgreSQL's default isolation, a server whose local date leads UTC
CONSTANTS
    r1 = r1
    r2 = r2
    r3 = r3
    regular = regular
    target = target
    Accounts = {1, 2}
    ProductOf <- OneProduct
    MinimumBalance <- OneMinimum
    Rate <- HighRate
    GlConfigured = {regular}
    Opening <- OpeningBalances
    Amounts = {2}
    Requests = {r1, r2, r3}
    Operations <- GlKinds
    Isolation = "read_committed"
    ServerIsUtc = FALSE
    MaxMonth = 1
SPECIFICATION FairSpec
INVARIANTS MinimumBalanceKept LiabilityMatchesRows
PROPERTY RequestsGoOn
CHECK_DEADLOCK FALSE

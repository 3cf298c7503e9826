\* Two accounts, three concurrent requests, a serializable database
CONSTANTS
    r1 = r1
    r2 = r2
    r3 = r3
    regular = regular
    target = target
    Accounts = {1, 2}
    ProductOf <- OneProduct
    MinimumBalance <- OneMinimum
    Rate <- HighRate
    GlConfigured = {regular}
    Opening <- OpeningBalances
    Amounts = {1, 2}
    Requests = {r1, r2, r3}
    Operations <- AllKinds
    Isolation = "serializable"
    ServerIsUtc = TRUE
    MaxMonth = 1
SPECIFICATION Spec
SYMMETRY SymmetricRequests
INVARIANTS BalanceMatchesRows InterestOncePerMonth
PROPERTY AtomicSpec
CHECK_DEADLOCK FALSE

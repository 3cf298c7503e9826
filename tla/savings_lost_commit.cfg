\* A refused commit that RetryingSession retries
CONSTANTS
    r1 = r1
    r2 = r2
    r3 = r3
    regular = regular
    target = target
    Accounts = {1, 2}
    ProductOf <- OneProduct
    MinimumBalance <- OneMinimum
    Rate <- NoRate
    GlConfigured = {regular}
    Opening <- OpeningBalances
    Amounts = {1, 2}
    Requests = {r1, r2}
    Operations <- TransferKinds
    Isolation = "serializable"
    ServerIsUtc = TRUE
    MaxMonth = 0
SPECIFICATION Spec
INVARIANT AcknowledgedIsDurable
CHECK_DEADLOCK FALSE

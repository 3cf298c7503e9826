\* A deposit, a withdrawal and a repayment, two sessions, staff at the counter
CONSTANTS
    acc = acc
    lna = lna
    dep = dep
    wdr = wdr
    wdr2 = wdr2
    rep = rep
    pay = pay
    pay2 = pay2
    h1 = h1
    h2 = h2
    Txns = {dep, wdr, rep}
    JobOf <- JobsHere
    Accounts = {acc}
    Minimum <- MinimumHere
    Opening <- OpeningHere
    Loans = {lna}
    Principal <- PrincipalHere
    Due <- DueHere
    Unit = 1
    GlConfigured = TRUE
    Handlers = {h1, h2}
    Counter = {"withdrawal", "disbursement", "write_off"}
    CounterAmounts = {2}
    Faults = {}
    Isolation = "serializable"
    SingleWorker = FALSE
SPECIFICATION Spec
SYMMETRY SymmetricHandlers
INVARIANTS BookedOnce RowsAreTrue OwedAddsUp
PROPERTY PaymentsSpec
CHECK_DEADLOCK FALSE

\* Two payouts of one loan, and staff who collect and write off
CONSTANTS
    acc = acc
    lna = lna
    dep = dep
    wdr = wdr
    wdr2 = wdr2
    rep = rep
    pay = pay
    pay2 = pay2
    h1 = h1
    h2 = h2
    Txns = {pay, pay2}
    JobOf <- JobsHere
    Accounts = {acc}
    Minimum <- MinimumHere
    Opening <- OpeningHere
    Loans = {lna}
    Principal <- PrincipalHere
    Due <- DueHere
    Unit = 1
    GlConfigured = TRUE
    Handlers = {h1, h2}
    Counter = {"repayment", "write_off"}
    CounterAmounts = {3}
    Faults = {"reply_lost", "crash", "other_uuid"}
    Isolation = "serializable"
    SingleWorker = FALSE
SPECIFICATION FairSpec
INVARIANTS LedgerFollowsMarzPay OwedAddsUp
PROPERTIES FinalStatusStays OutcomeIsLearned
CHECK_DEADLOCK FALSE

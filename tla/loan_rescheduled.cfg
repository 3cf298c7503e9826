\* Repayments, deductions and reschedulings without penalties
CONSTANTS
    s1 = s1
    s2 = s2
    Principal = 9
    Months = 2
    Rate <- AThird
    PenaltyPct = 50
    Amounts = {2, 5}
    Terms = {1, 2}
    GlPosts <- AllEntries
    Sessions = {s1}
    Operations = {"disburse", "repay", "payroll", "reschedule"}
    Isolation = "serializable"
    MaxOps = 6
    MaxRows = 6
    LastMonth = 1
SPECIFICATION Spec
INVARIANTS TypeOK ReceivableIsPrincipal
CHECK_DEADLOCK FALSE

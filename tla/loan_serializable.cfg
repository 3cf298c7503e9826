\* All that happens to an active loan, two sessions at a time
CONSTANTS
    s1 = s1
    s2 = s2
    Principal = 9
    Months = 2
    Rate <- AThird
    PenaltyPct = 50
    Amounts = {5}
    Terms = {2}
    GlPosts <- AllEntries
    Sessions = {s1, s2}
    Operations = {"disburse", "repay", "penalties", "waive", "write_off", "reschedule"}
    Isolation = "serializable"
    MaxOps = 5
    MaxRows = 4
    LastMonth = 2
SPECIFICATION Spec
SYMMETRY SymmetricSessions
INVARIANTS PaymentsStay StatusFollowsSchedule
PROPERTY PenaltyChargedOnce
CHECK_DEADLOCK FALSE

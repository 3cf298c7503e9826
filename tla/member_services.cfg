\* Shares, membership, referrals, payroll files and vaults
CONSTANTS
    m1 = m1
    m2 = m2
    u1 = u1
    u2 = u2
    u3 = u3
    r1 = r1
    v1 = v1
    s1 = s1
    s2 = s2
    job = job
    Nobody = Nobody
    Members = {m1, m2}
    Savers = {m1}
    Original = {m1}
    Undated = {m1}
    Users = {u1, u2, u3}
    Founders = {u1}
    MemberOf <- MemberOfValue
    Legacy = {r1}
    ReferrerOf <- ReferrerOfValue
    VaultIds = {v1}
    Target = 2
    LockPeriod = 1
    MaxShares = 2
    MaxLines = 2
    WarnAfter = 1
    DormantAfter = 2
    EscalateAfter = 3
    Sessions = {s1, s2, job}
    Scheduler = job
    Isolation = "serializable"
    Desks <- DesksValue
    MaxRequests = 4
    MaxTime = 3
SPECIFICATION Spec
INVARIANTS TypeOK CreditsAreExplained  ReferralsAddUp VaultsAddUp
PROPERTIES RegisterSpec ExitsCleared SweepKeepsDecisions SilentFallDormant
CHECK_DEADLOCK FALSE

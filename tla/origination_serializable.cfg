\* An application with guarantors and a group, two sessions
CONSTANTS
    g1 = g1
    g2 = g2
    q1 = q1
    s1 = s1
    s2 = s2
    Guarantors = {g1, g2}
    MinGuarantors = 1
    Guarantees = {q1}
    Sessions = {s1, s2}
    Isolation = "serializable"
    MaxRequests = 6
SPECIFICATION Spec
SYMMETRY Symmetric
INVARIANT ApprovedIsGuaranteed
PROPERTY LifecycleSpec
CHECK_DEADLOCK FALSE

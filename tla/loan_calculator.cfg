\* Every principal up to 60 cents, up to 5 months, four rates
CONSTANTS
    MaxPrincipal = 60
    MaxMonths = 5
    QueryRates <- FourRates
SPECIFICATION QuerySpec
INVARIANT ScheduleAddsUp

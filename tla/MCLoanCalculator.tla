-------------------------- MODULE MCLoanCalculator --------------------------
(* BuildSchedule over every small principal, rate and term: each initial   *)
(* state is one query, and nothing happens after it.                       *)
EXTENDS LoanCalculator, Functions

CONSTANTS
    MaxPrincipal,   \* a bound on principals, in cents
    MaxMonths,      \* a bound on terms
    QueryRates      \* monthly rates

ASSUME QueriesAssumption ==
    /\ MaxPrincipal \in Nat /\ MaxMonths \in Nat
    /\ QueryRates \subseteq [num : Nat, den : Nat \ {0}]

VARIABLE query

Queries == [principal : 1 .. MaxPrincipal, months : 1 .. MaxMonths, rate : QueryRates]

QueryInit == query \in Queries
QueryNext == UNCHANGED query
QuerySpec == QueryInit /\ [][QueryNext]_query

FourRates == {Frac(0, 1), Frac(1, 12), Frac(1, 4), Frac(1, 1)}

Quoted  == BuildSchedule(Whole(query.principal), query.rate, query.months)
Asked(i) == Quoted[i].principal + Quoted[i].interest

\* what rounding up to a cent each month may come to, all of it compounded
\* until the end; over Flat
Drift == query.months * Power(query.rate.den + query.rate.num, query.months)
Flat  == Power(query.rate.den, query.months)

\* The principal that the schedule asks for is the principal that was lent,
\* to the cent and whatever the rounding of the installments.
PrincipalIsRepaid ==
    SumFunctionOnSet([i \in 1 .. query.months |-> Quoted[i].principal], 1 .. query.months)
        = query.principal

\* The installments are level: all but the last are equal, and the last one
\* differs by no more than the drift.
InstallmentsAreLevel ==
    \A i \in 1 .. query.months - 1 :
        /\ Asked(i) = Asked(1)
        /\ (Asked(query.months) - Asked(i)) * Flat <= Drift
        /\ (Asked(i) - Asked(query.months)) * Flat <= Drift

\* Interest falls and principal is not negative: the schedule is one of a
\* reducing balance. The last row is, if the installment exceeds the drift.
BalanceReduces ==
    /\ \A i \in 1 .. query.months - 1 : Quoted[i].principal >= 0
    /\ \A i \in 2 .. query.months : Quoted[i].interest <= Quoted[i - 1].interest
    /\ Asked(1) * Flat >= Drift => Quoted[query.months].principal >= 0

\* A schedule is sound in all three respects, whatever BuildSchedule rounded.
ScheduleAddsUp == PrincipalIsRepaid /\ InstallmentsAreLevel /\ BalanceReduces
=============================================================================

--------------------------- MODULE LoanCalculator ---------------------------
(***************************************************************************)
(* The reducing-balance amortization of loan_calculator.py, in cents.      *)
(* Decimal's 28 digits are taken as exact: a value that has not been       *)
(* quantized is a fraction.                                                *)
(***************************************************************************)
EXTENDS Integers, Sequences

Frac(n, d)  == [num |-> n, den |-> d]
Ratio(n, d) == IF d > 0 THEN Frac(n, d) ELSE Frac(- n, - d)
Whole(n)    == Frac(n, 1)
Plus(p, q) == IF p.den = q.den THEN Frac(p.num + q.num, p.den)
              ELSE Frac(p.num * q.den + q.num * p.den, p.den * q.den)
Minus(p, q) == Plus(p, Frac(- q.num, q.den))
Times(p, q) == Frac(p.num * q.num, p.den * q.den)

\* quantize(TWO_PLACES, ROUND_HALF_UP): half a cent is rounded away from zero
Cents(q) ==
    LET up(n) == (2 * n + q.den) \div (2 * q.den)
    IN  IF q.num >= 0 THEN up(q.num) ELSE - up(- q.num)

Power(n, m) ==
    LET power[i \in 0 .. m] == IF i = 0 THEN 1 ELSE n * power[i - 1] IN power[m]

\* The annuity on a principal at the monthly rate over m months; its growth
\* factor is ((den + num) / den)^m
Installment(principal, rate, m) ==
    IF rate.num = 0 THEN Times(principal, Frac(1, m))
    ELSE LET grown == Power(rate.den + rate.num, m)
         IN  Times(principal,
                   Frac(rate.num * grown, rate.den * (grown - Power(rate.den, m))))

\* Mutant: the last row is like the others
RowUncleared(balance, each, rate, last) ==
    LET interest == Cents(Times(balance, rate))
    IN  [principal |-> Cents(Minus(each, Whole(interest))), interest |-> interest]

\* Row i asks for the interest on the balance and for what the installment
\* leaves for principal; the last one clears the balance.
RowOn(balance, each, rate, last) ==
    LET interest == Cents(Times(balance, rate))
    IN  [principal |-> IF last THEN Cents(balance) ELSE Cents(Minus(each, Whole(interest))),
         interest  |-> interest]

\* build_reducing_balance_schedule, a sequence of rows
BuildSchedule(principal, rate, m) ==
    LET each == Installment(principal, rate, m)
        after[i \in 0 .. m] ==
            IF i = 0 THEN [balance |-> principal, rows |-> << >>]
            ELSE LET before == after[i - 1]
                     row    == RowOn(before.balance, each, rate, i = m)
                 IN  [balance |-> Minus(before.balance, Whole(row.principal)),
                      rows    |-> Append(before.rows, row)]
    IN  after[m].rows
=============================================================================

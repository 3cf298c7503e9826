------------------------------ MODULE UgandaTax ------------------------------
(***************************************************************************)
(* PAYE and NSSF of a monthly gross pay, in cents.                         *)
(***************************************************************************)
EXTENDS Integers, Sequences, Functions

CONSTANT SampleGross   \* gross pays for the comparison with the marginal rates

ASSUME TaxAssumption == SampleGross \subseteq Nat

\* PAYE_BANDS: lower bound, tax below it, and the rate in tenths.  A band
\* ends where the next one starts.
PAYE_BANDS == <<[lower |-> 0,          base |-> 0,         rate |-> 0],
                [lower |-> 23500000,   base |-> 0,         rate |-> 1],
                [lower |-> 33500000,   base |-> 1000000,   rate |-> 2],
                [lower |-> 41000000,   base |-> 2500000,   rate |-> 3],
                [lower |-> 1000000000, base |-> 290200000, rate |-> 4]>>

\* x * tenths / 10, rounded half up, without leaving 32 bits
Tenths(x, tenths) == (x \div 10) * tenths + ((x % 10) * tenths + 5) \div 10

\* the first band whose upper bound the pay does not exceed
BandOf(gross) ==
    CHOOSE i \in DOMAIN PAYE_BANDS :
        /\ i = Len(PAYE_BANDS) \/ gross <= PAYE_BANDS[i + 1].lower
        /\ \A k \in 1 .. i - 1 : gross > PAYE_BANDS[k + 1].lower

\* calculate_paye
Paye(gross) ==
    LET band == PAYE_BANDS[BandOf(gross)] IN
    band.base + Tenths(gross - band.lower, band.rate)

\* calculate_nssf, rounded half away from zero
NssfEmployee(gross) == IF gross < 0 THEN -((10 - gross) \div 20) ELSE (gross + 10) \div 20
NssfEmployer(gross) == IF gross < 0 THEN -((5 - gross) \div 10) ELSE (gross + 5) \div 10

-----------------------------------------------------------------------------
\* the part of a pay that lies in band i
PartIn(gross, i) ==
    LET lower == PAYE_BANDS[i].lower
        upper == IF i = Len(PAYE_BANDS) \/ gross <= PAYE_BANDS[i + 1].lower
                 THEN gross ELSE PAYE_BANDS[i + 1].lower
    IN IF gross <= lower THEN 0 ELSE upper - lower

\* The base amounts written into the table are the tax of the bands below
\* them: the PAYE of a pay is each part of it taxed at the rate of its band,
\* to the cent, on both sides of every bound.
TaxIsMarginal ==
    \A gross \in SampleGross :
        Paye(gross) = SumFunction([i \in DOMAIN PAYE_BANDS |->
                                      Tenths(PartIn(gross, i), PAYE_BANDS[i].rate)])
=============================================================================

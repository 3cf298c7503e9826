---------------------------- MODULE MCBackOffice ----------------------------
(* Small instances of BackOffice for TLC.                                  *)
EXTENDS BackOffice, TLC

CONSTANTS cash, loans, salaries, nssf, payable, capital, fees,
          e1, e2, u1, n1, n2, a1, r1, f1, w1, w2, t1, jan, feb, s1, s2

DesksValue ==
    {{"create_account", "journal"},
     {"journal", "upload", "match"},
     {"run", "process", "pay"},
     {"employee", "run", "process", "gl_settings"},
     {"user_update", "login", "refresh", "2fa_setup", "2fa_enable", "2fa_disable"},
     {"notify", "alert", "deliver"},
     {"report", "submit", "flag", "resolve"},
     {"news_list", "news_post", "news_delete"}}

TypeOfValue ==
    cash :> "asset" @@ loans :> "asset" @@ salaries :> "expense" @@ nssf :> "expense"
        @@ payable :> "liability" @@ capital :> "equity" @@ fees :> "Income"

OpeningGLValue ==
    "cash" :> cash @@ "salaries" :> salaries @@ "nssf_expense" :> nssf
        @@ "paye_payable" :> payable @@ "nssf_payable" :> payable

ChangesValue  == {<<"cash", NoAccount>>, <<"cash", cash>>, <<"salaries", capital>>}

\* a third of 10 cents three times, both sides of one line, a negative amount, an
\* account of no report, and two that are refused
ManualEntriesValue ==
    {<<Line(cash, 33, 0), Line(cash, 33, 0), Line(loans, 34, 0), Line(payable, 0, 100)>>,
     <<Line(cash, 55, 5), Line(fees, 0, 50)>>,
     <<Line(salaries, -20, 0), Line(cash, 0, -20)>>,
     <<Line(cash, 50, 0), Line(capital, 0, 50)>>,
     <<Line(cash, 50, 0), Line(payable, 0, 51)>>,
     <<Line(cash, 0, 0), Line(payable, 0, 0)>>}

SalariesValue  == {30000000, 45000005, -105}
OwedByValue    == e1 :> 5000000 @@ e2 :> 0
StaffingsValue == {<<e1, e2>>, <<e2, e2>>}
LoanAccountOfValue == e1 :> loans @@ e2 :> NoAccount
OverridesValue == {<<>>, e1 :> -5, e1 :> 900000000, e1 :> 33335, e2 :> 4}

\* on both sides of every bound of PAYE_BANDS, and away from whole shillings
SampleGrossValue ==
    UNION {{b - 1, b, b + 1, b + 6} : b \in {23500000, 33500000, 41000000, 1000000000}}
        \cup {1, 5, 15, 99, 12345678, 37777777, 123456785}
=============================================================================
